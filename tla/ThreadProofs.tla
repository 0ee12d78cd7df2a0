------------------------------ MODULE ThreadProofs ------------------------------
(***************************************************************************)
(* Theorems about what threads share below the scheduler, as parts of      *)
(* MCConcurrency: the stack with hazard pointers (HazptrStack), for any    *)
(* threads, addresses and bounds; thread ids and thread-specific lists     *)
(* (ThreadIds), for any threads, first chunk and number of chunks.         *)
(***************************************************************************)
EXTENDS MCConcurrency, FiniteSetTheorems, WellFoundedInduction, TLAPS

-----------------------------------------------------------------------------
(* Induction on the naturals, of sets: there is a least element, because   *)
(* the intervals below the elements are finite sets and so one of them     *)
(* contains no other.                                                      *)
LEMMA Least ==
  ASSUME NEW T \in SUBSET Nat, T # {}
  PROVE  \E i \in T : \A m \in T : i <= m
<1> DEFINE below == {0 .. i : i \in T}
           R == StrictSubsetOrdering(Nat)
<1>1. IsWellFoundedOn(R, FiniteSubsetsOf(Nat))
  BY FS_StrictSubsetOrderingWellFounded
<1>2. below \subseteq FiniteSubsetsOf(Nat) /\ below # {}
  <2>1. ASSUME NEW m \in T PROVE 0 .. m \in FiniteSubsetsOf(Nat)
    <3>1. m \in Nat
      OBVIOUS
    <3>2. 0 .. m \subseteq Nat /\ IsFiniteSet(0 .. m)
      BY <3>1, FS_Interval
    <3> QED BY <3>2 DEF FiniteSubsetsOf
  <2> QED BY <2>1, Zenon
<1>3. \E x \in below : \A y \in below : ~ (<<y, x>> \in R)
  BY <1>1, <1>2, WFMin, Zenon
<1>4. PICK i \in T : \A m \in T : ~ (<<0 .. m, 0 .. i>> \in R)
  BY <1>3, Zenon
<1>5. ASSUME NEW m \in T PROVE i <= m
  <2>0. i \in Nat /\ m \in Nat
    OBVIOUS
  <2> SUFFICES ASSUME m < i PROVE FALSE
    BY <2>0
  <2>1. 0 .. m \subseteq 0 .. i /\ i \in 0 .. i /\ i \notin 0 .. m
    BY <2>0
  <2>2. <<0 .. m, 0 .. i>> \in R
    <3>1. 0 .. m \subseteq Nat /\ 0 .. i \subseteq Nat
      BY <2>0
    <3> QED BY <2>1, <3>1 DEF StrictSubsetOrdering
  <2> QED BY <1>4, <2>2
<1> QED BY <1>5

LEMMA SetInduction ==
  ASSUME NEW T, 0 \in T, \A i \in Nat : i \in T => i + 1 \in T
  PROVE  Nat \subseteq T
<1> DEFINE missing == Nat \ T
<1> SUFFICES ASSUME missing # {} PROVE FALSE
  OBVIOUS
<1>1. PICK i \in missing : \A m \in missing : i <= m
  BY Least, Zenon
<1>2. i # 0 /\ i - 1 \in Nat /\ i - 1 \notin missing /\ (i - 1) + 1 = i
  BY <1>1
<1> QED BY <1>1, <1>2

-----------------------------------------------------------------------------
(* The lists of the stack (HazptrStack).                                   *)
Along(a, g, i) == IF i = 0 THEN a ELSE IF g[i - 1] = Null THEN Null ELSE node[g[i - 1]].next

(* Following the next pointers is well defined.                            *)
LEMMA WalkExists ==
  ASSUME NEW a, NEW N \in Nat
  PROVE  \E g : g = [i \in 0 .. N |-> Along(a, g, i)]
<1> DEFINE T == {k \in Nat : \E g : g = [i \in 0 .. k |-> Along(a, g, i)]}
<1>1. 0 \in T
  <2> DEFINE g == [i \in 0 .. 0 |-> a]
  <2>1. g = [i \in 0 .. 0 |-> Along(a, g, i)]
    BY DEF Along
  <2> QED BY <2>1
<1>2. ASSUME NEW k \in Nat, k \in T PROVE k + 1 \in T
  <2>1. PICK f : f = [i \in 0 .. k |-> Along(a, f, i)]
    BY <1>2
  <2> DEFINE g == [i \in 0 .. k + 1 |-> IF i <= k THEN f[i] ELSE Along(a, f, k + 1)]
  <2>2. ASSUME NEW i \in 0 .. k + 1 PROVE g[i] = Along(a, g, i)
    <3>1. i = 0 \/ (i - 1 \in 0 .. k /\ g[i - 1] = f[i - 1])
      OBVIOUS
    <3>2. Along(a, g, i) = Along(a, f, i)
      BY <3>1 DEF Along
    <3>3. CASE i <= k
      BY <2>1, <3>2, <3>3
    <3>4. CASE i = k + 1
      BY <3>2, <3>4
    <3> QED BY <3>3, <3>4
  <2>3. g = [i \in 0 .. k + 1 |-> g[i]]
    OBVIOUS
  <2>4. [i \in 0 .. k + 1 |-> g[i]] = [i \in 0 .. k + 1 |-> Along(a, g, i)]
    BY <2>2
  <2>5. g = [i \in 0 .. k + 1 |-> Along(a, g, i)]
    BY <2>3, <2>4
  <2> HIDE DEF g
  <2> QED BY <2>5
<1> HIDE DEF T
<1>3. N \in T
  BY <1>1, <1>2, SetInduction
<1> QED BY <1>3 DEF T

-----------------------------------------------------------------------------
(* The inductive invariant of the stack, about the elements f of the       *)
(* stack, the last one on top, and the nodes R of the retired lists.       *)
Refs  == Addresses \cup {Null}
Marks == {"idle", "load", "announce", "confirm", "link", "next", "cas", "retire", "scan",
          "cleanup", "release"}
Node  == [live : BOOLEAN, t : Int, next : Refs, length : Int]
Local == [pc : Marks, op : {"none", "push", "pop"}, p : Refs, h : Refs, next : Refs,
          left : SUBSET Pair, announced : SUBSET Refs]

StackTypes ==
  /\ head \in Refs
  /\ node \in [Addresses -> Node]
  /\ announcement \in [Pair -> Refs]
  /\ retired \in [Pair -> Refs]
  /\ me \in [Pair -> Local]
  /\ pushes \in Int
  /\ content \in Seq(Int)

(* What the place of a thread says of its locals.                          *)
Pushing(t) == me[t].op = "push" /\ me[t].pc \in {"load", "announce", "confirm", "link", "cas"}
Popping(t) == me[t].op = "pop" /\ me[t].pc \in {"next", "cas", "retire"}

Placed(t) ==
  /\ Pushing(t) => me[t].p # Null
  /\ Popping(t) => me[t].h # Null
  /\ me[t].pc \in {"load", "announce", "confirm", "cas"} => me[t].op \in {"push", "pop"}
  /\ me[t].pc = "link" => me[t].op = "push"
  /\ me[t].pc \in {"next", "retire"} => me[t].op = "pop"
  /\ me[t].pc \in {"confirm", "link", "next", "cas"} => announcement[t] = me[t].h

(* The new node of a push, the node a pop has taken off, and whether a     *)
(* thread relies on its announcement of node a.                            *)
Fresh(t)    == IF Pushing(t) THEN {me[t].p} ELSE {}
Taken(t)    == IF me[t].pc = "retire" THEN {me[t].h} ELSE {}
Mine(t)     == Fresh(t) \cup Taken(t)
Looks(t, a) == me[t].pc \in {"link", "next", "cas"} /\ me[t].h = a

At(f, i) == IF i = 0 THEN Null ELSE f[i]

(* The stack holds the content.                                            *)
Holds(f) ==
  /\ head = At(f, Len(content))
  /\ \A i \in 1 .. Len(content) :
       /\ node[f[i]].live
       /\ node[f[i]].t = content[Len(content) - i + 1]
       /\ node[f[i]].next = At(f, i - 1)
       /\ node[f[i]].length = i

(* A thread before its compare-and-swap: if it succeeds, what it puts in   *)
(* the place of the head is right.                                         *)
Prepared(f) ==
  \A t \in Pair : me[t].pc = "cas" =>
    /\ me[t].op = "push" =>
         /\ node[me[t].p].next = me[t].h
         /\ node[me[t].p].length = IF me[t].h = Null THEN 1 ELSE node[me[t].h].length + 1
    /\ me[t].op = "pop" =>
         \A i \in 1 .. Len(content) : f[i] = me[t].h => me[t].next = node[me[t].h].next

(* Every node is in one place only.                                        *)
Apart(f, R) ==
  /\ \A i \in 1 .. Len(content), t \in Pair : f[i] \notin Mine(t) \cup R[t]
  /\ \A t, u \in Pair : Mine(t) \cap R[u] = {}
  /\ \A t, u \in Pair : t # u => R[t] \cap R[u] = {} /\ Mine(t) \cap Mine(u) = {}

(* Nodes are not deleted before they are retired, and the retired lists    *)
(* stay among the nodes retired.                                           *)
Kept(R) ==
  /\ \A t \in Pair : \A a \in Mine(t) \cup R[t] : node[a].live
  /\ \A t \in Pair : retired[t] \in R[t] \cup {Null}
  /\ \A t \in Pair : \A a \in R[t] : node[a].next \in R[t] \cup {Null}

(* A node that a thread looks into is not deleted: a scan that began after *)
(* the node was retired finds, or has found, the announcement.             *)
Spared(R, t, a, u) ==
  /\ a \notin Fresh(u)
  /\ a \in R[u] /\ me[u].pc = "scan" => t \in me[u].left \/ a \in me[u].announced
  /\ a \in R[u] /\ me[u].pc = "cleanup" => a \in me[u].announced

Guarded(R) ==
  \A t \in Pair, a \in Addresses : Looks(t, a) =>
    node[a].live /\ \A u \in Pair : Spared(R, t, a, u)

StackBody(f, R) ==
  /\ f \in [1 .. Len(content) -> Addresses] /\ R \in [Pair -> SUBSET Addresses]
  /\ Holds(f) /\ Prepared(f) /\ Apart(f, R) /\ Kept(R) /\ Guarded(R)

StackInv ==
  /\ StackTypes
  /\ \A t \in Pair : Placed(t)
  /\ \E f, R : StackBody(f, R)

-----------------------------------------------------------------------------
(* Steps of a thread leave what is said of the other's locals alone.       *)
LEMMA Others ==
  ASSUME StackTypes, NEW t \in Pair, NEW l \in Local, NEW w \in Marks, Stack!Goto(t, l, w)
  PROVE  /\ me' \in [Pair -> Local]
         /\ me'[t].pc = w /\ me'[t].op = l.op /\ me'[t].p = l.p /\ me'[t].h = l.h
         /\ me'[t].next = l.next /\ me'[t].left = l.left /\ me'[t].announced = l.announced
         /\ \A u \in Pair : u # t => me'[u] = me[u]
<1> DEFINE r == [l EXCEPT !.pc = w]
<1>1. /\ r \in Local /\ r.pc = w /\ r.op = l.op /\ r.p = l.p /\ r.h = l.h
      /\ r.next = l.next /\ r.left = l.left /\ r.announced = l.announced
  BY DEF Local
<1>2. me \in [Pair -> Local] /\ me' = [me EXCEPT ![t] = r]
  BY DEF StackTypes, Stack!Goto
<1> QED BY <1>1, <1>2

LEMMA Same ==
  ASSUME NEW u \in Pair, me'[u] = me[u]
  PROVE  /\ Fresh(u)' = Fresh(u) /\ Taken(u)' = Taken(u) /\ Mine(u)' = Mine(u)
         /\ \A a : Looks(u, a)' = Looks(u, a)
         /\ announcement'[u] = announcement[u] => Placed(u)' = Placed(u)
<1>1. Pushing(u)' = Pushing(u) /\ Popping(u)' = Popping(u)
  BY DEF Pushing, Popping
<1>2. Fresh(u)' = Fresh(u) /\ Taken(u)' = Taken(u)
  BY <1>1 DEF Fresh, Taken
<1> QED BY <1>1, <1>2 DEF Mine, Looks, Placed

(* Steps that change neither a node nor a list.                            *)
LEMMA QuietStep ==
  ASSUME StackTypes, NEW f, NEW R, StackBody(f, R), NEW t \in Pair,
         UNCHANGED <<head, node, retired, content>>,
         \A u \in Pair : u # t => me'[u] = me[u],
         Fresh(t)' = Fresh(t), Taken(t)' = Taken(t),
         me'[t].pc = "cas" => me'[t].op = "pop" /\ me'[t].next = node[me'[t].h].next,
         \A a \in Addresses : Looks(t, a)' => Looks(t, a) \/ a = head,
         \A a \in Addresses, u \in Pair : Looks(u, a) /\ Spared(R, u, a, t) => Spared(R, u, a, t)'
  PROVE  StackBody(f, R)'
<1>1. \A u \in Pair : Fresh(u)' = Fresh(u) /\ Mine(u)' = Mine(u)
  BY Same DEF Mine
<1>2. Holds(f)'
  BY Zenon DEF StackBody, Holds, At
<1>3. Prepared(f)'
  BY DEF StackBody, Prepared
<1>4. Apart(f, R)' /\ Kept(R)'
  BY <1>1 DEF StackBody, Apart, Kept
<1>5. Guarded(R)'
  <2> SUFFICES ASSUME NEW u \in Pair, NEW a \in Addresses, Looks(u, a)'
               PROVE  node[a].live /\ \A m \in Pair : Spared(R, u, a, m)'
    BY DEF Guarded
  <2>1. CASE Looks(u, a)
    <3>1. node[a].live /\ \A m \in Pair : Spared(R, u, a, m)
      BY <2>1 DEF StackBody, Guarded
    <3>2. ASSUME NEW m \in Pair, m # t PROVE Spared(R, u, a, m)'
      BY <1>1, <3>1, <3>2 DEF Spared
    <3> QED BY <2>1, <3>1, <3>2
  <2>2. CASE ~ Looks(u, a)
    <3>1. u = t /\ a = head
      BY <2>2, Same
    <3> DEFINE k == Len(content)
    <3>2. k \in Nat /\ head = At(f, k)
      BY DEF StackTypes, StackBody, Holds
    <3>3. k \in 1 .. k /\ a = f[k]
      BY <3>1, <3>2, NodesOK DEF At
    <3>4. node[a].live /\ \A m \in Pair : a \notin Mine(m) \cup R[m]
      BY <3>3 DEF StackBody, Holds, Apart
    <3>5. \A m \in Pair : a \notin Fresh(m)'
      BY <1>1, <3>4 DEF Mine
    <3> QED BY <3>4, <3>5 DEF Spared
  <2> QED BY <2>1, <2>2
<1> QED BY <1>2, <1>3, <1>4, <1>5 DEF StackBody

LEMMA QuietSteps ==
  ASSUME StackInv, NEW t \in Pair,
         \/ Stack!Pop(t) \/ Stack!Load(t) \/ Stack!Announce(t) \/ Stack!Confirm(t)
         \/ Stack!ReadNext(t) \/ Stack!ScanSlot(t) \/ Stack!Release(t)
  PROVE  StackInv'
<1>1. StackTypes /\ \A u \in Pair : Placed(u)
  BY DEF StackInv
<1>2. PICK f, R : StackBody(f, R)
  BY DEF StackInv
<1> DEFINE Quiet ==
      /\ StackTypes' /\ Placed(t)'
      /\ UNCHANGED <<head, node, retired, content>>
      /\ \A u \in Pair : u # t => me'[u] = me[u] /\ announcement'[u] = announcement[u]
      /\ Fresh(t)' = Fresh(t) /\ Taken(t)' = Taken(t)
      /\ me'[t].pc = "cas" => me'[t].op = "pop" /\ me'[t].next = node[me'[t].h].next
      /\ \A a \in Addresses : Looks(t, a)' => Looks(t, a) \/ a = head
      /\ \A a \in Addresses, u \in Pair : Looks(u, a) /\ Spared(R, u, a, t) => Spared(R, u, a, t)'
<1>b. SUFFICES Quiet
  <2> SUFFICES ASSUME Quiet PROVE StackInv'
    OBVIOUS
  <2> HIDE DEF Quiet
  <2>1. StackBody(f, R)'
    <3>1. \A u \in Pair : u # t => me'[u] = me[u]
      BY DEF Quiet
    <3> QED BY <1>1, <1>2, <3>1, QuietStep DEF Quiet
  <2>2. \A u \in Pair : Placed(u)'
    BY <1>1, Same DEF Quiet
  <2> QED BY <2>1, <2>2 DEF StackInv, Quiet
<1>a. ASSUME NEW u \in Pair, NEW a \in Addresses, Fresh(t)' = Fresh(t),
             me'[t].pc \notin {"scan", "cleanup"}, Spared(R, u, a, t)
      PROVE  Spared(R, u, a, t)'
  BY <1>a DEF Spared
<1>3. CASE Stack!Pop(t)
  <2>1. /\ me[t].pc = "idle" /\ UNCHANGED <<head, node, announcement, retired, pushes, content>>
        /\ me' = [me EXCEPT ![t] = [[Stack!Idle EXCEPT !.op = "pop"] EXCEPT !.pc = "load"]]
    BY <1>3 DEF Stack!Pop, Stack!Goto
  <2>2. StackTypes' /\ me'[t].pc = "load" /\ me'[t].op = "pop"
    BY <1>1, <2>1, Zenon DEF StackTypes, Local, Marks, Stack!Idle, Refs
  <2>3. \A u \in Pair : u # t => me'[u] = me[u] /\ announcement'[u] = announcement[u]
    BY <1>1, <2>1 DEF StackTypes
  <2>4. Placed(t)' /\ Fresh(t)' = Fresh(t) /\ Taken(t)' = Taken(t) /\ \A a : ~ Looks(t, a)'
    BY <2>1, <2>2 DEF Placed, Pushing, Popping, Fresh, Taken, Looks
  <2> QED BY <1>a, <2>1, <2>2, <2>3, <2>4
<1>4. CASE Stack!Load(t)
  <2> DEFINE l == [me[t] EXCEPT !.h = head]
  <2>0. l \in Local /\ l.op = me[t].op /\ l.p = me[t].p /\ "announce" \in Marks
    <3>1. me[t] \in Local /\ head \in Refs
      BY <1>1 DEF StackTypes
    <3>2. l \in Local /\ l.op = me[t].op /\ l.p = me[t].p
      BY <3>1 DEF Local
    <3> QED BY <3>2 DEF Marks
  <2>1. /\ me[t].pc = "load" /\ UNCHANGED <<head, node, announcement, retired, pushes, content>>
        /\ Stack!Goto(t, l, "announce")
    BY <1>4 DEF Stack!Load
  <2> HIDE DEF l
  <2>2. StackTypes' /\ me'[t].pc = "announce" /\ me'[t].op = me[t].op /\ me'[t].p = me[t].p
    BY <1>1, <2>0, <2>1, Others DEF StackTypes
  <2>3. \A u \in Pair : u # t => me'[u] = me[u] /\ announcement'[u] = announcement[u]
    BY <1>1, <2>0, <2>1, Others DEF StackTypes
  <2>4. Placed(t)' /\ Fresh(t)' = Fresh(t) /\ Taken(t)' = Taken(t) /\ \A a : ~ Looks(t, a)'
    BY <1>1, <2>1, <2>2 DEF Placed, Pushing, Popping, Fresh, Taken, Looks
  <2> QED BY <1>a, <2>1, <2>2, <2>3, <2>4
<1>5. CASE Stack!Announce(t)
  <2>1. /\ me[t].pc = "announce" /\ UNCHANGED <<head, node, retired, pushes, content>>
        /\ announcement' = [announcement EXCEPT ![t] = me[t].h]
        /\ me' = [me EXCEPT ![t] = [me[t] EXCEPT !.pc = "confirm"]]
    BY <1>5 DEF Stack!Announce, Stack!Goto
  <2>2. /\ StackTypes' /\ me'[t].pc = "confirm" /\ me'[t].op = me[t].op /\ me'[t].p = me[t].p
        /\ me'[t].h = me[t].h /\ announcement'[t] = me[t].h
    <3>1. me[t] \in Local /\ me[t].h \in Refs /\ "confirm" \in Marks
      BY <1>1 DEF StackTypes, Local, Marks
    <3>2. Stack!Goto(t, me[t], "confirm")
      BY <2>1 DEF Stack!Goto
    <3>3. /\ me' \in [Pair -> Local] /\ me'[t].pc = "confirm" /\ me'[t].op = me[t].op
          /\ me'[t].p = me[t].p /\ me'[t].h = me[t].h
      BY <1>1, <3>1, <3>2, Others
    <3>4. announcement' \in [Pair -> Refs] /\ announcement'[t] = me[t].h
      BY <1>1, <2>1, <3>1 DEF StackTypes
    <3> QED BY <1>1, <2>1, <3>3, <3>4 DEF StackTypes
  <2>3. \A u \in Pair : u # t => me'[u] = me[u] /\ announcement'[u] = announcement[u]
    BY <1>1, <2>1 DEF StackTypes
  <2>4. Placed(t)' /\ Fresh(t)' = Fresh(t) /\ Taken(t)' = Taken(t) /\ \A a : ~ Looks(t, a)'
    BY <1>1, <2>1, <2>2 DEF Placed, Pushing, Popping, Fresh, Taken, Looks
  <2> QED BY <1>a, <2>1, <2>2, <2>3, <2>4
<1>6. CASE Stack!Confirm(t)
  <2>0. me[t] \in Local
    BY <1>1 DEF StackTypes
  <2>1. PICK w \in Marks :
        /\ me[t].pc = "confirm" /\ UNCHANGED <<head, node, announcement, retired, pushes, content>>
        /\ Stack!Goto(t, me[t], w)
        /\ w = IF ~ Stack!Confirmed(t) THEN "load"
               ELSE IF me[t].op = "push" THEN "link"
               ELSE IF me[t].h = Null THEN "idle" ELSE "next"
    <3> DEFINE v == IF ~ Stack!Confirmed(t) THEN "load"
                    ELSE IF me[t].op = "push" THEN "link"
                    ELSE IF me[t].h = Null THEN "idle" ELSE "next"
    <3>1. v \in Marks
      BY DEF Marks
    <3>2. Stack!Goto(t, me[t], v)
      BY <1>6 DEF Stack!Confirm
    <3> HIDE DEF v
    <3> QED BY <1>6, <3>1, <3>2 DEF Stack!Confirm, v
  <2>2. /\ StackTypes' /\ me'[t].pc = w /\ me'[t].op = me[t].op /\ me'[t].p = me[t].p
        /\ me'[t].h = me[t].h
    BY <1>1, <2>0, <2>1, Others DEF StackTypes
  <2>3. \A u \in Pair : u # t => me'[u] = me[u] /\ announcement'[u] = announcement[u]
    BY <1>1, <2>0, <2>1, Others DEF StackTypes
  <2>4. me[t].op \in {"push", "pop"}
    BY <1>1, <2>1 DEF Placed
  <2>5. Placed(t)'
    BY <1>1, <2>1, <2>2, <2>4 DEF Placed, Pushing, Popping
  <2>6. Fresh(t)' = Fresh(t) /\ Taken(t)' = Taken(t)
    BY <2>1, <2>2, <2>4 DEF Pushing, Fresh, Taken
  <2>7. \A a : Looks(t, a)' => a = head
    BY <2>1, <2>2 DEF Looks, Stack!Confirmed
  <2> QED BY <1>a, <2>1, <2>2, <2>3, <2>5, <2>6, <2>7
<1>7. CASE Stack!ReadNext(t)
  <2>1. /\ me[t].pc = "next" /\ UNCHANGED <<head, node, announcement, retired, pushes, content>>
        /\ me' = [me EXCEPT ![t] = [[me[t] EXCEPT !.next = node[me[t].h].next] EXCEPT !.pc = "cas"]]
    BY <1>7 DEF Stack!ReadNext, Stack!Goto
  <2>a. me[t].op = "pop" /\ me[t].h # Null
    BY <1>1, <2>1 DEF Placed, Popping
  <2>b. me[t].h \in Addresses
    BY <1>1, <2>a DEF StackTypes, Local, Refs
  <2>2. /\ StackTypes' /\ me'[t].pc = "cas" /\ me'[t].op = "pop" /\ me'[t].p = me[t].p
        /\ me'[t].h = me[t].h /\ me'[t].next = node[me[t].h].next
    <3>1. PICK a : a = node[me[t].h].next
      OBVIOUS
    <3>2. PICK l : l = [me[t] EXCEPT !.next = a]
      BY Zenon
    <3>3. me[t] \in Local /\ a \in Refs /\ "cas" \in Marks
      BY <1>1, <2>b, <3>1 DEF StackTypes, Node, Marks
    <3>4. l \in Local /\ l.op = me[t].op /\ l.p = me[t].p /\ l.h = me[t].h /\ l.next = a
      BY <3>2, <3>3 DEF Local
    <3>5. Stack!Goto(t, l, "cas")
      BY <2>1, <3>1, <3>2 DEF Stack!Goto
    <3>6. /\ me' \in [Pair -> Local] /\ me'[t].pc = "cas" /\ me'[t].op = l.op
          /\ me'[t].p = l.p /\ me'[t].h = l.h /\ me'[t].next = l.next
      BY <1>1, <3>3, <3>4, <3>5, Others
    <3> QED BY <1>1, <2>1, <2>a, <3>1, <3>4, <3>6 DEF StackTypes
  <2>3. \A u \in Pair : u # t => me'[u] = me[u] /\ announcement'[u] = announcement[u]
    BY <1>1, <2>1 DEF StackTypes
  <2>4. Placed(t)' /\ Fresh(t)' = Fresh(t) /\ Taken(t)' = Taken(t) /\ \A a : Looks(t, a)' => Looks(t, a)
    BY <1>1, <2>1, <2>2, <2>a DEF Placed, Pushing, Popping, Fresh, Taken, Looks
  <2> QED BY <1>a, <2>1, <2>2, <2>3, <2>4
<1>8. CASE Stack!ScanSlot(t)
  <2>1. PICK m \in me[t].left :
        Stack!Goto(t, [me[t] EXCEPT !.left = @ \ {m}, !.announced = @ \cup {announcement[m]}],
                   IF me[t].left = {m} THEN "cleanup" ELSE "scan")
    BY <1>8, Zenon DEF Stack!ScanSlot
  <2> DEFINE l == [me[t] EXCEPT !.left = @ \ {m}, !.announced = @ \cup {announcement[m]}]
             w == IF me[t].left = {m} THEN "cleanup" ELSE "scan"
  <2>0. /\ l \in Local /\ w \in Marks /\ l.left = me[t].left \ {m}
        /\ l.announced = me[t].announced \cup {announcement[m]}
    <3>1. me[t] \in Local /\ announcement[m] \in Refs
      BY <1>1 DEF StackTypes, Local
    <3>2. w \in Marks
      BY DEF Marks
    <3> QED BY <3>1, <3>2, Zenon DEF Local
  <2>2. /\ me[t].pc = "scan" /\ UNCHANGED <<head, node, announcement, retired, pushes, content>>
        /\ Stack!Goto(t, l, w)
    BY <1>8, <2>1, Zenon DEF Stack!ScanSlot
  <2> HIDE DEF l
  <2>3. /\ StackTypes' /\ me'[t].pc = (IF me[t].left = {m} THEN "cleanup" ELSE "scan")
        /\ me'[t].left = me[t].left \ {m} /\ me'[t].announced = me[t].announced \cup {announcement[m]}
    BY <1>1, <2>0, <2>2, Others DEF StackTypes
  <2>4. \A u \in Pair : u # t => me'[u] = me[u] /\ announcement'[u] = announcement[u]
    BY <1>1, <2>0, <2>2, Others DEF StackTypes
  <2>5. Placed(t)' /\ Fresh(t)' = Fresh(t) /\ Taken(t)' = Taken(t) /\ \A a : ~ Looks(t, a)'
    BY <2>2, <2>3 DEF Placed, Pushing, Popping, Fresh, Taken, Looks
  <2>6. ASSUME NEW u \in Pair, NEW a \in Addresses, Looks(u, a), Spared(R, u, a, t)
        PROVE  Spared(R, u, a, t)'
    <3>1. announcement[u] = a
      BY <1>1, <2>6 DEF Looks, Placed
    <3>2. a \notin Fresh(t)'
      BY <2>5, <2>6 DEF Spared
    <3>3. a \in R[t] => u \in me[t].left \/ a \in me[t].announced
      BY <2>2, <2>6 DEF Spared
    <3> QED BY <2>3, <3>1, <3>2, <3>3 DEF Spared
  <2> QED BY <2>2, <2>3, <2>4, <2>5, <2>6
<1>9. CASE Stack!Release(t)
  <2>1. /\ me[t].pc = "release" /\ UNCHANGED <<head, node, retired, pushes, content>>
        /\ announcement' = [announcement EXCEPT ![t] = Null]
        /\ me' = [me EXCEPT ![t] = Stack!Idle]
    BY <1>9 DEF Stack!Release
  <2>2. StackTypes' /\ me'[t].pc = "idle"
    BY <1>1, <2>1 DEF StackTypes, Local, Marks, Stack!Idle, Refs
  <2>3. \A u \in Pair : u # t => me'[u] = me[u] /\ announcement'[u] = announcement[u]
    BY <1>1, <2>1 DEF StackTypes
  <2>4. Placed(t)' /\ Fresh(t)' = Fresh(t) /\ Taken(t)' = Taken(t) /\ \A a : ~ Looks(t, a)'
    BY <2>1, <2>2 DEF Placed, Pushing, Popping, Fresh, Taken, Looks
  <2> QED BY <1>a, <2>1, <2>2, <2>3, <2>4
<1> QED BY <1>3, <1>4, <1>5, <1>6, <1>7, <1>8, <1>9

(* A new node is at an address that nothing names.                         *)
LEMMA StackPushStep == ASSUME StackInv, NEW t \in Pair, Stack!Push(t) PROVE StackInv'
<1>1. StackTypes /\ \A u \in Pair : Placed(u)
  BY DEF StackInv
<1>2. PICK f, R : StackBody(f, R)
  BY DEF StackInv
<1>3. PICK b \in Addresses :
        /\ ~ node[b].live
        /\ node' = [node EXCEPT ![b] = [live |-> TRUE, t |-> pushes + 1, next |-> Null, length |-> 1]]
        /\ Stack!Goto(t, [Stack!Idle EXCEPT !.op = "push", !.p = b], "load")
  BY Zenon DEF Stack!Push
<1> DEFINE l == [Stack!Idle EXCEPT !.op = "push", !.p = b]
<1>4. /\ me[t].pc = "idle" /\ pushes' = pushes + 1
      /\ UNCHANGED <<head, announcement, retired, content>>
  BY DEF Stack!Push
<1>5. l \in Local /\ "load" \in Marks /\ l.op = "push" /\ l.p = b
  BY Zenon DEF Stack!Idle, Local, Refs, Marks
<1> HIDE DEF l
<1>6. /\ me' \in [Pair -> Local] /\ me'[t].pc = "load" /\ me'[t].op = "push" /\ me'[t].p = b
      /\ \A u \in Pair : u # t => me'[u] = me[u]
  BY <1>1, <1>3, <1>5, Others, Zenon DEF l
<1>7. /\ node' \in [Addresses -> Node] /\ node'[b].live
      /\ \A a \in Addresses : a # b => node'[a] = node[a]
  BY <1>1, <1>3 DEF StackTypes, Node, Refs
<1>8. StackTypes'
  BY <1>1, <1>4, <1>6, <1>7 DEF StackTypes
<1>9. Placed(t)' /\ Fresh(t)' = {b} /\ Taken(t)' = {} /\ Mine(t)' = {b} /\ \A a : ~ Looks(t, a)'
  BY <1>6, NodesOK DEF Placed, Pushing, Popping, Fresh, Taken, Mine, Looks
<1>10. \A u \in Pair : Placed(u)'
  BY <1>1, <1>4, <1>6, <1>9, Same
<1>11. /\ \A i \in 1 .. Len(content) : f[i] \in Addresses /\ f[i] # b
       /\ \A u \in Pair : b \notin Mine(u) \cup R[u]
       /\ \A u \in Pair : ~ Looks(u, b)
       /\ \A u \in Pair : Mine(u) \subseteq Addresses /\ R[u] \subseteq Addresses
  <2>1. \A u \in Pair : Mine(u) \subseteq Addresses
    BY <1>1 DEF StackTypes, Local, Placed, Refs, Mine, Fresh, Taken, Pushing, Popping
  <2> QED BY <1>2, <1>3, <2>1 DEF StackBody, Holds, Kept, Guarded
<1>12. \A u \in Pair : u # t => /\ Fresh(u)' = Fresh(u) /\ Taken(u)' = Taken(u) /\ Mine(u)' = Mine(u)
                                /\ \A a : Looks(u, a)' = Looks(u, a)
  BY <1>6, Same
<1>13. Holds(f)'
  <2>1. Holds(f)
    BY <1>2 DEF StackBody
  <2>2. \A i \in 1 .. Len(content) : node'[f[i]] = node[f[i]]
    BY <1>7, <1>11
  <2> QED BY <1>4, <2>1, <2>2 DEF Holds, At
<1>14. Prepared(f)'
  <2> SUFFICES ASSUME NEW u \in Pair, me'[u].pc = "cas"
               PROVE  /\ me'[u].op = "push" =>
                           /\ node'[me'[u].p].next = me'[u].h
                           /\ node'[me'[u].p].length
                                = IF me'[u].h = Null THEN 1 ELSE node'[me'[u].h].length + 1
                      /\ me'[u].op = "pop" =>
                           \A i \in 1 .. Len(content) : f[i] = me'[u].h => me'[u].next = node'[me'[u].h].next
    BY <1>4 DEF Prepared
  <2>1. u # t /\ me'[u] = me[u]
    BY <1>6
  <2>2. me[u].op = "push" => me[u].p \in Addresses /\ me[u].p # b
    BY <1>1, <1>11, <2>1 DEF Mine, Fresh, Pushing
  <2>3. me[u].h # Null => me[u].h \in Addresses /\ me[u].h # b
    <3>1. Looks(u, me[u].h)
      BY <2>1 DEF Looks
    <3> QED BY <1>1, <1>11, <3>1 DEF StackTypes, Local, Refs
  <2> QED BY <1>2, <1>7, <1>11, <2>1, <2>2, <2>3 DEF StackBody, Prepared
<1>15. Apart(f, R)'
  BY <1>2, <1>4, <1>9, <1>11, <1>12 DEF StackBody, Apart
<1>16. Kept(R)'
  BY <1>2, <1>4, <1>7, <1>9, <1>11, <1>12, Zenon DEF StackBody, Kept
<1>17. Guarded(R)'
  <2> SUFFICES ASSUME NEW u \in Pair, NEW a \in Addresses, Looks(u, a)'
               PROVE  node'[a].live /\ \A m \in Pair : Spared(R, u, a, m)'
    BY DEF Guarded
  <2>1. u # t /\ Looks(u, a) /\ a # b
    BY <1>9, <1>11, <1>12
  <2>2. node[a].live /\ \A m \in Pair : Spared(R, u, a, m)
    BY <1>2, <2>1 DEF StackBody, Guarded
  <2> QED BY <1>6, <1>7, <1>9, <1>12, <2>1, <2>2 DEF Spared
<1> QED BY <1>2, <1>4, <1>8, <1>10, <1>13, <1>14, <1>15, <1>16, <1>17 DEF StackInv, StackBody

(* The new node of a push is changed by its thread alone.                  *)
LEMMA StackLinkStep ==
  ASSUME StackInv, NEW t \in Pair,
         Stack!Link(t) \/ (Stack!PushCas(t) /\ head # me[t].h)
  PROVE  StackInv'
<1>1. StackTypes /\ \A u \in Pair : Placed(u)
  BY DEF StackInv
<1>2. PICK f, R : StackBody(f, R)
  BY DEF StackInv
<1> DEFINE b == me[t].p
           heightOf == IF me[t].h = Null THEN 1 ELSE node[me[t].h].length + 1
<1>3. Pushing(t) /\ me[t].pc # "retire" /\ b \in Addresses /\ me[t] \in Local
  <2>1. Pushing(t) /\ me[t].pc # "retire"
    BY <1>1 DEF Stack!Link, Stack!PushCas, Placed, Pushing
  <2> QED BY <1>1, <2>1 DEF Placed, StackTypes, Local, Refs
<1>4. UNCHANGED <<head, announcement, retired, content, pushes>>
  BY DEF Stack!Link, Stack!PushCas
<1>5. PICK w \in {"cas", "load"} :
        /\ Stack!Goto(t, me[t], w)
        /\ node' \in [Addresses -> Node] /\ node'[b].live = node[b].live
        /\ \A a \in Addresses : a # b => node'[a] = node[a]
        /\ w = "cas" => /\ me[t].pc = "link" /\ node'[b].next = me[t].h
                        /\ node'[b].length = heightOf
  <2>1. CASE Stack!Link(t)
    <3>1. /\ Stack!Goto(t, me[t], "cas") /\ me[t].pc = "link"
          /\ node' = [node EXCEPT ![b].next = me[t].h, ![b].length = heightOf]
      BY <2>1 DEF Stack!Link
    <3>2. heightOf \in Int /\ me[t].h \in Refs
      BY <1>1 DEF StackTypes, Local, Refs, Node
    <3> HIDE DEF heightOf
    <3> DEFINE r == [node[b] EXCEPT !.next = me[t].h, !.length = heightOf]
    <3>3. node' = [node EXCEPT ![b] = r]
      BY <1>1, <1>3, <3>1, Zenon DEF StackTypes, Node
    <3>4. r \in Node /\ r.live = node[b].live /\ r.next = me[t].h /\ r.length = heightOf
      BY <1>1, <1>3, <3>2, Zenon DEF StackTypes, Node
    <3> HIDE DEF r
    <3> QED BY <1>1, <1>3, <3>1, <3>3, <3>4 DEF StackTypes
  <2>2. CASE Stack!PushCas(t) /\ head # me[t].h
    <3>1. Stack!Goto(t, me[t], "load") /\ node' = [node EXCEPT ![b].next = head]
      BY <2>2 DEF Stack!PushCas
    <3> QED BY <1>1, <1>3, <3>1, Zenon DEF StackTypes, Node
  <2> QED BY <2>1, <2>2
<1>6. /\ me' \in [Pair -> Local] /\ me'[t].pc = w /\ me'[t].op = me[t].op /\ me'[t].p = b
      /\ me'[t].h = me[t].h /\ \A u \in Pair : u # t => me'[u] = me[u]
  <2>1. w \in Marks
    BY DEF Marks
  <2> QED BY <1>1, <1>3, <1>5, <2>1, Others
<1>7. StackTypes'
  BY <1>1, <1>4, <1>5, <1>6 DEF StackTypes
<1>8. /\ Placed(t)' /\ Fresh(t)' = Fresh(t) /\ Taken(t)' = Taken(t) /\ Mine(t)' = Mine(t)
      /\ \A a : Looks(t, a)' => Looks(t, a)
  BY <1>1, <1>3, <1>4, <1>5, <1>6 DEF Placed, Pushing, Popping, Fresh, Taken, Mine, Looks
<1>9. \A u \in Pair : Placed(u)'
  BY <1>1, <1>4, <1>6, <1>8, Same
<1>10. \A u \in Pair : /\ Fresh(u)' = Fresh(u) /\ Taken(u)' = Taken(u) /\ Mine(u)' = Mine(u)
                       /\ \A a : Looks(u, a)' => Looks(u, a)
  BY <1>6, <1>8, Same
<1>11. /\ \A i \in 1 .. Len(content) : f[i] \in Addresses /\ f[i] # b
       /\ \A u \in Pair : b \notin R[u] /\ (u # t => b \notin Mine(u))
       /\ \A u \in Pair : ~ Looks(u, b)
       /\ \A u \in Pair : Mine(u) \subseteq Addresses /\ R[u] \subseteq Addresses
  <2>1. \A u \in Pair : Mine(u) \subseteq Addresses
    BY <1>1 DEF StackTypes, Local, Placed, Refs, Mine, Fresh, Taken, Pushing, Popping
  <2>2. b \in Fresh(t) /\ b \in Mine(t)
    BY <1>3 DEF Fresh, Mine
  <2>3. \A u \in Pair : ~ Looks(u, b)
    BY <1>2, <1>3, <2>2 DEF StackBody, Guarded, Spared
  <2> QED BY <1>2, <2>1, <2>2, <2>3 DEF StackBody, Apart
<1> HIDE DEF b
<1>12. Holds(f)'
  BY <1>2, <1>4, <1>5, <1>11 DEF StackBody, Holds, At
<1>13. Prepared(f)'
  <2> SUFFICES ASSUME NEW u \in Pair, me'[u].pc = "cas"
               PROVE  /\ me'[u].op = "push" =>
                           /\ node'[me'[u].p].next = me'[u].h
                           /\ node'[me'[u].p].length
                                = IF me'[u].h = Null THEN 1 ELSE node'[me'[u].h].length + 1
                      /\ me'[u].op = "pop" =>
                           \A i \in 1 .. Len(content) : f[i] = me'[u].h => me'[u].next = node'[me'[u].h].next
    BY <1>4 DEF Prepared
  <2>1. me'[u].h # Null => me'[u].h \in Addresses /\ me'[u].h # b
    <3>1. PICK a : a = me'[u].h
      OBVIOUS
    <3>2. Looks(u, a)'
      BY <3>1 DEF Looks
    <3>3. a # b
      BY <1>10, <1>11, <3>2
    <3> QED BY <1>7, <3>1, <3>3 DEF StackTypes, Local, Refs
  <2>2. CASE u = t
    <3>1. w = "cas" /\ me'[u].op = "push"
      BY <1>3, <1>6, <2>2 DEF Pushing
    <3> QED BY <1>5, <1>6, <2>1, <2>2, <3>1
  <2>3. CASE u # t
    <3>1. me'[u] = me[u]
      BY <1>6, <2>3
    <3>2. me[u].op = "push" => me[u].p \in Addresses /\ me[u].p # b
      BY <1>1, <1>11, <2>3, <3>1 DEF Mine, Fresh, Pushing
    <3> QED BY <1>2, <1>5, <1>11, <2>1, <3>1, <3>2 DEF StackBody, Prepared
  <2> QED BY <2>2, <2>3
<1>14. Apart(f, R)'
  BY <1>2, <1>4, <1>10 DEF StackBody, Apart
<1>15. Kept(R)'
  <2>1. \A a \in Addresses : node'[a].live = node[a].live
    BY <1>5
  <2> QED BY <1>2, <1>4, <1>5, <1>10, <1>11, <2>1 DEF StackBody, Kept
<1>16. Guarded(R)'
  <2> SUFFICES ASSUME NEW u \in Pair, NEW a \in Addresses, Looks(u, a)'
               PROVE  node'[a].live /\ \A m \in Pair : Spared(R, u, a, m)'
    BY DEF Guarded
  <2>1. Looks(u, a) /\ a # b
    BY <1>10, <1>11
  <2>2. node[a].live /\ \A m \in Pair : Spared(R, u, a, m)
    BY <1>2, <2>1 DEF StackBody, Guarded
  <2>3. me'[t].pc \notin {"scan", "cleanup"}
    BY <1>6
  <2> QED BY <1>5, <1>6, <1>10, <2>1, <2>2, <2>3 DEF Spared
<1> QED BY <1>2, <1>4, <1>7, <1>9, <1>12, <1>13, <1>14, <1>15, <1>16 DEF StackInv, StackBody

LEMMA Prepend ==
  ASSUME NEW s \in Seq(Int), NEW x \in Int
  PROVE  /\ <<x>> \o s \in Seq(Int) /\ Len(<<x>> \o s) = Len(s) + 1
         /\ (<<x>> \o s)[1] = x
         /\ \A i \in 1 .. Len(s) : (<<x>> \o s)[i + 1] = s[i]
OBVIOUS

(* A node once put on the stack is the new head.                           *)
LEMMA StackPutStep ==
  ASSUME StackInv, NEW t \in Pair, Stack!PushCas(t), head = me[t].h
  PROVE  StackInv'
<1>1. StackTypes /\ \A u \in Pair : Placed(u)
  BY DEF StackInv
<1>2. PICK f, R : StackBody(f, R)
  BY DEF StackInv
<1> DEFINE b == me[t].p
           k == Len(content)
<1>3. /\ me[t].pc = "cas" /\ me[t].op = "push"
      /\ UNCHANGED <<node, announcement, retired, pushes>>
      /\ Stack!Goto(t, me[t], "release") /\ head' = b /\ content' = <<node[b].t>> \o content
  BY DEF Stack!PushCas
<1>4. /\ me[t] \in Local /\ "release" \in Marks /\ b \in Addresses /\ b \in Fresh(t)
      /\ Mine(t) = {b} /\ k \in Nat /\ node[b].t \in Int
  BY <1>1, <1>3 DEF Placed, Pushing, StackTypes, Local, Refs, Marks, Fresh, Mine, Taken, Node
<1>5. me' \in [Pair -> Local] /\ me'[t].pc = "release" /\ \A u \in Pair : u # t => me'[u] = me[u]
  BY <1>1, <1>3, <1>4, Others
<1>6. /\ content' \in Seq(Int) /\ Len(content') = k + 1 /\ content'[1] = node[b].t
      /\ \A i \in 1 .. k : content'[i + 1] = content[i]
  BY <1>1, <1>3, <1>4, Prepend DEF StackTypes
<1>7. StackTypes'
  BY <1>1, <1>3, <1>4, <1>5, <1>6 DEF StackTypes, Refs
<1>8. Placed(t)' /\ Mine(t)' = {} /\ Fresh(t)' = {} /\ \A a : ~ Looks(t, a)'
  BY <1>5 DEF Placed, Pushing, Popping, Mine, Fresh, Taken, Looks
<1>9. \A u \in Pair : Placed(u)'
  BY <1>1, <1>3, <1>5, <1>8, Same
<1>10. \A u \in Pair : u # t => /\ Fresh(u)' = Fresh(u) /\ Mine(u)' = Mine(u)
                                /\ \A a : Looks(u, a)' = Looks(u, a)
  BY <1>5, Same
<1>11. PICK g : g = [i \in 1 .. k + 1 |-> IF i = k + 1 THEN b ELSE f[i]]
  BY Zenon
<1>12. /\ node[b].live /\ node[b].next = head /\ node[b].length = k + 1 /\ At(g, k) = head
       /\ \A u \in Pair : ~ Looks(u, b)
  <2>1. node[b].live
    BY <1>2, <1>4 DEF StackBody, Kept
  <2>2. head = At(f, k) /\ (k # 0 => f[k] \in Addresses /\ node[f[k]].length = k)
    BY <1>2, <1>4 DEF StackBody, Holds
  <2>3. k # 0 => head # Null
    BY <2>2, NodesOK DEF At
  <2>4. node[b].next = head /\ node[b].length = IF head = Null THEN 1 ELSE node[head].length + 1
    BY <1>2, <1>3 DEF StackBody, Prepared
  <2>5. \A u \in Pair : ~ Looks(u, b)
    BY <1>2, <1>4 DEF StackBody, Guarded, Spared
  <2>6. node[b].length = k + 1
    BY <1>4, <2>2, <2>3, <2>4 DEF At
  <2>7. At(g, k) = At(f, k)
    BY <1>4, <1>11 DEF At
  <2> QED BY <2>1, <2>2, <2>4, <2>5, <2>6, <2>7
<1>13. /\ g \in [1 .. k + 1 -> Addresses] /\ g[k + 1] = b
       /\ \A i \in 1 .. k : g[i] = f[i] /\ f[i] \in Addresses
  BY <1>2, <1>4, <1>11 DEF StackBody
<1> HIDE DEF b
<1>14. Holds(g)'
  <2>1. head' = At(g, k + 1)
    BY <1>3, <1>4, <1>13 DEF At
  <2>2. ASSUME NEW i \in 1 .. k + 1
        PROVE  /\ node[g[i]].live /\ node[g[i]].t = content'[k + 1 - i + 1]
               /\ node[g[i]].next = At(g, i - 1) /\ node[g[i]].length = i
    <3>1. CASE i = k + 1
      BY <1>4, <1>6, <1>12, <1>13, <3>1
    <3>2. CASE i # k + 1
      <4>1. i \in 1 .. k /\ k - i + 1 \in 1 .. k /\ k + 1 - i + 1 = (k - i + 1) + 1
        BY <1>4, <3>2
      <4>2. At(g, i - 1) = At(f, i - 1)
        BY <1>4, <1>13, <4>1 DEF At
      <4>3. node[f[i]].live /\ node[f[i]].t = content[k - i + 1] /\ node[f[i]].next = At(f, i - 1)
            /\ node[f[i]].length = i
        BY <1>2, <4>1 DEF StackBody, Holds
      <4> QED BY <1>6, <1>13, <4>1, <4>2, <4>3, Zenon
    <3> QED BY <3>1, <3>2
  <2>3. head' = At(g, Len(content'))
    BY <1>6, <2>1
  <2>4. ASSUME NEW i \in 1 .. Len(content')
        PROVE  /\ node'[g[i]].live /\ node'[g[i]].t = content'[Len(content') - i + 1]
               /\ node'[g[i]].next = At(g, i - 1) /\ node'[g[i]].length = i
    BY <1>3, <1>6, <2>2
  <2> QED BY <2>3, <2>4 DEF Holds
<1>15. Prepared(g)'
  <2>1. ASSUME NEW u \in Pair, me'[u].pc = "cas"
        PROVE  /\ me[u].pc = "cas" /\ me'[u] = me[u]
               /\ \A i \in 1 .. k + 1 : g[i] = me[u].h => i \in 1 .. k /\ f[i] = me[u].h
    <3>1. u # t
      BY <1>5, <2>1
    <3>2. me'[u] = me[u]
      BY <1>5, <3>1
    <3>3. me[u].h # b
      BY <1>12, <2>1, <3>2 DEF Looks
    <3> QED BY <1>4, <1>13, <2>1, <3>2, <3>3
  <2>2. ASSUME NEW u \in Pair, me'[u].pc = "cas"
        PROVE  /\ me'[u].op = "push" =>
                    /\ node'[me'[u].p].next = me'[u].h
                    /\ node'[me'[u].p].length
                         = IF me'[u].h = Null THEN 1 ELSE node'[me'[u].h].length + 1
               /\ me'[u].op = "pop" =>
                    \A i \in 1 .. Len(content') : g[i] = me'[u].h => me'[u].next = node'[me'[u].h].next
    <3> USE <2>1, <2>2
    <3>1. me[u].op = "push" =>
            /\ node[me[u].p].next = me[u].h
            /\ node[me[u].p].length = IF me[u].h = Null THEN 1 ELSE node[me[u].h].length + 1
      BY <1>2 DEF StackBody, Prepared
    <3>2. me[u].op = "pop" => \A i \in 1 .. k : f[i] = me[u].h => me[u].next = node[me[u].h].next
      BY <1>2 DEF StackBody, Prepared
    <3>3. Len(content') = k + 1
      BY <1>6
    <3> QED BY <1>3, <3>1, <3>2, <3>3
  <2> QED BY <2>2 DEF Prepared
<1>16. Apart(g, R)'
  <2>1. \A u \in Pair : b \notin R[u] /\ (u # t => b \notin Mine(u))
    BY <1>2, <1>4 DEF StackBody, Apart
  <2>2. ASSUME NEW i \in 1 .. k + 1, NEW u \in Pair PROVE g[i] \notin Mine(u)' \cup R[u]
    <3>1. i \in 1 .. k \/ i = k + 1
      BY <1>4
    <3>2. i \in 1 .. k => g[i] \notin Mine(u) \cup R[u]
      BY <1>2, <1>13 DEF StackBody, Apart
    <3> QED BY <1>8, <1>10, <1>13, <2>1, <3>1, <3>2
  <2>3. \A u \in Pair : Mine(u)' \subseteq Mine(u)
    BY <1>8, <1>10
  <2> QED BY <1>2, <1>6, <2>2, <2>3 DEF StackBody, Apart
<1>17. Kept(R)'
  BY <1>2, <1>3, <1>8, <1>10 DEF StackBody, Kept
<1>18. Guarded(R)'
  <2> SUFFICES ASSUME NEW u \in Pair, NEW a \in Addresses, Looks(u, a)'
               PROVE  node[a].live /\ \A m \in Pair : Spared(R, u, a, m)'
    BY <1>3 DEF Guarded
  <2>1. Looks(u, a)
    BY <1>8, <1>10
  <2>2. node[a].live /\ \A m \in Pair : Spared(R, u, a, m)
    BY <1>2, <2>1 DEF StackBody, Guarded
  <2> QED BY <1>5, <1>8, <1>10, <2>2 DEF Spared
<1>19. StackBody(g, R)'
  BY <1>2, <1>6, <1>13, <1>14, <1>15, <1>16, <1>17, <1>18 DEF StackBody
<1> QED BY <1>7, <1>9, <1>19 DEF StackInv

(* A node taken off is its thread's own.                                   *)
LEMMA StackTakeStep == ASSUME StackInv, NEW t \in Pair, Stack!PopCas(t) PROVE StackInv'
<1>1. StackTypes /\ \A u \in Pair : Placed(u)
  BY DEF StackInv
<1>2. PICK f, R : StackBody(f, R)
  BY DEF StackInv
<1> DEFINE b == me[t].h
           k == Len(content)
<1>3. /\ me[t].pc = "cas" /\ me[t].op = "pop"
      /\ UNCHANGED <<node, announcement, retired, pushes>>
  BY DEF Stack!PopCas
<1>4. /\ me[t] \in Local /\ {"load", "retire"} \subseteq Marks /\ b \in Addresses
      /\ Mine(t) = {} /\ Fresh(t) = {} /\ k \in Nat
  <2>1. b # Null
    BY <1>1, <1>3 DEF Placed, Popping
  <2> QED BY <1>1, <1>3, <2>1 DEF StackTypes, Local, Refs, Marks, Fresh, Mine, Taken, Pushing
<1>5. CASE head # b
  <2>1. Stack!Goto(t, me[t], "load") /\ UNCHANGED <<head, content>>
    BY <1>5 DEF Stack!PopCas
  <2>2. /\ me' \in [Pair -> Local] /\ me'[t].pc = "load" /\ me'[t].op = "pop"
        /\ \A u \in Pair : u # t => me'[u] = me[u]
    BY <1>1, <1>3, <1>4, <2>1, Others
  <2>3. StackTypes'
    BY <1>1, <1>3, <2>1, <2>2 DEF StackTypes
  <2>4. Placed(t)' /\ Fresh(t)' = Fresh(t) /\ Taken(t)' = Taken(t) /\ \A a : ~ Looks(t, a)'
    BY <1>3, <1>4, <2>2 DEF Placed, Pushing, Popping, Fresh, Taken, Looks
  <2>5. \A u \in Pair : Placed(u)'
    BY <1>1, <1>3, <2>2, <2>4, Same
  <2>6. \A a \in Addresses, u \in Pair : Looks(u, a) /\ Spared(R, u, a, t) => Spared(R, u, a, t)'
    BY <2>2, <2>4 DEF Spared
  <2>7. StackBody(f, R)'
    BY <1>1, <1>2, <1>3, <2>1, <2>2, <2>4, <2>6, QuietStep
  <2> QED BY <2>3, <2>5, <2>7 DEF StackInv
<1>6. CASE head = b
  <2>1. /\ Stack!Goto(t, me[t], "retire") /\ head' = me[t].next
        /\ content' = IF content = << >> THEN << >> ELSE Tail(content)
    BY <1>6 DEF Stack!PopCas
  <2>2. /\ me' \in [Pair -> Local] /\ me'[t].pc = "retire" /\ me'[t].op = "pop" /\ me'[t].h = b
        /\ \A u \in Pair : u # t => me'[u] = me[u]
    BY <1>1, <1>3, <1>4, <2>1, Others
  <2>3. k \in 1 .. k /\ f[k] = b /\ f \in [1 .. k -> Addresses]
    <3>1. head = At(f, k) /\ f \in [1 .. k -> Addresses]
      BY <1>2 DEF StackBody, Holds
    <3>2. k # 0
      BY <1>4, <1>6, <3>1, NodesOK DEF At
    <3> QED BY <1>4, <1>6, <3>1, <3>2 DEF At
  <2>4. /\ content' \in Seq(Int) /\ Len(content') = k - 1
        /\ \A i \in 1 .. k - 1 : content'[i] = content[i + 1]
    <3>1. content # << >> /\ content \in Seq(Int)
      BY <1>1, <2>3 DEF StackTypes
    <3> QED BY <2>1, <3>1
  <2>5. StackTypes'
    BY <1>1, <1>3, <1>4, <2>1, <2>2, <2>4, Zenon DEF StackTypes, Local
  <2>6. Placed(t)' /\ Fresh(t)' = {} /\ Mine(t)' = {b} /\ \A a : ~ Looks(t, a)'
    BY <1>4, <2>2, NodesOK DEF Placed, Pushing, Popping, Fresh, Taken, Mine, Looks
  <2>7. \A u \in Pair : Placed(u)'
    BY <1>1, <1>3, <2>2, <2>6, Same
  <2>8. \A u \in Pair : u # t => /\ Fresh(u)' = Fresh(u) /\ Mine(u)' = Mine(u)
                                 /\ \A a : Looks(u, a)' = Looks(u, a)
    BY <2>2, Same
  <2>9. PICK g : g = [i \in 1 .. k - 1 |-> f[i]]
    BY Zenon
  <2>10. g \in [1 .. k - 1 -> Addresses] /\ \A i \in 1 .. k - 1 : i \in 1 .. k /\ g[i] = f[i]
    BY <1>4, <2>3, <2>9
  <2> HIDE DEF b
  <2>11. Holds(g)'
    <3>1. head' = At(f, k - 1)
      BY <1>2, <1>3, <1>4, <1>6, <2>1, <2>3 DEF StackBody, Prepared, Holds, b
    <3>2. head' = At(g, k - 1)
      <4>1. k - 1 # 0 => k - 1 \in 1 .. k - 1
        <5> HIDE DEF k
        <5>1. k \in Nat
          BY <1>4
        <5>2. k >= 1
          BY <2>3, <5>1
        <5> QED BY <5>1, <5>2
      <4> QED BY <2>10, <3>1, <4>1 DEF At
    <3>3. ASSUME NEW i \in 1 .. k - 1
          PROVE  /\ node[g[i]].live /\ node[g[i]].t = content'[k - 1 - i + 1]
                 /\ node[g[i]].next = At(g, i - 1) /\ node[g[i]].length = i
      <4>1. k - 1 - i + 1 \in 1 .. k - 1 /\ (k - 1 - i + 1) + 1 = k - i + 1
        BY <1>4
      <4>2. At(g, i - 1) = At(f, i - 1)
        BY <1>4, <2>10 DEF At
      <4>3. node[f[i]].live /\ node[f[i]].t = content[k - i + 1] /\ node[f[i]].next = At(f, i - 1)
            /\ node[f[i]].length = i
        BY <1>2, <2>10 DEF StackBody, Holds
      <4> QED BY <2>4, <2>10, <4>1, <4>2, <4>3, Zenon
    <3> QED BY <1>3, <2>4, <3>2, <3>3 DEF Holds
  <2>12. Prepared(g)'
    <3>1. ASSUME NEW u \in Pair, me'[u].pc = "cas"
          PROVE  /\ me[u].pc = "cas" /\ me'[u] = me[u]
                 /\ \A i \in 1 .. k - 1 : g[i] = me[u].h => i \in 1 .. k /\ f[i] = me[u].h
      <4>1. me'[u] = me[u]
        BY <2>2, <3>1
      <4> QED BY <2>10, <3>1, <4>1
    <3>2. ASSUME NEW u \in Pair, me'[u].pc = "cas"
          PROVE  /\ me'[u].op = "push" =>
                      /\ node'[me'[u].p].next = me'[u].h
                      /\ node'[me'[u].p].length
                           = IF me'[u].h = Null THEN 1 ELSE node'[me'[u].h].length + 1
                 /\ me'[u].op = "pop" =>
                      \A i \in 1 .. Len(content') : g[i] = me'[u].h => me'[u].next = node'[me'[u].h].next
      <4> USE <3>1, <3>2
      <4>1. me[u].op = "push" =>
              /\ node[me[u].p].next = me[u].h
              /\ node[me[u].p].length = IF me[u].h = Null THEN 1 ELSE node[me[u].h].length + 1
        BY <1>2 DEF StackBody, Prepared
      <4>2. me[u].op = "pop" => \A i \in 1 .. k : f[i] = me[u].h => me[u].next = node[me[u].h].next
        BY <1>2 DEF StackBody, Prepared
      <4>3. Len(content') = k - 1
        BY <2>4
      <4> QED BY <1>3, <4>1, <4>2, <4>3
    <3> QED BY <3>2 DEF Prepared
  <2>13. Apart(g, R)'
    <3>1. \A u \in Pair : b \notin R[u] /\ b \notin Mine(u)
      BY <1>2, <2>3 DEF StackBody, Apart
    <3>2. \A i \in 1 .. k - 1 : g[i] # b
      <4>1. \A i \in 1 .. k : node[f[i]].length = i
        BY <1>2 DEF StackBody, Holds
      <4> QED BY <1>4, <2>3, <2>10, <4>1
    <3>3. \A u \in Pair, i \in 1 .. k - 1 : g[i] \notin Mine(u) \cup R[u]
      BY <1>2, <2>10 DEF StackBody, Apart
    <3>4. \A i \in 1 .. Len(content'), u \in Pair : g[i] \notin Mine(u)' \cup R[u]
      BY <2>4, <2>6, <2>8, <3>2, <3>3, Zenon
    <3>5. \A u, m \in Pair :
            /\ Mine(u)' \cap R[m] = {}
            /\ u # m => R[u] \cap R[m] = {} /\ Mine(u)' \cap Mine(m)' = {}
      BY <1>2, <2>6, <2>8, <3>1 DEF StackBody, Apart
    <3> QED BY <3>4, <3>5 DEF Apart
  <2>14. Kept(R)'
    <3>1. node[b].live
      BY <1>2, <2>3 DEF StackBody, Holds
    <3> QED BY <1>2, <1>3, <2>6, <2>8, <3>1 DEF StackBody, Kept
  <2>15. Guarded(R)'
    <3> SUFFICES ASSUME NEW u \in Pair, NEW a \in Addresses, Looks(u, a)'
                 PROVE  node[a].live /\ \A m \in Pair : Spared(R, u, a, m)'
      BY <1>3 DEF Guarded
    <3>1. Looks(u, a)
      BY <2>6, <2>8
    <3>2. node[a].live /\ \A m \in Pair : Spared(R, u, a, m)
      BY <1>2, <3>1 DEF StackBody, Guarded
    <3> QED BY <2>2, <2>6, <2>8, <3>2 DEF Spared
  <2>16. StackBody(g, R)'
    BY <1>2, <2>4, <2>10, <2>11, <2>12, <2>13, <2>14, <2>15 DEF StackBody
  <2> QED BY <2>5, <2>7, <2>16 DEF StackInv
<1> QED BY <1>5, <1>6

(* A retired node joins the list of its thread; a scan that begins now has *)
(* every announcement before it.                                           *)
LEMMA StackRetireStep == ASSUME StackInv, NEW t \in Pair, Stack!Retire(t) PROVE StackInv'
<1>1. StackTypes /\ \A u \in Pair : Placed(u)
  BY DEF StackInv
<1>2. PICK f, R : StackBody(f, R)
  BY DEF StackInv
<1> DEFINE b == me[t].h
<1>3. /\ me[t].pc = "retire" /\ me[t].op = "pop" /\ UNCHANGED <<head, announcement, pushes, content>>
      /\ node' = [node EXCEPT ![b].next = retired[t]]
      /\ retired' = [retired EXCEPT ![t] = b]
  BY <1>1 DEF Stack!Retire, Placed
<1>4. me[t] \in Local /\ b \in Addresses /\ Mine(t) = {b} /\ Fresh(t) = {} /\ R \in [Pair -> SUBSET Addresses]
  <2>1. b # Null
    BY <1>1, <1>3 DEF Placed, Popping
  <2> QED BY <1>1, <1>2, <1>3, <2>1 DEF StackTypes, Local, Refs, Fresh, Mine, Taken, Pushing, StackBody
<1>5. /\ me' \in [Pair -> Local] /\ me'[t].op = "pop"
      /\ me'[t].pc = "release" \/ (me'[t].pc = "scan" /\ me'[t].left = Pair)
      /\ \A u \in Pair : u # t => me'[u] = me[u]
  <2>1. CASE Stack!Goto(t, [me[t] EXCEPT !.left = Pair], "scan")
    <3> DEFINE l == [me[t] EXCEPT !.left = Pair]
    <3>1. l \in Local /\ l.left = Pair /\ l.op = "pop" /\ "scan" \in Marks
      BY <1>3, <1>4 DEF Local, Marks
    <3> HIDE DEF l
    <3>2. Stack!Goto(t, l, "scan")
      BY <2>1 DEF l
    <3> QED BY <1>1, <3>1, <3>2, Others
  <2>2. CASE Stack!Goto(t, me[t], "release")
    <3>1. "release" \in Marks
      BY DEF Marks
    <3> QED BY <1>1, <1>3, <1>4, <2>2, <3>1, Others
  <2> QED BY <2>1, <2>2 DEF Stack!Retire
<1>6. /\ node' \in [Addresses -> Node] /\ node'[b].next = retired[t]
      /\ \A a \in Addresses : /\ node'[a].live = node[a].live /\ node'[a].t = node[a].t
                              /\ node'[a].length = node[a].length
                              /\ a # b => node'[a] = node[a]
  BY <1>1, <1>3, <1>4, Zenon DEF StackTypes, Node
<1>7. /\ retired' \in [Pair -> Refs] /\ retired'[t] = b
      /\ \A u \in Pair : u # t => retired'[u] = retired[u]
  BY <1>1, <1>3, <1>4 DEF StackTypes, Refs
<1>8. StackTypes'
  BY <1>1, <1>3, <1>5, <1>6, <1>7 DEF StackTypes
<1>9. Placed(t)' /\ Fresh(t)' = {} /\ Mine(t)' = {} /\ \A a : ~ Looks(t, a)'
  BY <1>5 DEF Placed, Pushing, Popping, Fresh, Taken, Mine, Looks
<1>10. \A u \in Pair : Placed(u)'
  BY <1>1, <1>3, <1>5, <1>9, Same
<1>11. \A u \in Pair : u # t => /\ Fresh(u)' = Fresh(u) /\ Mine(u)' = Mine(u)
                                /\ \A a : Looks(u, a)' = Looks(u, a)
  BY <1>5, Same
<1>12. PICK Q : Q = [R EXCEPT ![t] = R[t] \cup {b}]
  BY Zenon
<1>13. /\ Q \in [Pair -> SUBSET Addresses] /\ Q[t] = R[t] \cup {b}
       /\ \A u \in Pair : u # t => Q[u] = R[u]
  BY <1>4, <1>12
<1>14. /\ \A i \in 1 .. Len(content) : f[i] \in Addresses /\ f[i] # b
       /\ \A u \in Pair : b \notin R[u] /\ (u # t => b \notin Mine(u))
       /\ \A u \in Pair : Mine(u) \subseteq Addresses
  <2>1. \A u \in Pair : Mine(u) \subseteq Addresses
    BY <1>1 DEF StackTypes, Local, Placed, Refs, Mine, Fresh, Taken, Pushing, Popping
  <2> QED BY <1>2, <1>4, <2>1 DEF StackBody, Apart
<1> HIDE DEF b
<1>15. Holds(f)'
  BY <1>2, <1>3, <1>6, <1>14 DEF StackBody, Holds, At
<1>16. Prepared(f)'
  <2> SUFFICES ASSUME NEW u \in Pair, me'[u].pc = "cas"
               PROVE  /\ me'[u].op = "push" =>
                           /\ node'[me'[u].p].next = me'[u].h
                           /\ node'[me'[u].p].length
                                = IF me'[u].h = Null THEN 1 ELSE node'[me'[u].h].length + 1
                      /\ me'[u].op = "pop" =>
                           \A i \in 1 .. Len(content) : f[i] = me'[u].h => me'[u].next = node'[me'[u].h].next
    BY <1>3 DEF Prepared
  <2>1. u # t /\ me'[u] = me[u]
    BY <1>5
  <2>2. me[u].op = "push" => me[u].p \in Addresses /\ me[u].p # b
    BY <1>14, <2>1 DEF Mine, Fresh, Pushing
  <2>3. me[u].h # Null => me[u].h \in Addresses
    BY <1>1 DEF StackTypes, Local, Refs
  <2> QED BY <1>2, <1>6, <1>14, <2>1, <2>2, <2>3 DEF StackBody, Prepared
<1>17. Apart(f, Q)'
  <2>1. \A i \in 1 .. Len(content), u \in Pair : f[i] \notin Mine(u)' \cup Q[u]
    BY <1>2, <1>9, <1>11, <1>13, <1>14 DEF StackBody, Apart
  <2>2. \A u, m \in Pair : Mine(u)' \cap Q[m] = {}
    BY <1>2, <1>9, <1>11, <1>13, <1>14 DEF StackBody, Apart
  <2>3. \A u, m \in Pair : u # m => Q[u] \cap Q[m] = {} /\ Mine(u)' \cap Mine(m)' = {}
    BY <1>2, <1>9, <1>11, <1>13, <1>14 DEF StackBody, Apart
  <2> QED BY <1>3, <2>1, <2>2, <2>3 DEF Apart
<1>18. Kept(Q)'
  <2>1. \A u \in Pair : \A a \in Mine(u)' \cup Q[u] : node'[a].live
    <3>1. \A u \in Pair : \A a \in Mine(u) \cup R[u] : a \in Addresses /\ node[a].live
      BY <1>2, <1>4, <1>14 DEF StackBody, Kept
    <3> QED BY <1>4, <1>6, <1>9, <1>11, <1>13, <3>1
  <2>2. \A u \in Pair : retired'[u] \in Q[u] \cup {Null}
    BY <1>2, <1>7, <1>13 DEF StackBody, Kept
  <2>3. \A u \in Pair : \A a \in Q[u] : node'[a].next \in Q[u] \cup {Null}
    BY <1>2, <1>4, <1>6, <1>13, <1>14 DEF StackBody, Kept
  <2> QED BY <2>1, <2>2, <2>3 DEF Kept
<1>19. Guarded(Q)'
  <2> SUFFICES ASSUME NEW u \in Pair, NEW a \in Addresses, Looks(u, a)'
               PROVE  node'[a].live /\ \A m \in Pair : Spared(Q, u, a, m)'
    BY DEF Guarded
  <2>1. Looks(u, a)
    BY <1>9, <1>11
  <2>2. node[a].live /\ \A m \in Pair : Spared(R, u, a, m)
    BY <1>2, <2>1 DEF StackBody, Guarded
  <2>3. ASSUME NEW m \in Pair PROVE Spared(Q, u, a, m)'
    <3>1. CASE m = t
      BY <1>5, <1>9, <3>1 DEF Spared
    <3>2. CASE m # t
      BY <1>5, <1>11, <1>13, <2>2, <3>2 DEF Spared
    <3> QED BY <3>1, <3>2
  <2> QED BY <1>6, <2>2, <2>3
<1>20. StackBody(f, Q)'
  BY <1>2, <1>3, <1>13, <1>15, <1>16, <1>17, <1>18, <1>19 DEF StackBody
<1> QED BY <1>8, <1>10, <1>20 DEF StackInv

-----------------------------------------------------------------------------
(* The nodes of a list: the walk along its next pointers up to the first   *)
(* null, as far as there are addresses.                                    *)
Walk(a, g, N) == g = [i \in 0 .. N |-> Along(a, g, i)]

LEMMA WalkPrefix ==
  ASSUME NEW a, NEW N \in Nat, NEW g, Walk(a, g, N)
  PROVE  \E m \in 0 .. N : \A i \in 1 .. N : g[i - 1] # Null <=> i <= m
<1> DEFINE T == {i \in Nat : i = N \/ (i < N /\ g[i] = Null)}
<1>1. N \in T /\ T \in SUBSET Nat
  OBVIOUS
<1>2. PICK m \in T : \A i \in T : m <= i
  BY <1>1, Least, Zenon
<1>3. m \in 0 .. N
  BY <1>1, <1>2
<1>4. ASSUME NEW i \in 1 .. N, i <= m PROVE g[i - 1] # Null
  <2>1. i - 1 \in Nat /\ i - 1 < m /\ m <= N /\ i - 1 < N
    BY <1>3, <1>4
  <2>2. i - 1 \notin T
    BY <1>2, <1>3, <2>1
  <2> QED BY <2>1, <2>2
<1>5. ASSUME NEW i \in 1 .. N, ~ (i <= m) PROVE g[i - 1] = Null
  <2> DEFINE D == {d \in Nat : m + d < N => g[m + d] = Null}
  <2>1. 0 \in D
    BY <1>2, <1>3
  <2>2. ASSUME NEW d \in Nat, d \in D PROVE d + 1 \in D
    <3> SUFFICES ASSUME m + (d + 1) < N PROVE g[m + (d + 1)] = Null
      OBVIOUS
    <3>1. m + d < N /\ m + (d + 1) \in 0 .. N /\ m + (d + 1) # 0 /\ (m + (d + 1)) - 1 = m + d
      BY <1>3
    <3>2. g[m + d] = Null
      BY <2>2, <3>1
    <3>3. g[m + (d + 1)] = Along(a, g, m + (d + 1))
      BY <3>1, Zenon DEF Walk
    <3> QED BY <3>1, <3>2, <3>3 DEF Along
  <2> HIDE DEF D
  <2>3. (i - 1) - m \in D
    <3>1. (i - 1) - m \in Nat
      BY <1>3, <1>5
    <3> QED BY <2>1, <2>2, <3>1, SetInduction
  <2>4. m + ((i - 1) - m) = i - 1 /\ i - 1 < N
    BY <1>3
  <2> QED BY <2>3, <2>4 DEF D
<1> QED BY <1>3, <1>4, <1>5, Zenon

LEMMA ChainIsWalk ==
  ASSUME NEW a
  PROVE  \E g : \E m \in 0 .. Cardinality(Addresses) :
           /\ Walk(a, g, Cardinality(Addresses))
           /\ Stack!Chain(a) = [i \in 1 .. m |-> g[i - 1]]
           /\ \A i \in 1 .. Cardinality(Addresses) : g[i - 1] # Null <=> i <= m
<1> DEFINE N == Cardinality(Addresses)
<1>1. N \in Nat
  BY NodesOK, FS_CardinalityType
<1>2. \E g : g = [i \in 0 .. N |-> IF i = 0 THEN a ELSE IF g[i - 1] = Null THEN Null ELSE node[g[i - 1]].next]
  <2> HIDE DEF N
  <2>1. \E g : g = [i \in 0 .. N |-> Along(a, g, i)]
    BY <1>1, WalkExists, Zenon
  <2> QED BY <2>1, Zenon DEF Along
<1>3. PICK g : /\ g = [i \in 0 .. N |-> IF i = 0 THEN a ELSE IF g[i - 1] = Null THEN Null
                                        ELSE node[g[i - 1]].next]
               /\ Stack!Chain(a) = [i \in 1 .. Cardinality({i \in 1 .. N : g[i - 1] # Null}) |-> g[i - 1]]
  <2>1. \A S : Stack!Cardinality(S) = Cardinality(S)
    BY DEF Stack!Cardinality, Cardinality
  <2> QED BY <1>2, <2>1, Zenon DEF Stack!Chain
<1> HIDE DEF N
<1>4. Walk(a, g, N)
  BY <1>3, Zenon DEF Walk, Along
<1>5. PICK m \in 0 .. N : \A i \in 1 .. N : g[i - 1] # Null <=> i <= m
  BY <1>1, <1>4, WalkPrefix, Zenon
<1>6. {i \in 1 .. N : g[i - 1] # Null} = 1 .. m
  BY <1>1, <1>5
<1>7. Cardinality(1 .. m) = m
  BY <1>1, FS_Interval
<1> QED BY <1>3, <1>4, <1>5, <1>6, <1>7, Zenon DEF N

(* A list whose next pointers stay in a set stays in it.                   *)
LEMMA ChainStays ==
  ASSUME NEW S \in SUBSET Addresses, NEW a \in S \cup {Null},
         \A x \in S : node[x].next \in S \cup {Null}
  PROVE  \E m \in Nat : Stack!Chain(a) \in [1 .. m -> S]
<1> DEFINE N == Cardinality(Addresses)
<1>1. N \in Nat
  BY NodesOK, FS_CardinalityType
<1>2. PICK g : \E m \in 0 .. N :
           /\ Walk(a, g, N)
           /\ Stack!Chain(a) = [i \in 1 .. m |-> g[i - 1]]
           /\ \A i \in 1 .. N : g[i - 1] # Null <=> i <= m
  BY ChainIsWalk, Zenon
<1> HIDE DEF N
<1>3. PICK m \in 0 .. N :
           /\ Walk(a, g, N)
           /\ Stack!Chain(a) = [i \in 1 .. m |-> g[i - 1]]
           /\ \A i \in 1 .. N : g[i - 1] # Null <=> i <= m
  BY <1>2
<1> DEFINE T == {i \in Nat : i <= N => g[i] \in S \cup {Null}}
<1>4. 0 \in T
  BY <1>1, <1>3 DEF Walk, Along
<1>5. ASSUME NEW i \in Nat, i \in T PROVE i + 1 \in T
  <2> SUFFICES ASSUME i + 1 <= N PROVE g[i + 1] \in S \cup {Null}
    OBVIOUS
  <2>1. i + 1 \in 0 .. N /\ i + 1 # 0 /\ (i + 1) - 1 = i /\ i <= N
    BY <1>1
  <2>2. g[i] \in S \cup {Null}
    BY <1>5, <2>1
  <2>3. g[i + 1] = Along(a, g, i + 1)
    BY <1>3, <2>1, Zenon DEF Walk
  <2> QED BY <2>1, <2>2, <2>3, NodesOK DEF Along
<1>6. Nat \subseteq T
  <2> HIDE DEF T
  <2> QED BY <1>4, <1>5, SetInduction
<1>7. ASSUME NEW i \in 1 .. m PROVE g[i - 1] \in S
  <2>1. i \in 1 .. N /\ i - 1 \in Nat /\ i - 1 <= N
    BY <1>1
  <2> QED BY <1>3, <1>6, <2>1
<1> QED BY <1>1, <1>3, <1>7

(* cleanup keeps what is announced, and deletes nothing but retired nodes. *)
LEMMA StackCleanupStep == ASSUME StackInv, NEW t \in Pair, Stack!Cleanup(t) PROVE StackInv'
<1>1. StackTypes /\ \A u \in Pair : Placed(u)
  BY DEF StackInv
<1>2. PICK f, R : StackBody(f, R)
  BY DEF StackInv
<1> DEFINE chain == Stack!Chain(retired[t])
           kept == {i \in DOMAIN chain : chain[i] \in me[t].announced}
           after(i) == IF kept \ 1 .. i = {} THEN Null ELSE chain[Stack!Min(kept \ 1 .. i)]
           K == {chain[i] : i \in kept}
           gone == {chain[i] : i \in DOMAIN chain} \ K
<1>3. /\ me[t].pc = "cleanup" /\ UNCHANGED <<head, announcement, pushes, content>>
      /\ node' = [a \in Addresses |->
           IF \E i \in kept : chain[i] = a
           THEN [node[a] EXCEPT !.next = after(CHOOSE i \in kept : chain[i] = a)]
           ELSE IF \E i \in DOMAIN chain : chain[i] = a THEN Stack!Free
           ELSE node[a]]
      /\ retired' = [retired EXCEPT ![t] = after(0)]
      /\ Stack!Goto(t, [me[t] EXCEPT !.announced = {}], "release")
  BY DEF Stack!Cleanup
<1>4. PICK m \in Nat : chain \in [1 .. m -> R[t]]
  <2>1. R[t] \in SUBSET Addresses /\ retired[t] \in R[t] \cup {Null}
        /\ \A x \in R[t] : node[x].next \in R[t] \cup {Null}
    BY <1>2 DEF StackBody, Kept
  <2> QED BY <2>1, ChainStays, Zenon
<1> HIDE DEF chain
<1>5. K \subseteq R[t] /\ gone \subseteq R[t] /\ R[t] \subseteq Addresses /\ K \cap gone = {}
      /\ K \subseteq me[t].announced /\ gone \cap me[t].announced = {}
  BY <1>2, <1>4 DEF StackBody
<1>6. \A i : after(i) \in K \cup {Null}
  <2> SUFFICES ASSUME NEW i, kept \ 1 .. i # {} PROVE Stack!Min(kept \ 1 .. i) \in kept
    BY Zenon
  <2>1. kept \ 1 .. i \in SUBSET Nat
    BY <1>4
  <2> HIDE DEF kept
  <2>2. \E x \in kept \ 1 .. i : \A y \in kept \ 1 .. i : x <= y
    BY <2>1, Least, Zenon
  <2> QED BY <2>2 DEF Stack!Min
<1> HIDE DEF after
<1>7. /\ node' \in [Addresses -> Node]
      /\ \A a \in K : /\ node'[a].live = node[a].live /\ node'[a].t = node[a].t
                      /\ node'[a].length = node[a].length /\ node'[a].next \in K \cup {Null}
      /\ \A a \in Addresses : a \notin K \cup gone => node'[a] = node[a]
  <2>0. K \subseteq Refs /\ Null \in Refs
    BY <1>5 DEF Refs
  <2>1. ASSUME NEW a \in Addresses
        PROVE  /\ node'[a] \in Node
               /\ a \in K => /\ node'[a].live = node[a].live /\ node'[a].t = node[a].t
                             /\ node'[a].length = node[a].length /\ node'[a].next \in K \cup {Null}
               /\ a \notin K \cup gone => node'[a] = node[a]
    <3>0. node[a] \in Node
      BY <1>1 DEF StackTypes
    <3>1. CASE a \in K
      <4>1. PICK x : node'[a] = [node[a] EXCEPT !.next = x] /\ x \in K \cup {Null}
        BY <1>3, <1>6, <3>1, Zenon
      <4>2. x \in Refs
        BY <2>0, <4>1
      <4> QED BY <3>0, <3>1, <4>1, <4>2 DEF Node
    <3>2. CASE a \in gone
      <4>1. node'[a] = Stack!Free
        BY <1>3, <3>2
      <4>2. Stack!Free \in Node
        BY <2>0 DEF Stack!Free, Node
      <4>3. a \notin K
        BY <3>2
      <4> QED BY <3>2, <4>1, <4>2, <4>3
    <3>3. CASE a \notin K \cup gone
      <4>1. node'[a] = node[a]
        BY <1>3, <3>3
      <4> QED BY <3>0, <3>3, <4>1
    <3> QED BY <3>1, <3>2, <3>3
  <2>2. node' = [a \in Addresses |-> node'[a]]
    BY <1>3
  <2>3. node' \in [Addresses -> Node]
    BY <2>1, <2>2
  <2> QED BY <1>5, <2>1, <2>3
<1>8. /\ retired' \in [Pair -> Refs] /\ retired'[t] \in K \cup {Null}
      /\ \A u \in Pair : u # t => retired'[u] = retired[u]
  <2>1. after(0) \in K \cup {Null} /\ K \cup {Null} \subseteq Refs
    BY <1>5, <1>6 DEF Refs
  <2> QED BY <1>1, <1>3, <2>1 DEF StackTypes
<1>9. me' \in [Pair -> Local] /\ me'[t].pc = "release" /\ \A u \in Pair : u # t => me'[u] = me[u]
  <2> DEFINE l == [me[t] EXCEPT !.announced = {}]
  <2>0. me[t] \in Local
    BY <1>1 DEF StackTypes
  <2>1. l \in Local /\ "release" \in Marks
    BY <2>0 DEF Local, Marks
  <2>2. Stack!Goto(t, l, "release")
    BY <1>3
  <2> HIDE DEF l
  <2> QED BY <1>1, <2>1, <2>2, Others
<1> HIDE DEF K, gone, kept
<1>10. StackTypes'
  BY <1>1, <1>3, <1>7, <1>8, <1>9, Zenon DEF StackTypes
<1>11. /\ Placed(t)' /\ Fresh(t)' = Fresh(t) /\ Mine(t)' = Mine(t) /\ Mine(t) = {} /\ \A a : ~ Looks(t, a)'
  BY <1>3, <1>9 DEF Placed, Pushing, Popping, Fresh, Taken, Mine, Looks
<1>12. \A u \in Pair : Placed(u)'
  BY <1>1, <1>3, <1>9, <1>11, Same
<1>13. \A u \in Pair : /\ Fresh(u)' = Fresh(u) /\ Mine(u)' = Mine(u)
                       /\ u # t => \A a : Looks(u, a)' = Looks(u, a)
  BY <1>9, <1>11, Same
<1>14. PICK Q : Q = [R EXCEPT ![t] = K]
  BY Zenon
<1>15. /\ Q \in [Pair -> SUBSET Addresses] /\ Q[t] = K
       /\ \A u \in Pair : Q[u] \subseteq R[u] /\ (u # t => Q[u] = R[u])
  BY <1>2, <1>5, <1>14 DEF StackBody
<1>16. /\ \A i \in 1 .. Len(content) : f[i] \in Addresses /\ f[i] \notin K \cup gone
       /\ \A u \in Pair : /\ Mine(u) \subseteq Addresses /\ Mine(u) \cap (K \cup gone) = {}
                          /\ u # t => R[u] \cap (K \cup gone) = {} /\ R[u] \subseteq Addresses
  <2>1. \A u \in Pair : Mine(u) \subseteq Addresses
    BY <1>1 DEF StackTypes, Local, Placed, Refs, Mine, Fresh, Taken, Pushing, Popping
  <2> QED BY <1>2, <1>5, <2>1 DEF StackBody, Apart
<1>17. \A u \in Pair, a \in Addresses : Looks(u, a) => a \notin gone
  BY <1>2, <1>3, <1>5 DEF StackBody, Guarded, Spared
<1>18. \A a \in Addresses : a \notin gone => /\ node'[a].live = node[a].live
                                             /\ node'[a].length = node[a].length
  BY <1>7
<1>19. Holds(f)'
  <2>1. \A i \in 1 .. Len(content) : node'[f[i]] = node[f[i]]
    BY <1>7, <1>16
  <2>2. head' = head /\ content' = content
    BY <1>3
  <2> QED BY <1>2, <2>1, <2>2 DEF StackBody, Holds, At
<1>20. Prepared(f)'
  <2> SUFFICES ASSUME NEW u \in Pair, me'[u].pc = "cas"
               PROVE  /\ me'[u].op = "push" =>
                           /\ node'[me'[u].p].next = me'[u].h
                           /\ node'[me'[u].p].length
                                = IF me'[u].h = Null THEN 1 ELSE node'[me'[u].h].length + 1
                      /\ me'[u].op = "pop" =>
                           \A i \in 1 .. Len(content) : f[i] = me'[u].h => me'[u].next = node'[me'[u].h].next
    BY <1>3, Zenon DEF Prepared
  <2>1. u # t /\ me'[u] = me[u]
    BY <1>9
  <2>2. me[u].op = "push" => node'[me[u].p] = node[me[u].p]
    <3>1. me[u].op = "push" => me[u].p \in Mine(u)
      BY <2>1 DEF Mine, Fresh, Pushing
    <3> QED BY <1>7, <1>16, <3>1
  <2>3. me[u].h # Null => node'[me[u].h].length = node[me[u].h].length
    <3>1. Looks(u, me[u].h) /\ (me[u].h # Null => me[u].h \in Addresses)
      BY <1>1, <2>1 DEF Looks, StackTypes, Local, Refs
    <3> QED BY <1>17, <1>18, <3>1
  <2>4. \A i \in 1 .. Len(content) : node'[f[i]] = node[f[i]]
    BY <1>7, <1>16
  <2> QED BY <1>2, <2>1, <2>2, <2>3, <2>4 DEF StackBody, Prepared
<1>21. Apart(f, Q)'
  <2>1. \A i \in 1 .. Len(content), u \in Pair : f[i] \notin Mine(u)' \cup Q[u]
    BY <1>2, <1>13, <1>15 DEF StackBody, Apart
  <2>2. \A u, i \in Pair : Mine(u)' \cap Q[i] = {}
    BY <1>2, <1>13, <1>15 DEF StackBody, Apart
  <2>3. \A u, i \in Pair : u # i => Q[u] \cap Q[i] = {} /\ Mine(u)' \cap Mine(i)' = {}
    BY <1>2, <1>13, <1>15 DEF StackBody, Apart
  <2> QED BY <1>3, <2>1, <2>2, <2>3 DEF Apart
<1>22. Kept(Q)'
  <2>0. K \cap gone = {}
    BY <1>5 DEF gone
  <2>1. \A u \in Pair : \A a \in Mine(u)' \cup Q[u] : node'[a].live
    <3>1. ASSUME NEW u \in Pair, NEW a \in Mine(u) \cup Q[u] PROVE node'[a].live
      <4>1. node[a].live /\ a \in Addresses /\ a \notin gone
        BY <1>2, <1>5, <1>15, <1>16, <2>0, <3>1 DEF StackBody, Kept
      <4> QED BY <1>18, <4>1
    <3> QED BY <1>13, <3>1
  <2>2. \A u \in Pair : retired'[u] \in Q[u] \cup {Null}
    BY <1>2, <1>8, <1>15 DEF StackBody, Kept
  <2>3. ASSUME NEW u \in Pair, NEW a \in Q[u] PROVE node'[a].next \in Q[u] \cup {Null}
    <3>1. CASE u = t
      BY <1>7, <1>15, <3>1
    <3>2. CASE u # t
      <4>1. node'[a] = node[a] /\ a \in R[u]
        BY <1>7, <1>15, <1>16, <3>2
      <4> QED BY <1>2, <1>15, <3>2, <4>1 DEF StackBody, Kept
    <3> QED BY <3>1, <3>2
  <2> QED BY <2>1, <2>2, <2>3 DEF Kept
<1>23. Guarded(Q)'
  <2> SUFFICES ASSUME NEW u \in Pair, NEW a \in Addresses, Looks(u, a)'
               PROVE  node'[a].live /\ \A i \in Pair : Spared(Q, u, a, i)'
    BY DEF Guarded
  <2>1. Looks(u, a)
    BY <1>11, <1>13
  <2>2. node[a].live /\ \A i \in Pair : Spared(R, u, a, i)
    BY <1>2, <2>1 DEF StackBody, Guarded
  <2>3. node'[a].live
    BY <1>17, <1>18, <2>1, <2>2
  <2>4. ASSUME NEW i \in Pair PROVE Spared(Q, u, a, i)'
    <3>1. CASE i = t
      BY <1>9, <1>13, <2>2, <3>1 DEF Spared
    <3>2. CASE i # t
      BY <1>9, <1>13, <1>15, <2>2, <3>2 DEF Spared
    <3> QED BY <3>1, <3>2
  <2> QED BY <2>3, <2>4
<1>24. StackBody(f, Q)'
  BY <1>2, <1>3, <1>15, <1>19, <1>20, <1>21, <1>22, <1>23 DEF StackBody
<1> QED BY <1>10, <1>12, <1>24 DEF StackInv

-----------------------------------------------------------------------------
LEMMA StackStep == StackInv /\ Stack!Next => StackInv'
<1> SUFFICES ASSUME StackInv, NEW t \in Pair, Stack!Step(t) PROVE StackInv'
  BY DEF Stack!Next
<1>1. CASE Stack!Push(t)
  BY <1>1, StackPushStep
<1>2. CASE \/ Stack!Pop(t) \/ Stack!Load(t) \/ Stack!Announce(t) \/ Stack!Confirm(t)
           \/ Stack!ReadNext(t) \/ Stack!ScanSlot(t) \/ Stack!Release(t)
  BY <1>2, QuietSteps
<1>3. CASE Stack!Link(t)
  BY <1>3, StackLinkStep
<1>4. CASE Stack!PushCas(t)
  BY <1>4, StackLinkStep, StackPutStep
<1>5. CASE Stack!PopCas(t)
  BY <1>5, StackTakeStep
<1>6. CASE Stack!Retire(t)
  BY <1>6, StackRetireStep
<1>7. CASE Stack!Cleanup(t)
  BY <1>7, StackCleanupStep
<1> QED BY <1>1, <1>2, <1>3, <1>4, <1>5, <1>6, <1>7 DEF Stack!Step

LEMMA StackSteps ==
  [Next]_vars /\ running = "stack" =>
    Stack!Next \/ UNCHANGED <<head, node, announcement, retired, me, pushes, content>>
BY DEF Next, vars, shared, ofStack

LEMMA StackSame ==
  ASSUME StackInv, UNCHANGED <<head, node, announcement, retired, me, pushes, content>>
  PROVE  StackInv'
<1>1. StackTypes'
  BY DEF StackInv, StackTypes
<1>2. \A u \in Pair : Placed(u)'
  BY Same DEF StackInv
<1>3. PICK f, R : StackBody(f, R)
  BY DEF StackInv
<1>4. \A u \in Pair : Fresh(u)' = Fresh(u) /\ Mine(u)' = Mine(u) /\ \A a : Looks(u, a)' = Looks(u, a)
  BY Same
<1>5. Holds(f)'
  BY <1>3 DEF StackBody, Holds, At
<1>6. Prepared(f)'
  BY <1>3 DEF StackBody, Prepared
<1>7. Apart(f, R)' /\ Kept(R)'
  BY <1>3, <1>4 DEF StackBody, Apart, Kept
<1>8. Guarded(R)'
  BY <1>3, <1>4 DEF StackBody, Guarded, Spared
<1>9. StackBody(f, R)'
  BY <1>3, <1>5, <1>6, <1>7, <1>8 DEF StackBody
<1> QED BY <1>1, <1>2, <1>9 DEF StackInv

LEMMA StackInit == Stack!Init => StackInv
<1> SUFFICES ASSUME Stack!Init PROVE StackInv
  OBVIOUS
<1> DEFINE b == Stack!First
<1>1. b \in Addresses
  BY NodesOK DEF Stack!First
<1>2. Stack!Idle \in Local /\ \A t \in Pair : me[t] = Stack!Idle
  BY DEF Stack!Init, Stack!Idle, Local, Marks, Refs
<1>3. /\ node \in [Addresses -> Node]
      /\ node[b].live /\ node[b].t = 1 /\ node[b].length = 1 /\ node[b].next = Null
  <2> DEFINE r == [Stack!Free EXCEPT !.live = TRUE, !.t = 1, !.length = 1]
  <2>1. Stack!Free \in Node /\ Stack!Free.next = Null
    BY DEF Stack!Free, Node, Refs
  <2>2. r \in Node /\ r.live = TRUE /\ r.t = 1 /\ r.length = 1 /\ r.next = Null
    <3> DEFINE x == [Stack!Free EXCEPT !.live = TRUE]
               y == [x EXCEPT !.t = 1]
    <3>1. x \in Node /\ x.live = TRUE /\ x.next = Null
      BY <2>1, Zenon DEF Node
    <3> HIDE DEF x
    <3>2. y \in Node /\ y.live = TRUE /\ y.next = Null /\ y.t = 1
      BY <3>1 DEF Node
    <3>3. r = [y EXCEPT !.length = 1]
      BY DEF x
    <3> HIDE DEF y, r
    <3> QED BY <3>2, <3>3 DEF Node
  <2>3. node = [a \in Addresses |-> IF a = b THEN r ELSE Stack!Free]
    BY DEF Stack!Init
  <2> HIDE DEF r
  <2> QED BY <1>1, <2>1, <2>2, <2>3
<1>4. StackTypes
  BY <1>1, <1>2, <1>3 DEF Stack!Init, StackTypes, Refs
<1>5. /\ \A t \in Pair : Placed(t) /\ Mine(t) = {} /\ Fresh(t) = {} /\ \A a : ~ Looks(t, a)
      /\ \A t \in Pair : me[t].pc = "idle"
  BY <1>2 DEF Stack!Idle, Placed, Pushing, Popping, Mine, Fresh, Taken, Looks
<1>6. Len(content) = 1 /\ content[1] = 1 /\ head = b /\ \A t \in Pair : retired[t] = Null
  BY DEF Stack!Init
<1> HIDE DEF b
<1>7. PICK f : f = [i \in 1 .. Len(content) |-> b]
  BY Zenon
<1>8. PICK R : R = [t \in Pair |-> {}]
  BY Zenon
<1>9. f \in [1 .. Len(content) -> Addresses] /\ R \in [Pair -> SUBSET Addresses] /\ f[1] = b
      /\ \A t \in Pair : R[t] = {}
  BY <1>1, <1>6, <1>7, <1>8
<1>10. Holds(f)
  <2>1. ASSUME NEW i \in 1 .. Len(content) PROVE i = 1
    BY <1>6
  <2> QED BY <1>3, <1>6, <1>9, <2>1 DEF Holds, At
<1>11. Prepared(f) /\ Apart(f, R) /\ Kept(R) /\ Guarded(R)
  BY <1>5, <1>6, <1>9 DEF Prepared, Apart, Kept, Guarded
<1> QED BY <1>4, <1>5, <1>9, <1>10, <1>11 DEF StackInv, StackBody

(* The nodes from the head are the elements of the stack.                  *)
LEMMA StackChain ==
  ASSUME StackTypes, NEW f, NEW R, StackBody(f, R)
  PROVE  /\ DOMAIN Stack!Chain(head) = 1 .. Len(content)
         /\ \A i \in 1 .. Len(content) : Stack!Chain(head)[i] = f[Len(content) - i + 1]
<1> DEFINE N == Cardinality(Addresses)
           k == Len(content)
<1>1. N \in Nat /\ k \in Nat
  BY NodesOK, FS_CardinalityType DEF StackTypes
<1>2. f \in [1 .. k -> Addresses] /\ head = At(f, k) /\ Null \notin Addresses
      /\ \A i \in 1 .. k : node[f[i]].next = At(f, i - 1) /\ node[f[i]].length = i
  BY NodesOK DEF StackBody, Holds
<1>3. k <= N
  <2>1. f \in Injection(1 .. k, Addresses)
    <3>1. \A i, m \in 1 .. k : f[i] = f[m] => i = m
      BY <1>2
    <3> QED BY <1>2, <3>1 DEF Injection, IsInjective
  <2>2. Cardinality(1 .. k) <= N
    BY <2>1, NodesOK, FS_Injection
  <2>3. Cardinality(1 .. k) = k
    <3> HIDE DEF k
    <3>1. k \in Nat
      BY <1>1
    <3> QED BY <3>1, FS_Interval
  <2> QED BY <2>2, <2>3
<1>4. \E g : \E m \in 0 .. N :
           /\ Walk(head, g, N)
           /\ Stack!Chain(head) = [i \in 1 .. m |-> g[i - 1]]
           /\ \A i \in 1 .. N : g[i - 1] # Null <=> i <= m
  BY ChainIsWalk, Zenon
<1> HIDE DEF N, k
<1>5. PICK g : \E m \in 0 .. N :
           /\ Walk(head, g, N)
           /\ Stack!Chain(head) = [i \in 1 .. m |-> g[i - 1]]
           /\ \A i \in 1 .. N : g[i - 1] # Null <=> i <= m
  BY <1>4
<1>6. PICK m \in 0 .. N :
           /\ Walk(head, g, N)
           /\ Stack!Chain(head) = [i \in 1 .. m |-> g[i - 1]]
           /\ \A i \in 1 .. N : g[i - 1] # Null <=> i <= m
  BY <1>5
<1> DEFINE T == {i \in Nat : i <= k => g[i] = At(f, k - i)}
<1>7. 0 \in T
  BY <1>1, <1>2, <1>6 DEF Walk, Along
<1>8. ASSUME NEW i \in Nat, i \in T PROVE i + 1 \in T
  <2> SUFFICES ASSUME i + 1 <= k PROVE g[i + 1] = At(f, k - (i + 1))
    OBVIOUS
  <2>1. i + 1 \in 0 .. N /\ i + 1 # 0 /\ (i + 1) - 1 = i /\ i <= k /\ k - i \in 1 .. k
        /\ (k - i) - 1 = k - (i + 1) /\ k - i # 0
    BY <1>1, <1>3
  <2>2. g[i] = At(f, k - i)
    BY <1>8, <2>1
  <2>3. g[i] = f[k - i] /\ f[k - i] \in Addresses
    BY <1>2, <2>1, <2>2 DEF At
  <2>4. g[i + 1] = Along(head, g, i + 1)
    BY <1>6, <2>1, Zenon DEF Walk
  <2>5. g[i + 1] = node[f[k - i]].next
    BY <1>2, <2>1, <2>3, <2>4 DEF Along
  <2> QED BY <1>2, <2>1, <2>5
<1>9. Nat \subseteq T
  <2> HIDE DEF T
  <2> QED BY <1>7, <1>8, SetInduction
<1>10. ASSUME NEW i \in 1 .. k PROVE g[i - 1] = f[k - i + 1] /\ g[i - 1] # Null
  <2>1. i - 1 \in Nat /\ i - 1 <= k /\ k - (i - 1) = k - i + 1 /\ k - i + 1 \in 1 .. k /\ k - i + 1 # 0
    BY <1>1
  <2>2. g[i - 1] = At(f, k - (i - 1))
    BY <1>9, <2>1
  <2> QED BY <1>2, <2>1, <2>2 DEF At
<1>11. m = k
  <2>1. k <= m
    <3> SUFFICES ASSUME k # 0 PROVE k <= m
      BY <1>1, <1>6
    <3>1. k \in 1 .. k /\ k \in 1 .. N
      BY <1>1, <1>3
    <3> QED BY <1>6, <1>10, <3>1
  <2>2. ~ (k < m)
    <3> SUFFICES ASSUME k < m PROVE FALSE
      OBVIOUS
    <3>1. k + 1 \in 1 .. N /\ k + 1 <= m /\ (k + 1) - 1 = k /\ k - k = 0
      BY <1>1, <1>6
    <3>2. g[k] = At(f, 0)
      BY <1>1, <1>9, <3>1
    <3> QED BY <1>6, <3>1, <3>2 DEF At
  <2> QED BY <1>1, <2>1, <2>2
<1> QED BY <1>6, <1>10, <1>11 DEF k

(* The stack built from the head is the one the calls built, and no thread *)
(* looks into a deleted node (hazptr_stack.h, acquire_retire.h), for any   *)
(* threads, addresses and retires before a collection.                     *)
THEOREM StackWhole == Spec => []StackIsWhole
<1> DEFINE Inv == running = "stack" => StackInv
<1>1. Init => Inv
  BY StackInit DEF Init
<1>2. Inv /\ [Next]_vars => Inv'
  <2> SUFFICES ASSUME Inv, [Next]_vars, running' = "stack" PROVE StackInv'
    OBVIOUS
  <2>1. running = "stack"
    BY DEF Next, vars
  <2>2. CASE Stack!Next
    BY <2>1, <2>2, StackStep
  <2>3. CASE UNCHANGED <<head, node, announcement, retired, me, pushes, content>>
    BY <2>1, <2>3, StackSame
  <2> QED BY <2>1, <2>2, <2>3, StackSteps
<1>3. Inv => StackIsWhole
  <2> SUFFICES ASSUME running = "stack", StackInv PROVE Stack!StackIsWhole
    BY DEF StackIsWhole
  <2>1. PICK f, R : StackBody(f, R)
    BY DEF StackInv
  <2> DEFINE k == Len(content)
  <2>2. StackTypes /\ k \in Nat
    BY DEF StackInv, StackTypes
  <2>3. /\ DOMAIN Stack!Chain(head) = 1 .. k
        /\ \A i \in 1 .. k : Stack!Chain(head)[i] = f[k - i + 1]
    BY <2>1, <2>2, StackChain
  <2>4. ASSUME NEW i \in 1 .. k
        PROVE  LET a == node[Stack!Chain(head)[i]]
               IN  a.t = content[i] /\ a.live /\ a.length = k - i + 1
    <3>1. k - i + 1 \in 1 .. k /\ k - (k - i + 1) + 1 = i
      BY <2>2
    <3> QED BY <2>1, <2>3, <3>1 DEF StackBody, Holds
  <2>5. [i \in DOMAIN Stack!Chain(head) |-> node[Stack!Chain(head)[i]].t] = content
    <3>1. content = [i \in 1 .. k |-> content[i]]
      BY <2>2 DEF StackTypes
    <3> QED BY <2>3, <2>4, <3>1
  <2>6. ASSUME NEW t \in Pair, me[t].pc \in {"link", "next", "retire"}, me[t].h # Null
        PROVE  node[me[t].h].live
    <3>1. me[t].h \in Addresses
      BY <2>2, <2>6 DEF StackTypes, Local, Refs
    <3>2. CASE me[t].pc = "retire"
      BY <2>1, <3>2 DEF StackBody, Kept, Mine, Taken
    <3>3. CASE me[t].pc # "retire"
      <4>1. Looks(t, me[t].h)
        BY <2>6, <3>3 DEF Looks
      <4> QED BY <2>1, <3>1, <4>1 DEF StackBody, Guarded
    <3> QED BY <3>2, <3>3
  <2> QED BY <2>3, <2>4, <2>5, <2>6 DEF Stack!StackIsWhole
<1> QED BY <1>1, <1>2, <1>3, PTL DEF Spec

-----------------------------------------------------------------------------
(* Powers of two, as the numbers of subsets of intervals.                  *)
LEMMA PowerType == \A k \in Nat : 2 ^ k \in Nat
<1> SUFFICES ASSUME NEW k \in Nat PROVE 2 ^ k \in Nat
  OBVIOUS
<1>1. IsFiniteSet(1 .. k) /\ Cardinality(1 .. k) = k
  BY FS_Interval
<1>2. IsFiniteSet(SUBSET (1 .. k)) /\ Cardinality(SUBSET (1 .. k)) = 2 ^ k
  BY <1>1, FS_SUBSET, Zenon
<1> QED BY <1>2, FS_CardinalityType

LEMMA PowerStep == \A k \in Nat : 2 ^ (k + 1) = 2 * 2 ^ k
<1> SUFFICES ASSUME NEW k \in Nat PROVE 2 ^ (k + 1) = 2 * 2 ^ k
  OBVIOUS
<1> DEFINE S == SUBSET (1 .. k)
           T == {A \cup {k + 1} : A \in S}
<1>1. IsFiniteSet(1 .. k) /\ Cardinality(1 .. k) = k
  BY FS_Interval
<1>2. IsFiniteSet(1 .. k + 1) /\ Cardinality(1 .. k + 1) = k + 1
  BY FS_Interval
<1>3. IsFiniteSet(S) /\ Cardinality(S) = 2 ^ k
  BY <1>1, FS_SUBSET, Zenon
<1>4. Cardinality(SUBSET (1 .. k + 1)) = 2 ^ (k + 1)
  BY <1>2, FS_SUBSET, Zenon
<1>5. k + 1 \notin 1 .. k /\ 1 .. k + 1 = (1 .. k) \cup {k + 1}
  OBVIOUS
<1>6. IsFiniteSet(T) /\ Cardinality(T) = Cardinality(S)
  <2> DEFINE f == [A \in S |-> A \cup {k + 1}]
  <2>1. \A A, B \in S : f[A] = f[B] => A = B
    BY <1>5
  <2>2. f \in [S -> T] /\ \A x \in T : \E A \in S : f[A] = x
    OBVIOUS
  <2> HIDE DEF f
  <2>3. f \in Bijection(S, T)
    BY <2>1, <2>2, Zenon DEF Bijection, Injection, IsInjective, Surjection
  <2> QED BY <1>3, <2>3, FS_Bijection DEF ExistsBijection
<1>7. S \cap T = {}
  BY <1>5
<1>8. SUBSET (1 .. k + 1) = S \cup T
  <2>1. ASSUME NEW A \in SUBSET (1 .. k + 1), k + 1 \in A PROVE A \in T
    <3>1. A \ {k + 1} \in S /\ A = (A \ {k + 1}) \cup {k + 1}
      BY <1>5, <2>1
    <3> QED BY <3>1, Zenon
  <2>2. ASSUME NEW A \in SUBSET (1 .. k + 1), k + 1 \notin A PROVE A \in S
    BY <1>5, <2>2
  <2>3. S \cup T \subseteq SUBSET (1 .. k + 1)
    BY <1>5, Zenon
  <2> QED BY <2>1, <2>2, <2>3, Zenon
<1> HIDE DEF S, T
<1>9. Cardinality(S \cup T) = Cardinality(S) + Cardinality(T) - Cardinality({})
  BY <1>3, <1>6, <1>7, FS_Union
<1>10. Cardinality({}) = 0 /\ 2 ^ k \in Nat
  BY FS_EmptySet, PowerType
<1>11. Cardinality(S \cup T) = 2 * 2 ^ k
  BY <1>3, <1>6, <1>9, <1>10
<1>12. Cardinality(S \cup T) = 2 ^ (k + 1)
  BY <1>4, <1>8, Zenon
<1> QED BY <1>11, <1>12, Zenon

LEMMA PowerPositive == \A k \in Nat : 2 ^ k >= 1
<1> DEFINE T == {k \in Nat : 2 ^ k >= 1}
<1>1. 0 \in T
  <2>1. 2 ^ 0 = 1
    OBVIOUS
  <2> QED BY <2>1
<1>2. ASSUME NEW k \in Nat, k \in T PROVE k + 1 \in T
  <2>1. 2 ^ (k + 1) = 2 * 2 ^ k /\ 2 ^ k \in Nat /\ 2 ^ k >= 1
    BY <1>2, PowerStep, PowerType
  <2>2. 2 ^ (k + 1) >= 1
    BY <2>1
  <2> QED BY <2>2
<1>3. Nat \subseteq T
  <2> HIDE DEF T
  <2> QED BY <1>1, <1>2, SetInduction
<1> QED BY <1>3

LEMMA PowerMonotone == \A k, d \in Nat : 2 ^ k <= 2 ^ (k + d)
<1> SUFFICES ASSUME NEW k \in Nat PROVE \A d \in Nat : 2 ^ k <= 2 ^ (k + d)
  OBVIOUS
<1> DEFINE T == {d \in Nat : 2 ^ k <= 2 ^ (k + d)}
<1>1. 0 \in T
  <2>1. k + 0 = k /\ 2 ^ k \in Nat
    BY PowerType
  <2> QED BY <2>1
<1>2. ASSUME NEW d \in Nat, d \in T PROVE d + 1 \in T
  <2> DEFINE m == k + d
  <2>1. m \in Nat /\ k + (d + 1) = m + 1 /\ 2 ^ k <= 2 ^ m
    BY <1>2
  <2> HIDE DEF m
  <2>2. 2 ^ (m + 1) = 2 * 2 ^ m /\ 2 ^ m \in Nat /\ 2 ^ k \in Nat
    BY <2>1, PowerStep, PowerType
  <2>3. 2 ^ k <= 2 ^ (m + 1)
    BY <2>1, <2>2
  <2> QED BY <2>1, <2>3
<1>3. Nat \subseteq T
  <2> HIDE DEF T
  <2> QED BY <1>1, <1>2, SetInduction
<1> QED BY <1>3

-----------------------------------------------------------------------------
(* The chunks of a thread-specific list (ThreadIds) follow each other, and *)
(* hold every id.                                                          *)
LEMMA TimesMonotone == ASSUME NEW p \in Nat, NEW x \in Nat, NEW y \in Nat, x <= y PROVE p * x <= p * y
<1>1. y - x \in Nat /\ y = x + (y - x)
  OBVIOUS
<1>2. PICK d \in Nat : y = x + d
  BY <1>1
<1>3. p * y = p * x + p * d /\ p * x \in Nat /\ p * d \in Nat
  BY <1>2
<1> QED BY <1>3

LEMMA ChunkBounds ==
  ASSUME NEW c \in Nat
  PROVE  /\ ThreadIds!First(c) \in Nat
         /\ ThreadIds!ChunkLength(c) \in Nat /\ ThreadIds!ChunkLength(c) >= 1
         /\ ThreadIds!First(c + 1) = ThreadIds!First(c) + ThreadIds!ChunkLength(c)
         /\ ThreadIds!First(c + 1) = ChunkSize * 2 ^ c
         /\ c # 0 => ThreadIds!ChunkLength(c) = ThreadIds!First(c)
<1>1. ChunkSize \in Nat /\ ChunkSize >= 1
  BY IdsOK
<1>2. c + 1 # 0 /\ (c + 1) - 1 = c
  OBVIOUS
<1>3. ThreadIds!First(c + 1) = ChunkSize * 2 ^ c
  BY <1>2, Zenon DEF ThreadIds!First
<1>4. CASE c = 0
  <2>1. 2 ^ 0 = 1
    OBVIOUS
  <2>2. ThreadIds!First(c) = 0 /\ ThreadIds!ChunkLength(c) = ChunkSize
    BY <1>4 DEF ThreadIds!First, ThreadIds!ChunkLength
  <2> QED BY <1>1, <1>3, <1>4, <2>1, <2>2
<1>5. CASE c # 0
  <2> DEFINE b == c - 1
  <2>1. b \in Nat /\ b + 1 = c
    BY <1>5
  <2>2. ThreadIds!First(c) = ChunkSize * 2 ^ b /\ ThreadIds!ChunkLength(c) = ChunkSize * 2 ^ b
    BY <1>5, Zenon DEF ThreadIds!First, ThreadIds!ChunkLength
  <2> HIDE DEF b
  <2>3. 2 ^ (b + 1) = 2 * 2 ^ b /\ 2 ^ b \in Nat /\ 2 ^ b >= 1
    BY <2>1, PowerStep, PowerType, PowerPositive
  <2>4. PICK x \in Nat : x = 2 ^ b /\ x >= 1
    BY <2>3
  <2>5. 2 ^ c = 2 * x
    BY <2>1, <2>3, <2>4
  <2>6. ChunkSize * x \in Nat /\ ChunkSize * x >= 1 /\ ChunkSize * (2 * x) = ChunkSize * x + ChunkSize * x
    <3>1. ChunkSize * 1 <= ChunkSize * x
      BY <1>1, <2>4, TimesMonotone
    <3> QED BY <1>1, <2>4, <3>1
  <2> QED BY <1>3, <1>5, <2>2, <2>4, <2>5, <2>6
<1> QED BY <1>4, <1>5

LEMMA ChunkFits ==
  /\ ChunkSize * 2 ^ (Chunks - 1) \in Nat
  /\ \A c \in ThreadIds!ChunkIds :
       /\ c \in Nat
       /\ ThreadIds!First(c) + ThreadIds!ChunkLength(c) <= ChunkSize * 2 ^ (Chunks - 1)
<1> DEFINE most == Chunks - 1
<1>1. most \in Nat /\ ChunkSize \in Nat
  BY IdsOK
<1>2. 2 ^ most \in Nat
  BY <1>1, PowerType
<1>3. ASSUME NEW c \in ThreadIds!ChunkIds
      PROVE  c \in Nat /\ ThreadIds!First(c) + ThreadIds!ChunkLength(c) <= ChunkSize * 2 ^ most
  <2>1. c \in Nat /\ most - c \in Nat /\ c + (most - c) = most
    BY <1>1, <1>3 DEF ThreadIds!ChunkIds
  <2>2. 2 ^ c <= 2 ^ (c + (most - c)) /\ 2 ^ c \in Nat
    BY <2>1, PowerMonotone, PowerType
  <2>3. 2 ^ c <= 2 ^ most
    BY <2>1, <2>2
  <2>4. ChunkSize * 2 ^ c <= ChunkSize * 2 ^ most
    BY <1>1, <1>2, <2>2, <2>3, TimesMonotone
  <2>5. ChunkSize * 2 ^ c = ThreadIds!First(c) + ThreadIds!ChunkLength(c)
    BY <2>1, ChunkBounds
  <2> QED BY <2>1, <2>4, <2>5
<1>4. ChunkSize * 2 ^ most \in Nat
  BY <1>1, <1>2
<1> QED BY <1>3, <1>4

LEMMA ChunkOfId ==
  ASSUME NEW i \in ThreadIds!Ids
  PROVE  LET c == ThreadIds!ChunkOf(i)
         IN  /\ c \in ThreadIds!ChunkIds
             /\ ThreadIds!First(c) <= i /\ i < ThreadIds!First(c) + ThreadIds!ChunkLength(c)
<1> DEFINE T == {c \in ThreadIds!ChunkIds : i < ChunkSize * 2 ^ c}
           c == ThreadIds!ChunkOf(i)
<1>1. T \subseteq Nat /\ T # {}
  <2>1. Chunks - 1 \in ThreadIds!ChunkIds /\ i < ChunkSize * 2 ^ (Chunks - 1)
    BY IdsOK, ChunkFits DEF ThreadIds!ChunkIds, ThreadIds!Ids
  <2> QED BY <2>1 DEF ThreadIds!ChunkIds
<1>2. \E b \in T : \A m \in T : b <= m
  BY <1>1, Least, Zenon
<1>3. \E b \in ThreadIds!ChunkIds :
        i < ChunkSize * 2 ^ b /\ \A m \in ThreadIds!ChunkIds : i < ChunkSize * 2 ^ m => b <= m
  BY <1>2
<1>4. /\ c \in ThreadIds!ChunkIds /\ i < ChunkSize * 2 ^ c
      /\ \A m \in ThreadIds!ChunkIds : i < ChunkSize * 2 ^ m => c <= m
  BY <1>3, Zenon DEF ThreadIds!ChunkOf
<1> HIDE DEF c
<1>5. c \in Nat /\ i \in Nat
  BY <1>4, ChunkFits DEF ThreadIds!Ids
<1>6. i < ThreadIds!First(c) + ThreadIds!ChunkLength(c)
  BY <1>4, <1>5, ChunkBounds
<1>7. ThreadIds!First(c) <= i
  <2>1. CASE c = 0
    BY <1>5, <2>1 DEF ThreadIds!First
  <2>2. CASE c # 0
    <3> DEFINE b == c - 1
    <3>1. b \in ThreadIds!ChunkIds /\ b \in Nat /\ b + 1 = c /\ ~ (c <= b)
      BY <1>4, <1>5, <2>2, IdsOK DEF ThreadIds!ChunkIds
    <3> HIDE DEF b
    <3>2. ~ (i < ChunkSize * 2 ^ b)
      BY <1>4, <3>1
    <3>3. ThreadIds!First(c) = ChunkSize * 2 ^ b /\ ThreadIds!First(c) \in Nat
      BY <1>5, <3>1, ChunkBounds
    <3> QED BY <1>5, <3>2, <3>3
  <2> QED BY <2>1, <2>2
<1> QED BY <1>4, <1>6, <1>7 DEF c

-----------------------------------------------------------------------------
(* The inductive invariant of the thread ids: the pool ...                 *)
IdRefs   == ThreadIds!Ids \cup {Nobody}
IdPlaces == {"unborn", "fresh", "lock", "next", "pop", "live", "push", "use", "grow", "each",
             "walked", "build", "store"}
Bearing  == {"live", "push", "use", "grow", "each", "walked", "build", "store"}
WalkSet  == [num : Nat, chunk : Nat, seen : SUBSET Nat]

IdTypes ==
  /\ num_thread_ids \in Nat
  /\ available_ids \in IdRefs
  /\ next \in [ThreadIds!Ids -> IdRefs]
  /\ pc \in [Trio -> IdPlaces]
  /\ id \in [Trio -> IdRefs]
  /\ current \in [Trio -> IdRefs]
  /\ nxt \in [Trio -> IdRefs]
  /\ built \in [ThreadIds!ChunkIds -> Nat]
  /\ published \in SUBSET ThreadIds!ChunkIds
  /\ element \in [ThreadIds!Ids -> Int \cup {Nobody}]
  /\ walk \in [Trio -> WalkSet]

(* An id is a thread's or on the list f of those that are free, the last   *)
(* one first; a thread takes one only under the lock.                      *)
IdAt(f, i) == IF i = 0 THEN Nobody ELSE f[i]

ListOfIds(f) ==
  /\ available_ids = IdAt(f, Len(f))
  /\ \A i \in 1 .. Len(f) : next[f[i]] = IdAt(f, i - 1) /\ f[i] < num_thread_ids
  /\ \A i, m \in 1 .. Len(f) : f[i] = f[m] => i = m
  /\ \A t \in Trio, i \in 1 .. Len(f) : f[i] # id[t]

IdsPlaced ==
  \A t \in Trio :
    /\ pc[t] \in Bearing <=> id[t] # Nobody
    /\ pc[t] \in {"next", "pop"} <=> pool_mutex = t
    /\ id[t] # Nobody => id[t] < num_thread_ids

Taking(f) ==
  \A t \in Trio :
    /\ pc[t] = "next" => current[t] = Nobody \/ \E i \in 1 .. Len(f) : f[i] = current[t]
    /\ pc[t] = "pop" => \E i \in 1 .. Len(f) : f[i] = current[t] /\ nxt[t] = IdAt(f, i - 1)

IdsOfOne == \A t, u \in Trio : id[t] = id[u] /\ id[t] # Nobody => t = u

IdsAllKnown(f) ==
  \A i \in 0 .. num_thread_ids - 1 :
    (\E m \in 1 .. Len(f) : f[m] = i) \/ (\E t \in Trio : id[t] = i)

(* A thread goes on to make a new id only if it has found none free.       *)
Going  == {t \in Trio : pc[t] = "fresh" \/ (pc[t] = "next" /\ current[t] = Nobody)}
NoMore == num_thread_ids + Cardinality(Going) <= Cardinality(Trio)

PoolBody(f) ==
  f \in Seq(ThreadIds!Ids) /\ ListOfIds(f) /\ Taking(f) /\ IdsAllKnown(f)

PoolInv == IdTypes /\ IdsPlaced /\ IdsOfOne /\ NoMore /\ \E f : PoolBody(f)

(* ... and the chunks: what a walk has seen, and what one builds.          *)
WalkOf(t) ==
  /\ pc[t] \notin {"each", "walked", "grow", "build", "store"} => ~ ThreadIds!Walking(t)
  /\ pc[t] \in {"each", "walked"} => ThreadIds!Walking(t)
  /\ pc[t] \in {"grow", "build", "store"} /\ ThreadIds!Walking(t) =>
       ThreadIds!First(walk[t].chunk) < walk[t].num
  /\ pc[t] = "walked" => ThreadIds!First(walk[t].chunk) >= walk[t].num
  /\ ThreadIds!Walking(t) =>
       /\ walk[t].num \in 1 .. num_thread_ids
       /\ walk[t].seen = {i \in 0 .. walk[t].num - 1 : i < ThreadIds!First(walk[t].chunk)}
       /\ \A c \in Nat : c < walk[t].chunk => c \in published
  /\ pc[t] = "use" => ThreadIds!ChunkOf(id[t]) \in published

WalkInv == \A t \in Trio : WalkOf(t)

(* Chunks are built one at a time, and a chunk there is complete.          *)
Builds(t) ==
  /\ pc[t] \in {"build", "store"} <=> growing_mutex = t
  /\ pc[t] = "build" =>
       /\ ThreadIds!Wanted(t) \notin published
       /\ built[ThreadIds!Wanted(t)] < ThreadIds!ChunkLength(ThreadIds!Wanted(t))
  /\ pc[t] = "store" =>
       built[ThreadIds!Wanted(t)] = ThreadIds!ChunkLength(ThreadIds!Wanted(t))

BuiltOf(c) ==
  /\ built[c] <= ThreadIds!ChunkLength(c)
  /\ c \in published => built[c] = ThreadIds!ChunkLength(c)
  /\ c \notin published /\ built[c] # 0 =>
       \E t \in Trio : pc[t] \in {"build", "store"} /\ ThreadIds!Wanted(t) = c
  /\ \A i \in Nat : ThreadIds!First(c) <= i /\ i < ThreadIds!First(c) + built[c] => element[i] = i

BuildInv ==
  /\ \A t \in Trio : Builds(t)
  /\ \A c \in ThreadIds!ChunkIds : BuiltOf(c)
  /\ 0 \in published

IdsInv == PoolInv /\ WalkInv /\ BuildInv

(* What a step of one part leaves alone: the pool's of the chunks ...      *)
LEMMA IdsQuiet ==
  ASSUME PoolInv, NEW t \in Trio, NEW l \in Bearing, pc[t] \in Bearing,
         pc' = [pc EXCEPT ![t] = l], IdTypes',
         UNCHANGED <<num_thread_ids, available_ids, next, pool_mutex, id, current, nxt>>
  PROVE  PoolInv'
<1>1. \A u \in Trio : pc'[u] = pc[u] \/ (u = t /\ pc[u] \in Bearing /\ pc'[u] \in Bearing)
  BY DEF PoolInv, IdTypes
<1>2. \A u \in Trio : /\ pc'[u] \in Bearing <=> pc[u] \in Bearing
                      /\ pc'[u] = "next" <=> pc[u] = "next"
                      /\ pc'[u] = "pop" <=> pc[u] = "pop"
                      /\ pc'[u] = "fresh" <=> pc[u] = "fresh"
  BY <1>1 DEF Bearing
<1>3. IdsPlaced' /\ IdsOfOne'
  BY <1>2 DEF PoolInv, IdsPlaced, IdsOfOne
<1>4. NoMore'
  <2>1. Going' = Going
    BY <1>2 DEF Going
  <2> QED BY <2>1 DEF PoolInv, NoMore
<1>5. \E f : PoolBody(f)'
  <2>1. PICK f : PoolBody(f)
    BY DEF PoolInv
  <2>2. ListOfIds(f)' /\ IdsAllKnown(f)'
    BY <2>1 DEF PoolBody, ListOfIds, IdsAllKnown, IdAt
  <2>3. Taking(f)'
    BY <1>2, <2>1 DEF PoolBody, Taking, IdAt
  <2> QED BY <2>1, <2>2, <2>3 DEF PoolBody
<1> QED BY <1>3, <1>4, <1>5 DEF PoolInv

(* ... and the chunks' of the pool.                                        *)
LEMMA ChunksQuiet ==
  ASSUME IdTypes, WalkInv, BuildInv, NEW t \in Trio,
         NEW l \in {"unborn", "fresh", "lock", "next", "pop", "live", "push"},
         pc[t] \in {"unborn", "fresh", "lock", "next", "pop", "live", "push"},
         pc' = [pc EXCEPT ![t] = l],
         UNCHANGED <<built, published, growing_mutex, element, walk>>,
         num_thread_ids' \in Nat, num_thread_ids' >= num_thread_ids,
         \A u \in Trio : u # t => id'[u] = id[u]
  PROVE  WalkInv' /\ BuildInv'
<1>1. \A u \in Trio : u # t => pc'[u] = pc[u] /\ id'[u] = id[u]
  BY DEF IdTypes
<1>2. pc'[t] = l
  BY DEF IdTypes
<1>3. \A u \in Trio : ThreadIds!Walking(u)' = ThreadIds!Walking(u)
  BY DEF ThreadIds!Walking
<1>4. \A u \in Trio : u # t => ThreadIds!Wanted(u)' = ThreadIds!Wanted(u)
  <2> SUFFICES ASSUME NEW u \in Trio, u # t PROVE ThreadIds!Wanted(u)' = ThreadIds!Wanted(u)
    OBVIOUS
  <2>1. id'[u] = id[u] /\ walk'[u] = walk[u]
    BY <1>1
  <2> QED BY <1>3, <2>1, Zenon DEF ThreadIds!Wanted
<1>5. WalkInv'
  <2> SUFFICES ASSUME NEW u \in Trio PROVE WalkOf(u)'
    BY DEF WalkInv
  <2>1. walk[u].num \in Nat /\ num_thread_ids \in Nat
    BY DEF IdTypes, WalkSet
  <2>2. CASE u = t
    BY <1>2, <1>3, <2>1, <2>2 DEF WalkInv, WalkOf
  <2>3. CASE u # t
    BY <1>1, <1>3, <2>1, <2>3 DEF WalkInv, WalkOf, ThreadIds!ChunkOf
  <2> QED BY <2>2, <2>3
<1>6. ASSUME NEW u \in Trio PROVE Builds(u)'
  <2>1. CASE u = t
    BY <1>2, <2>1 DEF BuildInv, Builds
  <2>2. CASE u # t
    BY <1>1, <1>4, <2>2 DEF BuildInv, Builds
  <2> QED BY <2>1, <2>2
<1>7. ASSUME NEW c \in ThreadIds!ChunkIds PROVE BuiltOf(c)'
  <2>1. ASSUME NEW u \in Trio, pc[u] \in {"build", "store"}, ThreadIds!Wanted(u) = c
        PROVE  pc'[u] \in {"build", "store"} /\ ThreadIds!Wanted(u)' = c
    BY <1>1, <1>4, <2>1
  <2> QED BY <2>1 DEF BuildInv, BuiltOf
<1> QED BY <1>5, <1>6, <1>7 DEF BuildInv

LEMMA IdsNumbers == ThreadIds!Ids \subseteq Nat /\ Nobody \notin ThreadIds!Ids
<1>1. ThreadIds!Ids \subseteq Nat
  <2>1. PICK most \in Nat : most = ChunkSize * 2 ^ (Chunks - 1)
    BY ChunkFits
  <2> QED BY <2>1 DEF ThreadIds!Ids
<1> QED BY <1>1, IdsOK, Zenon

(* Cardinalities are those of subsets of Trio.                             *)
LEMMA SubTrio ==
  ASSUME NEW S \in SUBSET Trio
  PROVE  /\ IsFiniteSet(S) /\ Cardinality(S) \in Nat
         /\ Cardinality(Trio) \in Nat /\ Cardinality(S) <= Cardinality(Trio)
         /\ \A R \in SUBSET S : Cardinality(R) \in Nat /\ Cardinality(R) <= Cardinality(S)
<1>1. IsFiniteSet(Trio)
  BY IdsOK
<1>2. IsFiniteSet(S) /\ Cardinality(S) <= Cardinality(Trio)
  BY <1>1, FS_Subset
<1>3. Cardinality(S) \in Nat /\ Cardinality(Trio) \in Nat
  BY <1>1, <1>2, FS_CardinalityType
<1>4. ASSUME NEW R \in SUBSET S PROVE Cardinality(R) \in Nat /\ Cardinality(R) <= Cardinality(S)
  <2>1. IsFiniteSet(R) /\ Cardinality(R) <= Cardinality(S)
    BY <1>2, FS_Subset
  <2> QED BY <2>1, FS_CardinalityType
<1> QED BY <1>2, <1>3, <1>4

(* While no id is free there is one for each of the threads that have      *)
(* none: every id there is has a holder of its own.                        *)
LEMMA RoomForOne ==
  ASSUME PoolInv, NEW t \in Trio, id[t] = Nobody, t \notin Going, available_ids = Nobody
  PROVE  num_thread_ids + Cardinality(Going \cup {t}) <= Cardinality(Trio)
<1> DEFINE H == {u \in Trio : id[u] # Nobody}
           I == 0 .. num_thread_ids - 1
<1>1. num_thread_ids \in Nat
  BY DEF PoolInv, IdTypes
<1>2. \A i \in I : \E u \in H : id[u] = i
  <2>1. PICK f : PoolBody(f)
    BY DEF PoolInv
  <2>2. Len(f) = 0
    <3>1. Len(f) \in Nat /\ \A m \in 1 .. Len(f) : f[m] \in Nat
      <4>1. f \in Seq(ThreadIds!Ids)
        BY <2>1 DEF PoolBody
      <4>2. Len(f) \in Nat /\ \A m \in 1 .. Len(f) : f[m] \in ThreadIds!Ids
        BY <4>1
      <4> QED BY <4>2, IdsNumbers, Zenon
    <3>2. Nobody \notin Nat
      BY IdsOK
    <3> QED BY <2>1, <3>1, <3>2 DEF PoolBody, ListOfIds, IdAt
  <2>3. ASSUME NEW i \in I PROVE \E u \in Trio : id[u] = i
    <3>1. ~ \E m \in 1 .. Len(f) : f[m] = i
      BY <2>2
    <3> QED BY <2>1, <3>1 DEF PoolBody, IdsAllKnown
  <2>4. \A i \in I : i # Nobody
    BY <1>1, IdsOK
  <2> QED BY <2>3, <2>4
<1>3. IsFiniteSet(I) /\ Cardinality(I) = num_thread_ids
  BY <1>1, FS_Interval
<1>4. IsFiniteSet(H) /\ H \subseteq Trio
  BY SubTrio
<1>5. Cardinality(I) <= Cardinality(H)
  <2> DEFINE g == [i \in I |-> CHOOSE u \in H : id[u] = i]
  <2>1. \A i \in I : g[i] \in H /\ id[g[i]] = i
    BY <1>2
  <2>2. g \in [I -> H]
    BY <2>1
  <2> HIDE DEF g, H, I
  <2>3. \A i, m \in I : g[i] = g[m] => i = m
    BY <2>1
  <2>4. g \in Injection(I, H)
    BY <2>2, <2>3 DEF Injection, IsInjective
  <2> QED BY <1>4, <2>4, FS_Injection
<1>6. Going \cap {t} = {} /\ (Going \cup {t}) \cap H = {} /\ Going \cup {t} \subseteq Trio
  BY DEF Going, PoolInv, IdsPlaced, Bearing
<1> DEFINE G == Going \cup {t}
<1>7. IsFiniteSet(G) /\ G \cap H = {} /\ G \cup H \subseteq Trio
  BY <1>4, <1>6, SubTrio
<1> HIDE DEF G, H, I
<1>8. Cardinality(G \cup H) = Cardinality(G) + Cardinality(H) - Cardinality({})
  BY <1>4, <1>7, FS_Union
<1>9. Cardinality({}) = 0 /\ Cardinality(G) \in Nat /\ Cardinality(H) \in Nat
  BY <1>4, <1>7, FS_EmptySet, FS_CardinalityType
<1>10. Cardinality(G \cup H) <= Cardinality(Trio) /\ Cardinality(Trio) \in Nat
  BY <1>7, SubTrio
<1>11. num_thread_ids + Cardinality(G) <= Cardinality(Trio)
  BY <1>1, <1>3, <1>5, <1>8, <1>9, <1>10
<1> QED BY <1>11 DEF G

(* A thread that looks for an id among those that are free.                *)
LEMMA IdsTaker ==
  ASSUME PoolInv, NEW t \in Trio, NEW l \in {"fresh", "lock", "next", "pop"},
         pc[t] \in {"unborn", "lock", "next", "pop"}, pc' = [pc EXCEPT ![t] = l],
         UNCHANGED <<num_thread_ids, available_ids, next, id>>,
         UNCHANGED <<built, published, element, walk>>,
         current' \in [Trio -> IdRefs], nxt' \in [Trio -> IdRefs],
         \A u \in Trio : u # t => current'[u] = current[u] /\ nxt'[u] = nxt[u],
         l \in {"next", "pop"} => pool_mutex \in {Nobody, t} /\ pool_mutex' = t,
         l \notin {"next", "pop"} => pool_mutex' = IF pool_mutex = t THEN Nobody ELSE pool_mutex,
         l = "next" => current'[t] = available_ids /\ t \notin Going,
         l = "fresh" => available_ids = Nobody \/ t \in Going,
         l = "pop" => /\ pc[t] = "next" /\ current[t] # Nobody
                      /\ current'[t] = current[t] /\ nxt'[t] = next[current[t]]
  PROVE  PoolInv'
<1>1. IdTypes'
  BY Zenon DEF PoolInv, IdTypes, IdPlaces
<1>2. pc'[t] = l /\ \A u \in Trio : u # t => pc'[u] = pc[u]
  BY DEF PoolInv, IdTypes
<1>3. Nobody \notin Trio /\ id[t] = Nobody
  BY IdsOK DEF PoolInv, IdsPlaced, Bearing
<1>4. IdsPlaced'
  <2> SUFFICES ASSUME NEW u \in Trio
               PROVE  /\ pc'[u] \in Bearing <=> id[u] # Nobody
                      /\ pc'[u] \in {"next", "pop"} <=> pool_mutex' = u
                      /\ id[u] # Nobody => id[u] < num_thread_ids
    BY DEF IdsPlaced
  <2>1. CASE u = t
    BY <1>2, <1>3, <2>1 DEF PoolInv, IdsPlaced, Bearing
  <2>2. CASE u # t
    BY <1>2, <1>3, <2>2 DEF PoolInv, IdsPlaced
  <2> QED BY <2>1, <2>2
<1>5. IdsOfOne'
  BY DEF PoolInv, IdsOfOne
<1>6. NoMore'
  <2>1. Going' \subseteq Going \/ (Going' = Going \cup {t} /\ t \notin Going /\ available_ids = Nobody)
    BY <1>2 DEF Going
  <2>2. CASE Going' \subseteq Going
    <3>1. Cardinality(Going') <= Cardinality(Going) /\ Cardinality(Going) \in Nat
          /\ Cardinality(Going') \in Nat /\ Cardinality(Trio) \in Nat
      <4>1. Going \in SUBSET Trio
        BY DEF Going
      <4> QED BY <2>2, <4>1, SubTrio
    <3> QED BY <3>1 DEF PoolInv, NoMore, IdTypes
  <2>3. CASE Going' = Going \cup {t} /\ t \notin Going /\ available_ids = Nobody
    <3>1. num_thread_ids + Cardinality(Going \cup {t}) <= Cardinality(Trio)
      BY <1>3, <2>3, RoomForOne
    <3> QED BY <2>3, <3>1 DEF NoMore
  <2> QED BY <2>1, <2>2, <2>3
<1>7. \E f : PoolBody(f)'
  <2>1. PICK f : PoolBody(f)
    BY DEF PoolInv
  <2>2. ListOfIds(f)' /\ IdsAllKnown(f)'
    BY <2>1 DEF PoolBody, ListOfIds, IdsAllKnown, IdAt
  <2>3. ASSUME NEW u \in Trio, u # t
        PROVE  /\ pc'[u] = "next" => current'[u] = Nobody \/ \E i \in 1 .. Len(f) : f[i] = current'[u]
               /\ pc'[u] = "pop" => \E i \in 1 .. Len(f) : f[i] = current'[u] /\ nxt'[u] = IdAt(f, i - 1)
    BY <1>2, <2>1, <2>3 DEF PoolBody, Taking
  <2>4. l = "next" => current'[t] = Nobody \/ \E i \in 1 .. Len(f) : f[i] = current'[t]
    <3>1. available_ids = Nobody \/ \E i \in 1 .. Len(f) : f[i] = available_ids
      <4>1. Len(f) \in Nat
        BY <2>1 DEF PoolBody
      <4> QED BY <2>1, <4>1 DEF PoolBody, ListOfIds, IdAt
    <3> QED BY <3>1
  <2>5. l = "pop" => \E i \in 1 .. Len(f) : f[i] = current'[t] /\ nxt'[t] = IdAt(f, i - 1)
    <3> SUFFICES ASSUME l = "pop"
                 PROVE \E i \in 1 .. Len(f) : f[i] = current'[t] /\ nxt'[t] = IdAt(f, i - 1)
      OBVIOUS
    <3>1. PICK i \in 1 .. Len(f) : f[i] = current[t]
      BY <2>1 DEF PoolBody, Taking
    <3>2. next[f[i]] = IdAt(f, i - 1)
      BY <2>1 DEF PoolBody, ListOfIds
    <3> QED BY <3>1, <3>2
  <2>6. Taking(f)'
    <3> SUFFICES ASSUME NEW u \in Trio
                 PROVE  /\ pc'[u] = "next" => current'[u] = Nobody \/ \E i \in 1 .. Len(f) : f[i] = current'[u]
                        /\ pc'[u] = "pop" => \E i \in 1 .. Len(f) : f[i] = current'[u] /\ nxt'[u] = IdAt(f, i - 1)
      BY DEF Taking, IdAt
    <3> QED BY <1>2, <2>3, <2>4, <2>5
  <2> QED BY <2>1, <2>2, <2>6 DEF PoolBody
<1> QED BY <1>1, <1>4, <1>5, <1>6, <1>7 DEF PoolInv

LEMMA IdsAcquireStep == ASSUME IdsInv, NEW t \in Trio, ThreadIds!Acquire(t) PROVE IdsInv'
<1> DEFINE l == IF available_ids = Nobody THEN "fresh" ELSE "lock"
<1>1. pc[t] = "unborn" /\ pc' = [pc EXCEPT ![t] = l]
  BY DEF ThreadIds!Acquire, ThreadIds!At, ThreadIds!Goto
<1>2. UNCHANGED <<num_thread_ids, available_ids, next, pool_mutex, id, current, nxt>>
  BY DEF ThreadIds!Acquire, ThreadIds!pool, ThreadIds!local
<1>3. UNCHANGED <<built, published, growing_mutex, element, walk>>
  BY DEF ThreadIds!Acquire, ThreadIds!list
<1>4. l \in {"fresh", "lock"} /\ (l = "fresh" => available_ids = Nobody)
  OBVIOUS
<1>5. pool_mutex # t /\ IdTypes /\ current' = current /\ nxt' = nxt
  BY <1>1, <1>2 DEF IdsInv, PoolInv, IdsPlaced
<1> HIDE DEF l
<1>6. PoolInv'
  <2>1. l # "next" /\ l # "pop" /\ l \notin {"next", "pop"}
    BY <1>4
  <2>2. current' \in [Trio -> IdRefs] /\ nxt' \in [Trio -> IdRefs]
    BY <1>5 DEF IdTypes
  <2> QED BY <1>1, <1>2, <1>3, <1>4, <1>5, <2>1, <2>2, IdsTaker, Zenon DEF IdsInv
<1>7. WalkInv' /\ BuildInv'
  <2>1. num_thread_ids' \in Nat /\ num_thread_ids' >= num_thread_ids
    BY <1>2, <1>5 DEF IdTypes
  <2> QED BY <1>1, <1>2, <1>3, <1>4, <1>5, <2>1, ChunksQuiet, Zenon DEF IdsInv
<1> QED BY <1>6, <1>7 DEF IdsInv

LEMMA IdsLockStep == ASSUME IdsInv, NEW t \in Trio, ThreadIds!LockPool(t) PROVE IdsInv'
<1>1. pc[t] = "lock" /\ pc' = [pc EXCEPT ![t] = "next"] /\ pool_mutex = Nobody /\ pool_mutex' = t
  BY DEF ThreadIds!LockPool, ThreadIds!At, ThreadIds!Goto
<1>2. UNCHANGED <<num_thread_ids, available_ids, next, id, nxt>>
      /\ current' = [current EXCEPT ![t] = available_ids]
  BY DEF ThreadIds!LockPool
<1>3. UNCHANGED <<built, published, growing_mutex, element, walk>>
  BY DEF ThreadIds!LockPool, ThreadIds!list
<1>4. IdTypes
  BY DEF IdsInv, PoolInv
<1>5. PoolInv'
  <2>1. /\ current' \in [Trio -> IdRefs] /\ current'[t] = available_ids
        /\ \A u \in Trio : u # t => current'[u] = current[u]
        /\ nxt' \in [Trio -> IdRefs] /\ \A u \in Trio : nxt'[u] = nxt[u]
    BY <1>2, <1>4 DEF IdTypes
  <2>2. t \notin Going
    BY <1>1 DEF Going
  <2> QED BY <1>1, <1>2, <1>3, <2>1, <2>2, IdsTaker, Zenon DEF IdsInv
<1>6. WalkInv' /\ BuildInv'
  <2>1. num_thread_ids' \in Nat /\ num_thread_ids' >= num_thread_ids
    BY <1>2, <1>4 DEF IdTypes
  <2> QED BY <1>1, <1>2, <1>3, <1>4, <2>1, ChunksQuiet, Zenon DEF IdsInv
<1> QED BY <1>5, <1>6 DEF IdsInv

LEMMA IdsLoadNextStep == ASSUME IdsInv, NEW t \in Trio, ThreadIds!LoadNext(t) PROVE IdsInv'
<1> DEFINE l == IF current[t] = Nobody THEN "fresh" ELSE "pop"
<1>1. pc[t] = "next" /\ pc' = [pc EXCEPT ![t] = l]
  BY DEF ThreadIds!LoadNext, ThreadIds!At, ThreadIds!Goto
<1>2. UNCHANGED <<num_thread_ids, available_ids, next, id, current>>
  BY DEF ThreadIds!LoadNext
<1>3. UNCHANGED <<built, published, growing_mutex, element, walk>>
  BY DEF ThreadIds!LoadNext, ThreadIds!list
<1>4. IdTypes /\ pool_mutex = t
  BY <1>1 DEF IdsInv, PoolInv, IdsPlaced
<1>5. current[t] = Nobody => pool_mutex' = Nobody /\ nxt' = nxt
  BY <1>4 DEF ThreadIds!LoadNext, ThreadIds!Unlock
<1>6. current[t] # Nobody => pool_mutex' = t /\ nxt' = [nxt EXCEPT ![t] = next[current[t]]]
  BY <1>4 DEF ThreadIds!LoadNext
<1>7. /\ l = "fresh" <=> current[t] = Nobody
      /\ l = "pop" <=> current[t] # Nobody
      /\ l \in {"fresh", "pop"}
  OBVIOUS
<1> HIDE DEF l
<1>8. PoolInv'
  <2>1. nxt' \in [Trio -> IdRefs] /\ \A u \in Trio : u # t => nxt'[u] = nxt[u]
    <3>1. current[t] # Nobody => next[current[t]] \in IdRefs
      BY <1>4 DEF IdTypes, IdRefs
    <3> QED BY <1>4, <1>5, <1>6, <3>1 DEF IdTypes
  <2>2. l = "pop" => nxt'[t] = next[current[t]]
    BY <1>4, <1>6, <1>7 DEF IdTypes
  <2>3. l = "fresh" => t \in Going
    BY <1>1, <1>7 DEF Going
  <2>4. current' = current /\ current' \in [Trio -> IdRefs]
    BY <1>2, <1>4 DEF IdTypes
  <2>5. l \in {"next", "pop"} => pool_mutex \in {Nobody, t} /\ pool_mutex' = t
    BY <1>4, <1>6, <1>7
  <2>6. l \notin {"next", "pop"} => pool_mutex' = IF pool_mutex = t THEN Nobody ELSE pool_mutex
    BY <1>4, <1>5, <1>7
  <2>7. l # "next" /\ l \in {"fresh", "lock", "next", "pop"}
    BY <1>7
  <2> QED BY <1>1, <1>2, <1>3, <1>7, <2>1, <2>2, <2>3, <2>4, <2>5, <2>6, <2>7, IdsTaker, Zenon DEF IdsInv
<1>9. WalkInv' /\ BuildInv'
  <2>1. num_thread_ids' \in Nat /\ num_thread_ids' >= num_thread_ids
    BY <1>2, <1>4 DEF IdTypes
  <2> QED BY <1>1, <1>2, <1>3, <1>4, <1>7, <2>1, ChunksQuiet, Zenon DEF IdsInv
<1> QED BY <1>8, <1>9 DEF IdsInv

(* The list of the free ids, of any length.                                *)
LEMMA FreeIds ==
  ASSUME IdTypes, NEW f, PoolBody(f)
  PROVE  /\ f \in Seq(ThreadIds!Ids) /\ Len(f) \in Nat
         /\ \A i \in 1 .. Len(f) : f[i] \in ThreadIds!Ids /\ f[i] \in Nat /\ f[i] # Nobody
<1>1. f \in Seq(ThreadIds!Ids)
  BY DEF PoolBody
<1>2. Len(f) \in Nat /\ \A i \in 1 .. Len(f) : f[i] \in ThreadIds!Ids
  BY <1>1
<1> QED BY <1>1, <1>2, IdsNumbers, Zenon

LEMMA IdsPopStep == ASSUME IdsInv, NEW t \in Trio, ThreadIds!Pop(t) PROVE IdsInv'
<1>1. pc[t] = "pop" /\ IdTypes /\ pool_mutex = t /\ id[t] = Nobody
  BY DEF ThreadIds!Pop, ThreadIds!At, IdsInv, PoolInv, IdsPlaced, Bearing
<1>2. UNCHANGED <<num_thread_ids, next, built, published, growing_mutex, element, walk>>
  BY DEF ThreadIds!Pop, ThreadIds!list
<1>3. nxt' = [nxt EXCEPT ![t] = Nobody] /\ nxt' \in [Trio -> IdRefs]
  BY <1>1 DEF ThreadIds!Pop, IdTypes, IdRefs
<1>4. num_thread_ids' \in Nat /\ num_thread_ids' >= num_thread_ids
  BY <1>1, <1>2 DEF IdTypes
<1>5. CASE available_ids # current[t]
  <2>1. pc' = [pc EXCEPT ![t] = "next"] /\ current' = [current EXCEPT ![t] = available_ids]
        /\ UNCHANGED <<available_ids, id, pool_mutex>>
    BY <1>5 DEF ThreadIds!Pop, ThreadIds!Goto
  <2>2. PoolInv'
    <3>1. /\ current' \in [Trio -> IdRefs] /\ current'[t] = available_ids
          /\ \A u \in Trio : u # t => current'[u] = current[u] /\ nxt'[u] = nxt[u]
      BY <1>1, <1>3, <2>1 DEF IdTypes
    <3>2. t \notin Going
      BY <1>1 DEF Going
    <3> QED BY <1>1, <1>2, <1>3, <2>1, <3>1, <3>2, IdsTaker, Zenon DEF IdsInv
  <2>3. WalkInv' /\ BuildInv'
    BY <1>1, <1>2, <1>4, <2>1, ChunksQuiet, Zenon DEF IdsInv
  <2> QED BY <2>2, <2>3 DEF IdsInv
<1>6. CASE available_ids = current[t]
  <2>1. /\ available_ids' = nxt[t] /\ id' = [id EXCEPT ![t] = current[t]]
        /\ current' = [current EXCEPT ![t] = Nobody] /\ pool_mutex' = Nobody
        /\ pc' = [pc EXCEPT ![t] = "live"]
    BY <1>1, <1>6 DEF ThreadIds!Pop, ThreadIds!Unlock, ThreadIds!Goto
  <2>2. PICK f : PoolBody(f)
    BY DEF IdsInv, PoolInv
  <2>3. /\ f \in Seq(ThreadIds!Ids) /\ Len(f) \in Nat
        /\ \A i \in 1 .. Len(f) : f[i] \in ThreadIds!Ids /\ f[i] \in Nat /\ f[i] # Nobody
    BY <1>1, <2>2, FreeIds
  <2>4. Len(f) \in 1 .. Len(f) /\ f[Len(f)] = current[t] /\ nxt[t] = IdAt(f, Len(f) - 1)
    <3>1. PICK k \in 1 .. Len(f) : f[k] = current[t] /\ nxt[t] = IdAt(f, k - 1)
      BY <1>1, <2>2 DEF PoolBody, Taking
    <3>2. Len(f) \in 1 .. Len(f) /\ f[Len(f)] = current[t]
      BY <1>6, <2>2, <2>3, <3>1 DEF PoolBody, ListOfIds, IdAt
    <3>3. k = Len(f)
      BY <2>2, <3>1, <3>2 DEF PoolBody, ListOfIds
    <3> QED BY <3>1, <3>2, <3>3
  <2> DEFINE g == [i \in 1 .. Len(f) - 1 |-> f[i]]
  <2>5. /\ g \in Seq(ThreadIds!Ids) /\ Len(g) = Len(f) - 1 /\ Len(g) \in Nat
        /\ \A i \in 1 .. Len(g) : g[i] = f[i] /\ i \in 1 .. Len(f)
    <3>1. PICK k \in Nat : k = Len(f) - 1
      BY <2>3, <2>4
    <3>2. g = [i \in 1 .. k |-> f[i]] /\ \A i \in 1 .. k : i \in 1 .. Len(f) /\ f[i] \in ThreadIds!Ids
      BY <2>3, <3>1
    <3> HIDE DEF g
    <3>3. g \in Seq(ThreadIds!Ids) /\ Len(g) = k
      BY <3>2
    <3> QED BY <3>1, <3>2, <3>3
  <2> HIDE DEF g
  <2>6. \A i \in 0 .. Len(g) : IdAt(g, i) = IdAt(f, i)
    BY <2>5 DEF IdAt
  <2>7. current[t] \in ThreadIds!Ids /\ current[t] # Nobody /\ current[t] < num_thread_ids
        /\ nxt[t] \in IdRefs
    <3>1. f[Len(f)] < num_thread_ids
      BY <2>2, <2>4 DEF PoolBody, ListOfIds
    <3> QED BY <1>1, <2>3, <2>4, <3>1 DEF IdTypes
  <2>8. IdTypes'
    BY <1>1, <1>2, <1>3, <2>1, <2>7 DEF IdTypes, IdRefs, IdPlaces
  <2>9. /\ pc'[t] = "live" /\ id'[t] = current[t] /\ current'[t] = Nobody
        /\ \A u \in Trio : u # t => pc'[u] = pc[u] /\ id'[u] = id[u] /\ current'[u] = current[u]
    BY <1>1, <2>1 DEF IdTypes
  <2>10. \A u \in Trio : u # t => pc[u] \notin {"next", "pop"}
    BY <1>1 DEF IdsInv, PoolInv, IdsPlaced
  <2>11. IdsPlaced'
    <3> SUFFICES ASSUME NEW u \in Trio
                 PROVE  /\ pc'[u] \in Bearing <=> id'[u] # Nobody
                        /\ pc'[u] \in {"next", "pop"} <=> pool_mutex' = u
                        /\ id'[u] # Nobody => id'[u] < num_thread_ids'
      BY DEF IdsPlaced
    <3>1. Nobody \notin Trio
      BY IdsOK
    <3>2. CASE u = t
      BY <1>2, <2>1, <2>7, <2>9, <3>1, <3>2 DEF Bearing
    <3>3. CASE u # t
      <4>1. pc[u] \in Bearing <=> id[u] # Nobody
        BY DEF IdsInv, PoolInv, IdsPlaced
      <4>2. id[u] # Nobody => id[u] < num_thread_ids
        BY DEF IdsInv, PoolInv, IdsPlaced
      <4>3. pc'[u] = pc[u] /\ id'[u] = id[u]
        BY <2>9, <3>3
      <4> QED BY <1>2, <2>1, <2>10, <3>1, <3>3, <4>1, <4>2, <4>3
    <3> QED BY <3>2, <3>3
  <2>12. IdsOfOne'
    <3>1. \A u \in Trio : id[u] # current[t]
      BY <2>2, <2>4 DEF PoolBody, ListOfIds
    <3> SUFFICES ASSUME NEW u \in Trio, NEW v \in Trio, id'[u] = id'[v], id'[u] # Nobody PROVE u = v
      BY DEF IdsOfOne
    <3>2. u # t /\ v # t => id[u] = id[v] /\ id[u] # Nobody
      BY <2>9
    <3> QED BY <2>9, <3>1, <3>2 DEF IdsInv, PoolInv, IdsOfOne
  <2>13. NoMore'
    <3>1. Going' = Going
      BY <1>1, <2>9 DEF Going
    <3> QED BY <1>2, <3>1 DEF IdsInv, PoolInv, NoMore
  <2>14. ListOfIds(g)'
    <3>1. available_ids' = IdAt(g, Len(g))
      <4>1. Len(g) \in 0 .. Len(g)
        BY <2>5
      <4> QED BY <2>1, <2>4, <2>5, <2>6, <4>1
    <3>2. ASSUME NEW i \in 1 .. Len(g) PROVE next[g[i]] = IdAt(g, i - 1) /\ g[i] < num_thread_ids
      <4>1. g[i] = f[i] /\ i \in 1 .. Len(f) /\ i - 1 \in 0 .. Len(g)
        BY <2>5
      <4>2. IdAt(g, i - 1) = IdAt(f, i - 1)
        BY <2>6, <4>1
      <4> QED BY <2>2, <4>1, <4>2 DEF PoolBody, ListOfIds
    <3>3. \A i, m \in 1 .. Len(g) : g[i] = g[m] => i = m
      BY <2>2, <2>5 DEF PoolBody, ListOfIds
    <3>4. ASSUME NEW u \in Trio, NEW i \in 1 .. Len(g) PROVE g[i] # id'[u]
      <4>1. g[i] = f[i] /\ i \in 1 .. Len(f) /\ i # Len(f)
        BY <2>3, <2>5
      <4>2. u = t => g[i] # id'[u]
        BY <2>2, <2>4, <2>9, <4>1 DEF PoolBody, ListOfIds
      <4>3. u # t => g[i] # id'[u]
        BY <2>2, <2>9, <4>1 DEF PoolBody, ListOfIds
      <4> QED BY <4>2, <4>3
    <3> QED BY <1>2, <3>1, <3>2, <3>3, <3>4 DEF ListOfIds, IdAt
  <2>15. Taking(g)'
    BY <2>9, <2>10 DEF Taking
  <2>16. IdsAllKnown(g)'
    <3> SUFFICES ASSUME NEW i \in 0 .. num_thread_ids - 1, ~ \E u \in Trio : id'[u] = i
                 PROVE  \E m \in 1 .. Len(g) : g[m] = i
      BY <1>2 DEF IdsAllKnown
    <3>1. i # current[t] /\ i # Nobody
      BY <1>1, <2>9, IdsOK DEF IdTypes
    <3>2. ~ \E u \in Trio : id[u] = i
      BY <1>1, <2>9, <3>1
    <3>3. PICK m \in 1 .. Len(f) : f[m] = i
      BY <2>2, <3>2 DEF PoolBody, IdsAllKnown
    <3>4. m \in 1 .. Len(g)
      BY <2>3, <2>4, <2>5, <3>1, <3>3
    <3> QED BY <2>5, <3>3, <3>4
  <2>17. PoolInv'
    BY <2>5, <2>8, <2>11, <2>12, <2>13, <2>14, <2>15, <2>16 DEF PoolInv, PoolBody
  <2>18. WalkInv' /\ BuildInv'
    BY <1>1, <1>2, <1>4, <2>1, <2>9, ChunksQuiet, Zenon DEF IdsInv
  <2> QED BY <2>17, <2>18 DEF IdsInv
<1> QED BY <1>5, <1>6

LEMMA IdsFreshStep == ASSUME IdsInv, NEW t \in Trio, ThreadIds!Fresh(t) PROVE IdsInv'
<1>1. pc[t] = "fresh" /\ IdTypes /\ id[t] = Nobody
  BY DEF ThreadIds!Fresh, ThreadIds!At, IdsInv, PoolInv, IdsPlaced, Bearing
<1>2. UNCHANGED <<available_ids, next, pool_mutex, current, nxt>>
  BY DEF ThreadIds!Fresh
<1>3. UNCHANGED <<built, published, growing_mutex, element, walk>>
  BY DEF ThreadIds!Fresh, ThreadIds!list
<1>4. /\ num_thread_ids' = num_thread_ids + 1 /\ id' = [id EXCEPT ![t] = num_thread_ids]
      /\ pc' = [pc EXCEPT ![t] = "live"]
  BY DEF ThreadIds!Fresh, ThreadIds!Goto
<1>5. /\ pc'[t] = "live" /\ id'[t] = num_thread_ids
      /\ \A u \in Trio : u # t => pc'[u] = pc[u] /\ id'[u] = id[u]
  BY <1>1, <1>4 DEF IdTypes
<1>6. num_thread_ids \in Nat /\ num_thread_ids # Nobody
  BY <1>1, IdsOK DEF IdTypes
<1>7. num_thread_ids \in ThreadIds!Ids /\ NoMore'
  <2>1. t \in Going /\ Going' = Going \ {t} /\ Going \in SUBSET Trio
    BY <1>1, <1>2, <1>5 DEF Going
  <2>2. IsFiniteSet(Going) /\ Cardinality(Going) \in Nat /\ Cardinality(Trio) \in Nat
    BY <2>1, SubTrio
  <2>3. Cardinality(Going') = Cardinality(Going) - 1
    BY <2>1, <2>2, FS_RemoveElement
  <2>4. Cardinality(Going') \in Nat
    <3>1. Going' \in SUBSET Trio
      BY <2>1
    <3> QED BY <3>1, SubTrio
  <2>5. num_thread_ids + Cardinality(Going) <= Cardinality(Trio)
    BY DEF IdsInv, PoolInv, NoMore
  <2>6. PICK most \in Nat : most = ChunkSize * 2 ^ (Chunks - 1)
    BY ChunkFits
  <2>7. Cardinality(Trio) <= most
    BY <2>6, IdsOK
  <2>8. num_thread_ids <= most - 1
    BY <1>6, <2>2, <2>3, <2>4, <2>5, <2>7
  <2>9. num_thread_ids \in ThreadIds!Ids
    BY <1>6, <2>6, <2>8 DEF ThreadIds!Ids
  <2> QED BY <1>4, <1>6, <2>2, <2>3, <2>4, <2>5, <2>9 DEF NoMore
<1>8. IdTypes'
  BY <1>1, <1>2, <1>3, <1>4, <1>6, <1>7 DEF IdTypes, IdRefs, IdPlaces
<1>9. IdsPlaced'
  <2> SUFFICES ASSUME NEW u \in Trio
               PROVE  /\ pc'[u] \in Bearing <=> id'[u] # Nobody
                      /\ pc'[u] \in {"next", "pop"} <=> pool_mutex' = u
                      /\ id'[u] # Nobody => id'[u] < num_thread_ids'
    BY DEF IdsPlaced
  <2>1. /\ pc[u] \in Bearing <=> id[u] # Nobody
        /\ pc[u] \in {"next", "pop"} <=> pool_mutex = u
        /\ id[u] # Nobody => id[u] < num_thread_ids /\ id[u] \in Nat
    <3>1. id[u] # Nobody => id[u] \in Nat
      BY <1>1, IdsNumbers, Zenon DEF IdTypes, IdRefs
    <3> QED BY <3>1 DEF IdsInv, PoolInv, IdsPlaced
  <2>2. CASE u = t
    BY <1>1, <1>2, <1>4, <1>5, <1>6, <2>1, <2>2 DEF Bearing
  <2>3. CASE u # t
    BY <1>2, <1>4, <1>5, <1>6, <2>1, <2>3
  <2> QED BY <2>2, <2>3
<1>10. \A u \in Trio : id[u] # num_thread_ids
  <2> SUFFICES ASSUME NEW u \in Trio, id[u] = num_thread_ids PROVE FALSE
    OBVIOUS
  <2>1. id[u] < num_thread_ids
    BY <1>6 DEF IdsInv, PoolInv, IdsPlaced
  <2> QED BY <1>6, <2>1
<1>11. IdsOfOne'
  <2> SUFFICES ASSUME NEW u \in Trio, NEW v \in Trio, id'[u] = id'[v], id'[u] # Nobody PROVE u = v
    BY DEF IdsOfOne
  <2>1. u # t /\ v # t => id[u] = id[v] /\ id[u] # Nobody
    BY <1>5
  <2> QED BY <1>5, <1>10, <2>1 DEF IdsInv, PoolInv, IdsOfOne
<1>12. \E f : PoolBody(f)'
  <2>1. PICK f : PoolBody(f)
    BY DEF IdsInv, PoolInv
  <2>2. /\ f \in Seq(ThreadIds!Ids) /\ Len(f) \in Nat
        /\ \A i \in 1 .. Len(f) : f[i] \in ThreadIds!Ids /\ f[i] \in Nat /\ f[i] # Nobody
    BY <1>1, <2>1, FreeIds
  <2>3. ListOfIds(f)'
    <3>1. ASSUME NEW i \in 1 .. Len(f) PROVE f[i] < num_thread_ids' /\ f[i] # num_thread_ids
      <4>1. f[i] < num_thread_ids /\ f[i] \in Nat
        BY <2>1, <2>2 DEF PoolBody, ListOfIds
      <4> QED BY <1>4, <1>6, <4>1
    <3>2. ASSUME NEW u \in Trio, NEW i \in 1 .. Len(f) PROVE f[i] # id'[u]
      BY <1>5, <2>1, <3>1 DEF PoolBody, ListOfIds
    <3> QED BY <1>2, <2>1, <3>1, <3>2 DEF PoolBody, ListOfIds, IdAt
  <2>4. Taking(f)'
    BY <1>2, <1>5, <2>1 DEF PoolBody, Taking, IdAt
  <2>5. IdsAllKnown(f)'
    <3> SUFFICES ASSUME NEW i \in 0 .. num_thread_ids' - 1, ~ \E m \in 1 .. Len(f) : f[m] = i
                 PROVE  \E u \in Trio : id'[u] = i
      BY DEF IdsAllKnown
    <3>1. i = num_thread_ids \/ i \in 0 .. num_thread_ids - 1
      BY <1>4, <1>6
    <3>2. CASE i = num_thread_ids
      BY <1>5, <3>2
    <3>3. CASE i \in 0 .. num_thread_ids - 1
      <4>1. PICK u \in Trio : id[u] = i
        BY <2>1, <3>3 DEF PoolBody, IdsAllKnown
      <4>2. u # t
        BY <1>1, <1>6, <3>3, <4>1, IdsOK
      <4> QED BY <1>5, <4>1, <4>2
    <3> QED BY <3>1, <3>2, <3>3
  <2> QED BY <2>2, <2>3, <2>4, <2>5 DEF PoolBody
<1>13. PoolInv'
  BY <1>7, <1>8, <1>9, <1>11, <1>12 DEF PoolInv
<1>14. WalkInv' /\ BuildInv'
  <2>1. num_thread_ids' \in Nat /\ num_thread_ids' >= num_thread_ids
    BY <1>4, <1>6
  <2> QED BY <1>1, <1>3, <1>4, <1>5, <2>1, ChunksQuiet, Zenon DEF IdsInv
<1> QED BY <1>13, <1>14 DEF IdsInv

(* A thread that gives its id back sets the link of its node ...           *)
LEMMA IdsLink ==
  ASSUME IdsInv, NEW t \in Trio, pc[t] \in {"live", "push"}, pc' = [pc EXCEPT ![t] = "push"],
         next' = [next EXCEPT ![id[t]] = available_ids],
         UNCHANGED <<num_thread_ids, available_ids, pool_mutex, id, current, nxt>>,
         UNCHANGED <<built, published, growing_mutex, element, walk>>
  PROVE  IdsInv'
<1>1. IdTypes /\ id[t] # Nobody /\ id[t] \in ThreadIds!Ids
  BY DEF IdsInv, PoolInv, IdsPlaced, Bearing, IdTypes, IdRefs
<1>2. IdTypes'
  BY <1>1 DEF IdTypes, IdPlaces
<1>3. \A u \in Trio : /\ pc'[u] \in Bearing <=> pc[u] \in Bearing
                      /\ pc'[u] = "next" <=> pc[u] = "next"
                      /\ pc'[u] = "pop" <=> pc[u] = "pop"
                      /\ pc'[u] = "fresh" <=> pc[u] = "fresh"
  BY <1>1 DEF Bearing, IdTypes
<1>4. IdsPlaced' /\ IdsOfOne'
  BY <1>3 DEF IdsInv, PoolInv, IdsPlaced, IdsOfOne
<1>5. NoMore'
  <2>1. Going' = Going
    BY <1>3 DEF Going
  <2> QED BY <2>1 DEF IdsInv, PoolInv, NoMore
<1>6. \E f : PoolBody(f)'
  <2>1. PICK f : PoolBody(f)
    BY DEF IdsInv, PoolInv
  <2>2. \A i \in 1 .. Len(f) : f[i] \in ThreadIds!Ids /\ f[i] # id[t]
    BY <1>1, <2>1, FreeIds DEF PoolBody, ListOfIds
  <2>3. ListOfIds(f)'
    <3>1. \A i \in 1 .. Len(f) : next'[f[i]] = next[f[i]]
      BY <1>1, <2>2 DEF IdTypes
    <3> QED BY <2>1, <3>1 DEF PoolBody, ListOfIds, IdAt
  <2>4. Taking(f)'
    BY <1>3, <2>1 DEF PoolBody, Taking, IdAt
  <2>5. IdsAllKnown(f)'
    BY <2>1 DEF PoolBody, IdsAllKnown
  <2> QED BY <2>1, <2>3, <2>4, <2>5 DEF PoolBody
<1>7. PoolInv'
  BY <1>2, <1>4, <1>5, <1>6 DEF PoolInv
<1>8. WalkInv' /\ BuildInv'
  <2>1. num_thread_ids' \in Nat /\ num_thread_ids' >= num_thread_ids
    BY <1>1 DEF IdTypes
  <2> QED BY <1>1, <2>1, ChunksQuiet, Zenon DEF IdsInv
<1> QED BY <1>7, <1>8 DEF IdsInv

LEMMA IdsRelinquishStep == ASSUME IdsInv, NEW t \in Trio, ThreadIds!Relinquish(t) PROVE IdsInv'
<1>1. /\ pc[t] = "live" /\ pc' = [pc EXCEPT ![t] = "push"]
      /\ next' = [next EXCEPT ![id[t]] = available_ids]
  BY DEF ThreadIds!Relinquish, ThreadIds!At, ThreadIds!Goto
<1>2. UNCHANGED <<num_thread_ids, available_ids, pool_mutex, id, current, nxt>>
  BY DEF ThreadIds!Relinquish, ThreadIds!local
<1>3. UNCHANGED <<built, published, growing_mutex, element, walk>>
  BY DEF ThreadIds!Relinquish, ThreadIds!list
<1> QED BY <1>1, <1>2, <1>3, IdsLink, Zenon

(* ... and then puts it on the list, if the list is still what it was.     *)
LEMMA IdsPushStep == ASSUME IdsInv, NEW t \in Trio, ThreadIds!Push(t) PROVE IdsInv'
<1>1. pc[t] = "push" /\ IdTypes /\ id[t] # Nobody /\ id[t] \in ThreadIds!Ids
  BY DEF ThreadIds!Push, ThreadIds!At, IdsInv, PoolInv, IdsPlaced, Bearing, IdTypes, IdRefs
<1>2. UNCHANGED <<num_thread_ids, pool_mutex, current, nxt>>
  BY DEF ThreadIds!Push
<1>3. UNCHANGED <<built, published, growing_mutex, element, walk>>
  BY DEF ThreadIds!Push, ThreadIds!list
<1>4. CASE available_ids # next[id[t]]
  <2>1. next' = [next EXCEPT ![id[t]] = available_ids] /\ UNCHANGED <<available_ids, id, pc>>
    BY <1>4 DEF ThreadIds!Push
  <2>2. pc' = [pc EXCEPT ![t] = "push"]
    BY <1>1, <2>1 DEF IdTypes
  <2> QED BY <1>1, <1>2, <1>3, <2>1, <2>2, IdsLink, Zenon
<1>5. CASE available_ids = next[id[t]]
  <2>1. /\ available_ids' = id[t] /\ id' = [id EXCEPT ![t] = Nobody] /\ next' = next
        /\ pc' = [pc EXCEPT ![t] = "unborn"]
    BY <1>5 DEF ThreadIds!Push, ThreadIds!Goto
  <2>2. /\ pc'[t] = "unborn" /\ id'[t] = Nobody
        /\ \A u \in Trio : u # t => pc'[u] = pc[u] /\ id'[u] = id[u]
    BY <1>1, <2>1 DEF IdTypes
  <2>3. IdTypes'
    BY <1>1, <1>2, <1>3, <2>1 DEF IdTypes, IdRefs, IdPlaces
  <2>4. IdsPlaced'
    <3> SUFFICES ASSUME NEW u \in Trio
                 PROVE  /\ pc'[u] \in Bearing <=> id'[u] # Nobody
                        /\ pc'[u] \in {"next", "pop"} <=> pool_mutex' = u
                        /\ id'[u] # Nobody => id'[u] < num_thread_ids'
      BY DEF IdsPlaced
    <3>1. /\ pc[u] \in Bearing <=> id[u] # Nobody
          /\ pc[u] \in {"next", "pop"} <=> pool_mutex = u
          /\ id[u] # Nobody => id[u] < num_thread_ids
      BY DEF IdsInv, PoolInv, IdsPlaced
    <3>2. CASE u = t
      BY <1>1, <1>2, <2>2, <3>1, <3>2 DEF Bearing
    <3>3. CASE u # t
      BY <1>2, <2>2, <3>1, <3>3
    <3> QED BY <3>2, <3>3
  <2>5. IdsOfOne'
    <3> SUFFICES ASSUME NEW u \in Trio, NEW v \in Trio, id'[u] = id'[v], id'[u] # Nobody PROVE u = v
      BY DEF IdsOfOne
    <3> QED BY <2>2 DEF IdsInv, PoolInv, IdsOfOne
  <2>6. NoMore'
    <3>1. Going' = Going
      BY <1>1, <1>2, <2>2 DEF Going
    <3> QED BY <1>2, <3>1 DEF IdsInv, PoolInv, NoMore
  <2>7. PICK f : PoolBody(f)
    BY DEF IdsInv, PoolInv
  <2>8. /\ f \in Seq(ThreadIds!Ids) /\ Len(f) \in Nat
        /\ \A i \in 1 .. Len(f) : f[i] \in ThreadIds!Ids /\ f[i] \in Nat /\ f[i] # Nobody
    BY <1>1, <2>7, FreeIds
  <2>0. PICK g : g = Append(f, id[t])
    BY Zenon
  <2>9. /\ g \in Seq(ThreadIds!Ids) /\ Len(g) = Len(f) + 1 /\ Len(g) \in 1 .. Len(g) /\ g[Len(g)] = id[t]
        /\ \A i \in 1 .. Len(f) : g[i] = f[i] /\ i \in 1 .. Len(g)
        /\ \A i \in 1 .. Len(g) : i \in 1 .. Len(f) \/ i = Len(g)
    BY <1>1, <2>0, <2>8
  <2>10. \A i \in 0 .. Len(f) : IdAt(g, i) = IdAt(f, i)
    BY <2>9 DEF IdAt
  <2>11. ListOfIds(g)'
    <3>1. available_ids' = IdAt(g, Len(g))
      BY <2>1, <2>8, <2>9 DEF IdAt
    <3>2. ASSUME NEW i \in 1 .. Len(g) PROVE next[g[i]] = IdAt(g, i - 1) /\ g[i] < num_thread_ids
      <4>1. CASE i \in 1 .. Len(f)
        <5>1. g[i] = f[i] /\ i - 1 \in 0 .. Len(f)
          BY <2>8, <2>9, <4>1
        <5>2. IdAt(g, i - 1) = IdAt(f, i - 1)
          BY <2>10, <5>1
        <5> QED BY <2>7, <4>1, <5>1, <5>2 DEF PoolBody, ListOfIds
      <4>2. CASE i = Len(g)
        <5>1. i - 1 = Len(f) /\ Len(f) \in 0 .. Len(f)
          BY <2>8, <2>9, <4>2
        <5>2. IdAt(g, i - 1) = IdAt(f, Len(f))
          BY <2>10, <5>1
        <5>3. next[g[i]] = available_ids /\ available_ids = IdAt(f, Len(f))
          BY <1>5, <2>7, <2>9, <4>2, Zenon DEF PoolBody, ListOfIds
        <5>4. id[t] < num_thread_ids
          BY <1>1 DEF IdsInv, PoolInv, IdsPlaced
        <5> QED BY <2>9, <4>2, <5>2, <5>3, <5>4
      <4> QED BY <2>9, <4>1, <4>2
    <3>3. \A i, m \in 1 .. Len(g) : g[i] = g[m] => i = m
      BY <2>7, <2>9 DEF PoolBody, ListOfIds
    <3>4. ASSUME NEW u \in Trio, NEW i \in 1 .. Len(g) PROVE g[i] # id'[u]
      <4>1. g[i] # Nobody
        BY <1>1, <2>8, <2>9
      <4>2. u = t => g[i] # id'[u]
        BY <2>2, <4>1
      <4>3. i \in 1 .. Len(f) => f[i] # id[u]
        BY <2>7 DEF PoolBody, ListOfIds
      <4>4. u # t => id[u] # id[t]
        BY <1>1 DEF IdsInv, PoolInv, IdsOfOne
      <4> QED BY <2>2, <2>9, <4>2, <4>3, <4>4
    <3> QED BY <1>2, <2>1, <3>1, <3>2, <3>3, <3>4 DEF ListOfIds, IdAt
  <2>12. Taking(g)'
    <3> SUFFICES ASSUME NEW u \in Trio
                 PROVE  /\ pc'[u] = "next" => current[u] = Nobody \/ \E i \in 1 .. Len(g) : g[i] = current[u]
                        /\ pc'[u] = "pop" => \E i \in 1 .. Len(g) : g[i] = current[u] /\ nxt[u] = IdAt(g, i - 1)
      BY <1>2 DEF Taking, IdAt
    <3>1. \A i \in 1 .. Len(f) : i - 1 \in 0 .. Len(f)
      BY <2>8
    <3> QED BY <2>2, <2>7, <2>9, <2>10, <3>1 DEF PoolBody, Taking
  <2>13. IdsAllKnown(g)'
    <3> SUFFICES ASSUME NEW i \in 0 .. num_thread_ids - 1, ~ \E u \in Trio : id'[u] = i
                 PROVE  \E m \in 1 .. Len(g) : g[m] = i
      BY <1>2 DEF IdsAllKnown
    <3>1. CASE i = id[t]
      BY <2>9, <3>1
    <3>2. CASE i # id[t]
      <4>1. ~ \E u \in Trio : id[u] = i
        BY <2>2, <3>2
      <4> QED BY <2>7, <2>9, <4>1 DEF PoolBody, IdsAllKnown
    <3> QED BY <3>1, <3>2
  <2>14. PoolInv'
    BY <2>3, <2>4, <2>5, <2>6, <2>9, <2>11, <2>12, <2>13 DEF PoolInv, PoolBody
  <2>15. WalkInv' /\ BuildInv'
    <3>1. num_thread_ids' \in Nat /\ num_thread_ids' >= num_thread_ids
      BY <1>1, <1>2 DEF IdTypes
    <3> QED BY <1>1, <1>3, <2>1, <2>2, <3>1, ChunksQuiet, Zenon DEF IdsInv
  <2> QED BY <2>14, <2>15 DEF IdsInv
<1> QED BY <1>4, <1>5

(* The chunk a thread wants depends on its id and its walk, and is one     *)
(* there may be: a walk ends where the ids do.                             *)
LEMMA WantedStays ==
  ASSUME NEW u \in Trio, id'[u] = id[u], walk'[u] = walk[u]
  PROVE  /\ ThreadIds!Walking(u)' = ThreadIds!Walking(u)
         /\ ThreadIds!Wanted(u)' = ThreadIds!Wanted(u)
<1>1. ThreadIds!Walking(u)' = ThreadIds!Walking(u)
  BY DEF ThreadIds!Walking
<1> QED BY <1>1, Zenon DEF ThreadIds!Wanted

LEMMA WantedIsChunk ==
  ASSUME IdsInv, NEW t \in Trio, pc[t] \in {"grow", "build", "store"}
  PROVE  ThreadIds!Wanted(t) \in ThreadIds!ChunkIds
<1>1. CASE ~ ThreadIds!Walking(t)
  <2>1. id[t] \in ThreadIds!Ids
    BY DEF IdsInv, PoolInv, IdsPlaced, Bearing, IdTypes, IdRefs
  <2> QED BY <1>1, <2>1, ChunkOfId DEF ThreadIds!Wanted
<1>2. CASE ThreadIds!Walking(t)
  <2> DEFINE c == walk[t].chunk
  <2>1. /\ c \in Nat /\ walk[t].num \in Nat /\ num_thread_ids \in Nat
        /\ ThreadIds!First(c) < walk[t].num /\ walk[t].num <= num_thread_ids
    <3>1. /\ c \in Nat /\ walk[t].num \in Nat /\ num_thread_ids \in Nat
      BY DEF IdsInv, PoolInv, IdTypes, WalkSet
    <3>2. WalkOf(t)
      BY DEF IdsInv, WalkInv
    <3> QED BY <1>2, <3>1, <3>2 DEF WalkOf
  <2>2. num_thread_ids <= Cardinality(Trio) /\ Cardinality(Trio) \in Nat
    <3>1. Going \in SUBSET Trio
      BY DEF Going
    <3>2. Cardinality(Going) \in Nat /\ Cardinality(Trio) \in Nat
      BY <3>1, SubTrio
    <3> QED BY <2>1, <3>2 DEF IdsInv, PoolInv, NoMore
  <2>3. PICK most \in Nat : most = ChunkSize * 2 ^ (Chunks - 1)
    BY ChunkFits
  <2>4. Cardinality(Trio) <= most
    BY <2>3, IdsOK
  <2>5. c < Chunks
    <3> HIDE DEF c
    <3>1. Chunks \in Nat /\ Chunks - 1 \in Nat /\ ChunkSize \in Nat
      BY IdsOK
    <3> SUFFICES ASSUME ~ (c < Chunks) PROVE FALSE
      OBVIOUS
    <3>2. PICK b \in Nat, d \in Nat : b + 1 = c /\ b = (Chunks - 1) + d
      <4>1. c - 1 \in Nat /\ c - Chunks \in Nat /\ (c - 1) + 1 = c /\ c - 1 = (Chunks - 1) + (c - Chunks)
        BY <2>1, <3>1
      <4> QED BY <4>1
    <3>3. 2 ^ (Chunks - 1) <= 2 ^ ((Chunks - 1) + d)
      BY <3>1, <3>2, PowerMonotone
    <3>4. 2 ^ (Chunks - 1) <= 2 ^ b /\ 2 ^ (Chunks - 1) \in Nat /\ 2 ^ b \in Nat
      BY <3>1, <3>2, <3>3, PowerType
    <3>5. ChunkSize * 2 ^ (Chunks - 1) <= ChunkSize * 2 ^ b
      BY <3>1, <3>4, TimesMonotone
    <3>6. ThreadIds!First(c) = ChunkSize * 2 ^ b /\ ThreadIds!First(c) \in Nat
      BY <2>1, <3>2, ChunkBounds
    <3> QED BY <2>1, <2>2, <2>3, <2>4, <3>5, <3>6
  <2>6. c \in ThreadIds!ChunkIds
    <3> HIDE DEF c
    <3> QED BY <2>1, <2>5, IdsOK DEF ThreadIds!ChunkIds
  <2> QED BY <1>2, <2>6 DEF ThreadIds!Wanted
<1> QED BY <1>1, <1>2

(* A step of one thread that builds nothing.                               *)
LEMMA NoBuilding ==
  ASSUME IdsInv, NEW t \in Trio,
         NEW l \in Bearing \ {"build", "store"}, pc[t] \in Bearing \ {"build", "store"},
         pc' = [pc EXCEPT ![t] = l],
         UNCHANGED <<num_thread_ids, available_ids, next, pool_mutex, id, current, nxt>>,
         UNCHANGED <<built, published, growing_mutex, element>>,
         walk' \in [Trio -> WalkSet], \A u \in Trio : u # t => walk'[u] = walk[u],
         WalkOf(t)'
  PROVE  IdsInv'
<1>1. IdTypes
  BY DEF IdsInv, PoolInv
<1>2. IdTypes'
  BY <1>1 DEF IdTypes, Bearing, IdPlaces
<1>3. PoolInv'
  BY <1>2, IdsQuiet, Zenon DEF IdsInv
<1>4. pc'[t] = l /\ \A u \in Trio : u # t => pc'[u] = pc[u]
  BY <1>1 DEF IdTypes
<1>5. ASSUME NEW u \in Trio, u # t
      PROVE  /\ ThreadIds!Walking(u)' = ThreadIds!Walking(u)
             /\ ThreadIds!Wanted(u)' = ThreadIds!Wanted(u)
  BY <1>5, WantedStays
<1>6. WalkInv'
  <2> SUFFICES ASSUME NEW u \in Trio, u # t PROVE WalkOf(u)'
    BY DEF WalkInv
  <2>1. WalkOf(u) /\ pc'[u] = pc[u] /\ walk'[u] = walk[u]
    BY <1>4 DEF IdsInv, WalkInv
  <2> QED BY <1>5, <2>1 DEF WalkOf
<1>7. ASSUME NEW u \in Trio PROVE Builds(u)'
  <2>1. Builds(u)
    BY DEF IdsInv, BuildInv
  <2>2. CASE u = t
    BY <1>4, <2>1, <2>2 DEF Builds
  <2>3. CASE u # t
    BY <1>4, <1>5, <2>1, <2>3 DEF Builds
  <2> QED BY <2>2, <2>3
<1>8. ASSUME NEW c \in ThreadIds!ChunkIds PROVE BuiltOf(c)'
  <2>1. ASSUME NEW u \in Trio, pc[u] \in {"build", "store"}, ThreadIds!Wanted(u) = c
        PROVE  pc'[u] \in {"build", "store"} /\ ThreadIds!Wanted(u)' = c
    BY <1>4, <1>5, <2>1
  <2>2. BuiltOf(c)
    BY DEF IdsInv, BuildInv
  <2> QED BY <2>1, <2>2 DEF BuiltOf
<1> QED BY <1>3, <1>6, <1>7, <1>8 DEF IdsInv, BuildInv

LEMMA IdsGetStep == ASSUME IdsInv, NEW t \in Trio, ThreadIds!Get(t) PROVE IdsInv'
<1> DEFINE l == IF ThreadIds!ChunkOf(id[t]) \in published THEN "use" ELSE "grow"
<1>1. pc[t] = "live" /\ pc' = [pc EXCEPT ![t] = l]
  BY Zenon DEF ThreadIds!Get, ThreadIds!At, ThreadIds!Goto
<1>2. UNCHANGED <<num_thread_ids, available_ids, next, pool_mutex, id, current, nxt>>
  BY DEF ThreadIds!Get, ThreadIds!pool, ThreadIds!local
<1>3. UNCHANGED <<built, published, growing_mutex, element, walk>>
  BY DEF ThreadIds!Get, ThreadIds!list
<1>4. l \in Bearing \ {"build", "store"} /\ (l = "use" => ThreadIds!ChunkOf(id[t]) \in published)
      /\ l \notin {"each", "walked"}
  BY DEF Bearing
<1>5. IdTypes /\ WalkOf(t)
  BY DEF IdsInv, PoolInv, WalkInv
<1>6. ~ ThreadIds!Walking(t) /\ ~ ThreadIds!Walking(t)'
  BY <1>1, <1>3, <1>5 DEF WalkOf, ThreadIds!Walking
<1> HIDE DEF l
<1>7. WalkOf(t)'
  <2>1. pc'[t] = l
    BY <1>1, <1>5 DEF IdTypes
  <2>2. PICK i : i = id'[t] /\ i = id[t]
    BY <1>2
  <2> QED BY <1>3, <1>4, <1>6, <2>1, <2>2 DEF WalkOf
<1> QED BY <1>1, <1>2, <1>3, <1>4, <1>5, <1>7, NoBuilding, Zenon DEF Bearing, IdTypes

LEMMA IdsUsedStep == ASSUME IdsInv, NEW t \in Trio, ThreadIds!Used(t) PROVE IdsInv'
<1>1. pc[t] = "use" /\ pc' = [pc EXCEPT ![t] = "live"]
  BY DEF ThreadIds!Used, ThreadIds!At, ThreadIds!Goto
<1>2. UNCHANGED <<num_thread_ids, available_ids, next, pool_mutex, id, current, nxt>>
  BY DEF ThreadIds!Used, ThreadIds!pool, ThreadIds!local
<1>3. UNCHANGED <<built, published, growing_mutex, element, walk>>
  BY DEF ThreadIds!Used, ThreadIds!list
<1>4. IdTypes /\ WalkOf(t)
  BY DEF IdsInv, PoolInv, WalkInv
<1>5. WalkOf(t)'
  <2>1. pc'[t] = "live"
    BY <1>1, <1>4 DEF IdTypes
  <2>2. ~ ThreadIds!Walking(t) /\ ~ ThreadIds!Walking(t)'
    BY <1>1, <1>3, <1>4 DEF WalkOf, ThreadIds!Walking
  <2> QED BY <2>1, <2>2 DEF WalkOf
<1> QED BY <1>1, <1>2, <1>3, <1>4, <1>5, NoBuilding, Zenon DEF Bearing, IdTypes

LEMMA IdsForEachStep == ASSUME IdsInv, NEW t \in Trio, ThreadIds!ForEach(t) PROVE IdsInv'
<1>1. pc[t] = "live" /\ pc' = [pc EXCEPT ![t] = "each"]
  BY DEF ThreadIds!ForEach, ThreadIds!At, ThreadIds!Goto
<1>2. UNCHANGED <<num_thread_ids, available_ids, next, pool_mutex, id, current, nxt>>
  BY DEF ThreadIds!ForEach, ThreadIds!pool, ThreadIds!local
<1>3. UNCHANGED <<built, published, growing_mutex, element>>
  BY DEF ThreadIds!ForEach, ThreadIds!list
<1>4. IdTypes /\ WalkOf(t)
  BY DEF IdsInv, PoolInv, WalkInv
<1> DEFINE w == [num |-> num_thread_ids, chunk |-> 0, seen |-> {}]
<1>5. walk' = [walk EXCEPT ![t] = w]
  <2>1. [ThreadIds!NoWalk EXCEPT !.num = num_thread_ids] = w
    BY DEF ThreadIds!NoWalk
  <2> HIDE DEF w
  <2> QED BY <2>1, Zenon DEF ThreadIds!ForEach
<1>6. num_thread_ids \in Nat /\ num_thread_ids >= 1
  <2>1. id[t] \in Nat /\ num_thread_ids \in Nat
    BY <1>1, <1>4, IdsNumbers, Zenon DEF IdsInv, PoolInv, IdsPlaced, Bearing, IdTypes, IdRefs
  <2>2. id[t] < num_thread_ids
    BY <1>1 DEF IdsInv, PoolInv, IdsPlaced, Bearing
  <2> QED BY <2>1, <2>2
<1>7. /\ w \in WalkSet
      /\ w.num = num_thread_ids /\ w.chunk = 0 /\ w.seen = {} /\ w # ThreadIds!NoWalk
  BY <1>6 DEF WalkSet, ThreadIds!NoWalk
<1> HIDE DEF w
<1>8. /\ walk' \in [Trio -> WalkSet] /\ walk'[t] = w
      /\ \A u \in Trio : u # t => walk'[u] = walk[u]
  BY <1>4, <1>5, <1>7 DEF IdTypes
<1>9. WalkOf(t)'
  <2>1. pc'[t] = "each"
    BY <1>1, <1>4 DEF IdTypes
  <2>2. ThreadIds!Walking(t)'
    BY <1>7, <1>8 DEF ThreadIds!Walking
  <2>3. ThreadIds!First(0) = 0
    BY DEF ThreadIds!First
  <2>4. w.num \in 1 .. num_thread_ids'
    BY <1>2, <1>6, <1>7
  <2>5. w.seen = {i \in 0 .. w.num - 1 : i < ThreadIds!First(w.chunk)}
    BY <1>6, <1>7, <2>3
  <2>6. \A c \in Nat : ~ (c < w.chunk)
    BY <1>7
  <2> QED BY <1>8, <2>1, <2>2, <2>4, <2>5, <2>6 DEF WalkOf
<1> QED BY <1>1, <1>2, <1>3, <1>8, <1>9, NoBuilding, Zenon DEF Bearing

LEMMA IdsWalkedStep == ASSUME IdsInv, NEW t \in Trio, ThreadIds!Walked(t) PROVE IdsInv'
<1>1. pc[t] = "walked" /\ pc' = [pc EXCEPT ![t] = "live"] /\ walk' = [walk EXCEPT ![t] = ThreadIds!NoWalk]
  BY DEF ThreadIds!Walked, ThreadIds!At, ThreadIds!Goto
<1>2. UNCHANGED <<num_thread_ids, available_ids, next, pool_mutex, id, current, nxt>>
  BY DEF ThreadIds!Walked, ThreadIds!pool, ThreadIds!local
<1>3. UNCHANGED <<built, published, growing_mutex, element>>
  BY DEF ThreadIds!Walked, ThreadIds!list
<1>4. IdTypes
  BY DEF IdsInv, PoolInv
<1>5. ThreadIds!NoWalk \in WalkSet
  BY DEF ThreadIds!NoWalk, WalkSet
<1>6. /\ walk' \in [Trio -> WalkSet] /\ walk'[t] = ThreadIds!NoWalk
      /\ \A u \in Trio : u # t => walk'[u] = walk[u]
  BY <1>1, <1>4, <1>5 DEF IdTypes
<1>7. WalkOf(t)'
  <2>1. pc'[t] = "live"
    BY <1>1, <1>4 DEF IdTypes
  <2>2. ~ ThreadIds!Walking(t)'
    BY <1>6 DEF ThreadIds!Walking
  <2> QED BY <2>1, <2>2 DEF WalkOf
<1> QED BY <1>1, <1>2, <1>3, <1>6, <1>7, NoBuilding, Zenon DEF Bearing

LEMMA IdsVisitStep == ASSUME IdsInv, NEW t \in Trio, ThreadIds!Visit(t) PROVE IdsInv'
<1> DEFINE w == walk[t]
           c == walk[t].chunk
<1>1. pc[t] = "each"
  BY DEF ThreadIds!Visit, ThreadIds!At
<1>2. UNCHANGED <<num_thread_ids, available_ids, next, pool_mutex, id, current, nxt>>
  BY DEF ThreadIds!Visit, ThreadIds!pool, ThreadIds!local
<1>3. UNCHANGED <<built, published, growing_mutex, element>>
  BY DEF ThreadIds!Visit, ThreadIds!list
<1>4. IdTypes /\ WalkOf(t) /\ ThreadIds!Walking(t)
  BY <1>1 DEF IdsInv, PoolInv, WalkInv, WalkOf
<1>5. w \in WalkSet /\ c \in Nat /\ w.num \in Nat
  BY <1>4 DEF IdTypes, WalkSet
<1>6. ASSUME NEW l \in {"walked", "grow"}, pc' = [pc EXCEPT ![t] = l], walk' = walk,
             l = "walked" => ThreadIds!First(c) >= w.num,
             l = "grow" => ThreadIds!First(c) < w.num
      PROVE  IdsInv'
  <2>1. pc'[t] = l /\ walk'[t] = walk[t]
    BY <1>4, <1>6 DEF IdTypes
  <2>2. ThreadIds!Walking(t)'
    BY <1>4, <1>6 DEF ThreadIds!Walking
  <2>3. WalkOf(t)'
    BY <1>2, <1>3, <1>4, <1>6, <2>1, <2>2 DEF WalkOf
  <2>4. walk' \in [Trio -> WalkSet]
    BY <1>4, <1>6 DEF IdTypes
  <2>5. l \in Bearing \ {"build", "store"} /\ pc[t] \in Bearing \ {"build", "store"}
    BY <1>1 DEF Bearing
  <2> QED BY <1>2, <1>3, <1>6, <2>3, <2>4, <2>5, NoBuilding, Zenon
<1> DEFINE more == {i \in 0 .. w.num - 1 :
                      ThreadIds!First(c) <= i /\ i < ThreadIds!First(c) + ThreadIds!ChunkLength(c)}
<1>7. ASSUME c \in published, pc' = pc, ThreadIds!First(c) < w.num,
             walk' = [walk EXCEPT ![t] = [w EXCEPT !.chunk = c + 1, !.seen = @ \cup more]]
      PROVE  IdsInv'
  <2>1. PICK v : v = [w EXCEPT !.chunk = c + 1, !.seen = @ \cup more]
    BY Zenon
  <2>2. walk' = [walk EXCEPT ![t] = v]
    BY <1>7, <2>1
  <2>3. v.num = w.num /\ v.chunk = c + 1 /\ v.seen = w.seen \cup more /\ v \in WalkSet
    <3>1. more \subseteq Nat
      BY <1>5
    <3> HIDE DEF more, w, c
    <3>2. PICK x : x = [w EXCEPT !.chunk = c + 1]
      BY Zenon
    <3>3. x \in WalkSet /\ x.num = w.num /\ x.chunk = c + 1 /\ x.seen = w.seen
      BY <1>5, <3>2 DEF WalkSet
    <3>4. v = [x EXCEPT !.seen = w.seen \cup more]
      BY <2>1, <3>2, Zenon
    <3>5. v.num = x.num /\ v.chunk = x.chunk /\ v.seen = w.seen \cup more /\ v \in WalkSet
      BY <1>5, <3>1, <3>3, <3>4 DEF WalkSet
    <3> QED BY <3>3, <3>5
  <2>4. /\ walk' \in [Trio -> WalkSet] /\ walk'[t] = v
        /\ \A u \in Trio : u # t => walk'[u] = walk[u]
    BY <1>4, <2>2, <2>3 DEF IdTypes
  <2>5. v.num \in 1 .. num_thread_ids
    BY <1>4, <2>3 DEF WalkOf
  <2>6. ThreadIds!Walking(t)'
    <3>1. v.num # 0
      BY <1>4, <2>5 DEF IdTypes
    <3>2. v # ThreadIds!NoWalk
      BY <3>1 DEF ThreadIds!NoWalk
    <3> QED BY <2>4, <3>2 DEF ThreadIds!Walking
  <2>7. v.seen = {i \in 0 .. v.num - 1 : i < ThreadIds!First(v.chunk)}
    <3>1. /\ ThreadIds!First(c) \in Nat /\ ThreadIds!ChunkLength(c) \in Nat
          /\ ThreadIds!First(c + 1) = ThreadIds!First(c) + ThreadIds!ChunkLength(c)
      BY <1>5, ChunkBounds, Zenon
    <3>2. w.seen = {i \in 0 .. w.num - 1 : i < ThreadIds!First(c)}
      BY <1>4 DEF WalkOf
    <3>3. {i \in 0 .. w.num - 1 : i < ThreadIds!First(c + 1)} = w.seen \cup more
      BY <1>5, <3>1, <3>2
    <3> QED BY <2>3, <3>3
  <2>8. \A b \in Nat : b < v.chunk => b \in published
    <3>1. \A b \in Nat : b < c => b \in published
      BY <1>4 DEF WalkOf
    <3>2. \A b \in Nat : b < c + 1 => b < c \/ b = c
      BY <1>5
    <3> QED BY <1>7, <2>3, <3>1, <3>2
  <2>9. WalkOf(t)'
    BY <1>1, <1>2, <1>3, <1>7, <2>4, <2>5, <2>6, <2>7, <2>8, Zenon DEF WalkOf
  <2>10. "each" \in Bearing \ {"build", "store"} /\ pc' = [pc EXCEPT ![t] = "each"]
    BY <1>1, <1>4, <1>7 DEF Bearing, IdTypes
  <2> QED BY <1>1, <1>2, <1>3, <2>4, <2>9, <2>10, NoBuilding, Zenon
<1>8. \/ ThreadIds!First(c) >= w.num /\ pc' = [pc EXCEPT ![t] = "walked"] /\ walk' = walk
      \/ ThreadIds!First(c) < w.num /\ pc' = [pc EXCEPT ![t] = "grow"] /\ walk' = walk
      \/ /\ ThreadIds!First(c) < w.num /\ c \in published /\ pc' = pc
         /\ walk' = [walk EXCEPT ![t] = [w EXCEPT !.chunk = c + 1, !.seen = @ \cup more]]
  BY Zenon DEF ThreadIds!Visit, ThreadIds!Goto
<1> HIDE DEF w, c, more
<1>9. ThreadIds!First(c) \in Nat
  BY <1>5, ChunkBounds, Zenon
<1>10. CASE ThreadIds!First(c) >= w.num /\ pc' = [pc EXCEPT ![t] = "walked"] /\ walk' = walk
  <2>1. "walked" \in {"walked", "grow"} /\ "walked" # "grow"
    OBVIOUS
  <2> QED BY <1>6, <1>10, <2>1
<1>11. CASE ThreadIds!First(c) < w.num /\ pc' = [pc EXCEPT ![t] = "grow"] /\ walk' = walk
  <2>1. "grow" \in {"walked", "grow"} /\ "walked" # "grow"
    OBVIOUS
  <2> QED BY <1>6, <1>11, <2>1
<1> QED BY <1>7, <1>8, <1>10, <1>11

LEMMA IdsGrowingStep == ASSUME IdsInv, NEW t \in Trio, ThreadIds!LockGrowing(t) PROVE IdsInv'
<1> DEFINE c == ThreadIds!Wanted(t)
           l == IF c \in published THEN "store" ELSE "build"
<1>1. /\ pc[t] = "grow" /\ pc' = [pc EXCEPT ![t] = l]
      /\ growing_mutex = Nobody /\ growing_mutex' = t
  BY Zenon DEF ThreadIds!LockGrowing, ThreadIds!At, ThreadIds!Goto
<1>2. UNCHANGED <<num_thread_ids, available_ids, next, pool_mutex, id, current, nxt>>
  BY DEF ThreadIds!LockGrowing, ThreadIds!pool, ThreadIds!local
<1>3. UNCHANGED <<built, published, element, walk>>
  BY DEF ThreadIds!LockGrowing
<1>4. IdTypes /\ c \in ThreadIds!ChunkIds
  BY <1>1, WantedIsChunk DEF IdsInv, PoolInv
<1>5. /\ l \in {"build", "store"}
      /\ l = "store" <=> c \in published
      /\ l = "build" <=> c \notin published
  OBVIOUS
<1>6. /\ built[c] \in Nat /\ ThreadIds!ChunkLength(c) \in Nat /\ ThreadIds!ChunkLength(c) >= 1
  BY <1>4, ChunkFits, ChunkBounds DEF IdTypes
<1>7. \A u \in Trio : /\ ThreadIds!Walking(u)' = ThreadIds!Walking(u)
                      /\ ThreadIds!Wanted(u)' = ThreadIds!Wanted(u)
  <2> SUFFICES ASSUME NEW u \in Trio
               PROVE  /\ ThreadIds!Walking(u)' = ThreadIds!Walking(u)
                      /\ ThreadIds!Wanted(u)' = ThreadIds!Wanted(u)
    OBVIOUS
  <2>1. id'[u] = id[u] /\ walk'[u] = walk[u]
    BY <1>2, <1>3
  <2> QED BY <2>1, WantedStays
<1>8. /\ c \in published => built[c] = ThreadIds!ChunkLength(c)
      /\ c \notin published => built[c] = 0
  <2>1. BuiltOf(c) /\ \A u \in Trio : Builds(u)
    BY <1>4 DEF IdsInv, BuildInv
  <2>2. \A u \in Trio : pc[u] \notin {"build", "store"}
    BY <1>1, <2>1, IdsOK DEF Builds
  <2> QED BY <2>1, <2>2 DEF BuiltOf
<1>9. c = ThreadIds!Wanted(t)'
  BY <1>7
<1> HIDE DEF l, c
<1>10. pc'[t] = l /\ \A u \in Trio : u # t => pc'[u] = pc[u]
  BY <1>1, <1>4 DEF IdTypes
<1>11. l \in Bearing /\ pc[t] \in Bearing
  BY <1>1, <1>5 DEF Bearing
<1>12. IdTypes'
  <2>1. l \in IdPlaces
    BY <1>5 DEF IdPlaces
  <2> QED BY <1>1, <1>2, <1>3, <1>4, <2>1 DEF IdTypes
<1>13. PoolInv'
  BY <1>1, <1>2, <1>11, <1>12, IdsQuiet, Zenon DEF IdsInv
<1>14. WalkInv'
  <2> SUFFICES ASSUME NEW u \in Trio PROVE WalkOf(u)'
    BY DEF WalkInv
  <2>1. WalkOf(u) /\ walk'[u] = walk[u] /\ num_thread_ids' = num_thread_ids /\ published' = published
    BY <1>2, <1>3 DEF IdsInv, WalkInv
  <2>2. CASE u = t
    BY <1>1, <1>5, <1>7, <1>10, <2>1, <2>2 DEF WalkOf
  <2>3. CASE u # t
    <3>1. PICK i : i = id'[u] /\ i = id[u]
      BY <1>2
    <3> QED BY <1>7, <1>10, <2>1, <2>3, <3>1 DEF WalkOf
  <2> QED BY <2>2, <2>3
<1>15. ASSUME NEW u \in Trio PROVE Builds(u)'
  <2>1. CASE u = t
    <3>1. pc'[u] \in {"build", "store"} /\ growing_mutex' = u
      BY <1>1, <1>5, <1>10, <2>1
    <3>2. pc'[u] = "build" => c \notin published' /\ built'[c] < ThreadIds!ChunkLength(c)
      BY <1>3, <1>5, <1>6, <1>8, <1>10, <2>1
    <3>3. pc'[u] = "store" => built'[c] = ThreadIds!ChunkLength(c)
      BY <1>3, <1>5, <1>8, <1>10, <2>1
    <3>4. c = ThreadIds!Wanted(u)'
      BY <1>9, <2>1
    <3> QED BY <3>1, <3>2, <3>3, <3>4 DEF Builds
  <2>2. CASE u # t
    <3>1. Builds(u) /\ u # Nobody
      BY IdsOK DEF IdsInv, BuildInv
    <3> QED BY <1>1, <1>10, <2>2, <3>1 DEF Builds
  <2> QED BY <2>1, <2>2
<1>16. ASSUME NEW b \in ThreadIds!ChunkIds PROVE BuiltOf(b)'
  <2>1. ASSUME NEW u \in Trio, pc[u] \in {"build", "store"}, ThreadIds!Wanted(u) = b
        PROVE  pc'[u] \in {"build", "store"} /\ ThreadIds!Wanted(u)' = b
    BY <1>1, <1>7, <1>10, <2>1
  <2>2. BuiltOf(b)
    BY DEF IdsInv, BuildInv
  <2> QED BY <1>3, <2>1, <2>2 DEF BuiltOf
<1>17. 0 \in published'
  BY <1>3 DEF IdsInv, BuildInv
<1> QED BY <1>13, <1>14, <1>15, <1>16, <1>17 DEF IdsInv, BuildInv

(* The element that is built is that of the id at its place: every chunk   *)
(* but the first begins where its length says.                             *)
LEMMA IdsBuildStep == ASSUME IdsInv, NEW t \in Trio, ThreadIds!Build(t) PROVE IdsInv'
<1> DEFINE c == ThreadIds!Wanted(t)
           l == IF built[c] + 1 = ThreadIds!ChunkLength(c) THEN "store" ELSE "build"
<1>1. /\ pc[t] = "build" /\ pc' = [pc EXCEPT ![t] = l]
      /\ built' = [built EXCEPT ![c] = built[c] + 1]
      /\ element' = [element EXCEPT ![ThreadIds!First(c) + built[c]] = ThreadIds!ChunkLength(c) + built[c]]
  BY DEF ThreadIds!Build, ThreadIds!At, ThreadIds!Goto
<1>2. UNCHANGED <<num_thread_ids, available_ids, next, pool_mutex, id, current, nxt>>
  BY DEF ThreadIds!Build, ThreadIds!pool, ThreadIds!local
<1>3. UNCHANGED <<published, growing_mutex, walk>>
  BY DEF ThreadIds!Build
<1>4. IdTypes /\ c \in ThreadIds!ChunkIds
  BY <1>1, WantedIsChunk DEF IdsInv, PoolInv
<1>5. c \notin published /\ built[c] < ThreadIds!ChunkLength(c) /\ growing_mutex = t
  BY <1>1 DEF IdsInv, BuildInv, Builds
<1>6. \A u \in Trio : /\ ThreadIds!Walking(u)' = ThreadIds!Walking(u)
                      /\ ThreadIds!Wanted(u)' = ThreadIds!Wanted(u)
  <2> SUFFICES ASSUME NEW u \in Trio
               PROVE  /\ ThreadIds!Walking(u)' = ThreadIds!Walking(u)
                      /\ ThreadIds!Wanted(u)' = ThreadIds!Wanted(u)
    OBVIOUS
  <2>1. id'[u] = id[u] /\ walk'[u] = walk[u]
    BY <1>2, <1>3
  <2> QED BY <2>1, WantedStays
<1>7. l \in {"build", "store"} /\ (l = "build" => built[c] + 1 # ThreadIds!ChunkLength(c))
      /\ (l = "store" => built[c] + 1 = ThreadIds!ChunkLength(c))
  OBVIOUS
<1>8. PICK b : b = c
  OBVIOUS
<1>9. ThreadIds!Wanted(t) = b /\ ThreadIds!Wanted(t)' = b
  BY <1>6, <1>8
<1> HIDE DEF l
<1>10. PICK k \in Nat : k = built[b]
  BY <1>4, <1>8 DEF IdTypes
<1>11. PICK first \in Nat, size \in Nat :
         /\ first = ThreadIds!First(b) /\ size = ThreadIds!ChunkLength(b)
         /\ size = first
  <2>1. b \in Nat /\ b # 0
    BY <1>4, <1>5, <1>8, ChunkFits DEF IdsInv, BuildInv
  <2> QED BY <2>1, ChunkBounds, Zenon
<1>12. first + k \in ThreadIds!Ids /\ k < size
  <2>1. PICK most \in Nat : most = ChunkSize * 2 ^ (Chunks - 1)
    BY ChunkFits
  <2>2. first + size <= most
    BY <1>4, <1>8, <1>11, <2>1, ChunkFits, Zenon
  <2>3. k < size
    BY <1>5, <1>8, <1>10, <1>11
  <2>4. first + k \in 0 .. most - 1
    BY <2>2, <2>3
  <2> QED BY <2>1, <2>3, <2>4 DEF ThreadIds!Ids
<1>13. /\ built' = [built EXCEPT ![b] = k + 1] /\ element' = [element EXCEPT ![first + k] = first + k]
       /\ l = "build" => k + 1 < size
       /\ l = "store" => k + 1 = size
       /\ b \in ThreadIds!ChunkIds /\ b \notin published
  <2>1. l = "build" => k + 1 # size
    BY <1>7, <1>8, <1>10, <1>11
  <2>2. l = "store" => k + 1 = size
    BY <1>7, <1>8, <1>10, <1>11
  <2>3. element' = [element EXCEPT ![first + k] = size + k]
    BY <1>1, <1>8, <1>10, <1>11
  <2> QED BY <1>1, <1>4, <1>5, <1>8, <1>10, <1>11, <1>12, <2>1, <2>2, <2>3
<1> HIDE DEF c
<1>14. pc'[t] = l /\ \A u \in Trio : u # t => pc'[u] = pc[u]
  BY <1>1, <1>4 DEF IdTypes
<1>15. l \in Bearing /\ pc[t] \in Bearing
  BY <1>1, <1>7 DEF Bearing
<1>16. IdTypes'
  <2>1. l \in IdPlaces
    BY <1>7 DEF IdPlaces
  <2>2. pc' \in [Trio -> IdPlaces]
    BY <1>1, <1>4, <2>1 DEF IdTypes
  <2>3. built' \in [ThreadIds!ChunkIds -> Nat]
    BY <1>4, <1>13 DEF IdTypes
  <2>4. element' \in [ThreadIds!Ids -> Int \cup {Nobody}]
    <3>1. element \in [ThreadIds!Ids -> Int \cup {Nobody}]
      BY <1>4 DEF IdTypes
    <3>2. first + k \in Int
      OBVIOUS
    <3> QED BY <1>12, <1>13, <3>1, <3>2
  <2> QED BY <1>2, <1>3, <1>4, <2>2, <2>3, <2>4 DEF IdTypes
<1>17. PoolInv'
  BY <1>1, <1>2, <1>15, <1>16, IdsQuiet, Zenon DEF IdsInv
<1>18. WalkInv'
  <2> SUFFICES ASSUME NEW u \in Trio PROVE WalkOf(u)'
    BY DEF WalkInv
  <2>1. WalkOf(u) /\ walk'[u] = walk[u] /\ num_thread_ids' = num_thread_ids /\ published' = published
    BY <1>2, <1>3 DEF IdsInv, WalkInv
  <2>2. CASE u = t
    BY <1>1, <1>6, <1>7, <1>14, <2>1, <2>2 DEF WalkOf
  <2>3. CASE u # t
    <3>1. PICK i : i = id'[u] /\ i = id[u]
      BY <1>2
    <3> QED BY <1>6, <1>14, <2>1, <2>3, <3>1 DEF WalkOf
  <2> QED BY <2>2, <2>3
<1>19. ASSUME NEW u \in Trio PROVE Builds(u)'
  <2>1. CASE u = t
    <3>1. pc'[u] \in {"build", "store"} /\ growing_mutex' = u
      BY <1>3, <1>5, <1>7, <1>14, <2>1
    <3>2. built'[b] = k + 1
      BY <1>4, <1>13 DEF IdTypes
    <3>3. pc'[u] = "build" => b \notin published' /\ built'[b] < ThreadIds!ChunkLength(b)
      BY <1>3, <1>11, <1>13, <1>14, <2>1, <3>2
    <3>4. pc'[u] = "store" => built'[b] = ThreadIds!ChunkLength(b)
      BY <1>11, <1>13, <1>14, <2>1, <3>2
    <3>5. b = ThreadIds!Wanted(u)'
      BY <1>9, <2>1
    <3> QED BY <3>1, <3>3, <3>4, <3>5 DEF Builds
  <2>2. CASE u # t
    <3>1. Builds(u) /\ pc'[u] = pc[u] /\ growing_mutex' = growing_mutex
      BY <1>3, <1>14, <2>2 DEF IdsInv, BuildInv
    <3> QED BY <1>5, <2>2, <3>1 DEF Builds
  <2> QED BY <2>1, <2>2
<1>20. ASSUME NEW x \in ThreadIds!ChunkIds PROVE BuiltOf(x)'
  <2>1. BuiltOf(x)
    BY DEF IdsInv, BuildInv
  <2>2. \A i \in Nat : element[i] = i \/ i = first + k => element'[i] = i
    BY <1>4, <1>12, <1>13 DEF IdTypes
  <2>3. CASE x = b
    <3>1. built'[x] = k + 1
      BY <1>4, <1>13, <2>3 DEF IdTypes
    <3>2. k + 1 <= size
      BY <1>12
    <3>3. pc'[t] \in {"build", "store"} /\ ThreadIds!Wanted(t)' = x
      BY <1>7, <1>9, <1>14, <2>3
    <3>4. ASSUME NEW i \in Nat, first <= i, i < first + (k + 1) PROVE element'[i] = i
      <4>1. i < first + k \/ i = first + k
        BY <3>4
      <4>2. i < first + k => element[i] = i
        BY <1>10, <1>11, <2>1, <2>3, <3>4 DEF BuiltOf
      <4> QED BY <2>2, <4>1, <4>2
    <3>5. x \notin published'
      BY <1>3, <1>13, <2>3
    <3>6. \A i \in Nat : ThreadIds!First(x) <= i /\ i < ThreadIds!First(x) + built'[x] => element'[i] = i
      BY <1>11, <2>3, <3>1, <3>4
    <3>7. built'[x] <= ThreadIds!ChunkLength(x)
      BY <1>11, <2>3, <3>1, <3>2, Zenon
    <3> QED BY <3>3, <3>5, <3>6, <3>7 DEF BuiltOf
  <2>4. CASE x # b
    <3>1. built'[x] = built[x]
      BY <1>4, <1>13, <2>4 DEF IdTypes
    <3>2. ASSUME NEW u \in Trio, pc[u] \in {"build", "store"}, ThreadIds!Wanted(u) = x
          PROVE  pc'[u] \in {"build", "store"} /\ ThreadIds!Wanted(u)' = x
      BY <1>6, <1>7, <1>14, <3>2
    <3> QED BY <1>3, <2>1, <2>2, <3>1, <3>2 DEF BuiltOf
  <2> QED BY <2>3, <2>4
<1>21. 0 \in published'
  BY <1>3 DEF IdsInv, BuildInv
<1> QED BY <1>17, <1>18, <1>19, <1>20, <1>21 DEF IdsInv, BuildInv

LEMMA IdsStoreStep == ASSUME IdsInv, NEW t \in Trio, ThreadIds!Store(t) PROVE IdsInv'
<1> DEFINE l == IF ThreadIds!Walking(t) THEN "each" ELSE "use"
<1>1. PICK c : c = ThreadIds!Wanted(t)
  OBVIOUS
<1>2. /\ pc[t] = "store" /\ pc' = [pc EXCEPT ![t] = l]
      /\ published' = published \cup {c} /\ growing_mutex' = Nobody
  BY <1>1, Zenon DEF ThreadIds!Store, ThreadIds!At, ThreadIds!Goto
<1>3. UNCHANGED <<num_thread_ids, available_ids, next, pool_mutex, id, current, nxt>>
  BY DEF ThreadIds!Store, ThreadIds!pool, ThreadIds!local
<1>4. UNCHANGED <<built, element, walk>>
  BY DEF ThreadIds!Store
<1>5. IdTypes /\ c \in ThreadIds!ChunkIds
  BY <1>1, <1>2, WantedIsChunk DEF IdsInv, PoolInv
<1>6. \A u \in Trio : /\ ThreadIds!Walking(u)' = ThreadIds!Walking(u)
                      /\ ThreadIds!Wanted(u)' = ThreadIds!Wanted(u)
  <2> SUFFICES ASSUME NEW u \in Trio
               PROVE  /\ ThreadIds!Walking(u)' = ThreadIds!Walking(u)
                      /\ ThreadIds!Wanted(u)' = ThreadIds!Wanted(u)
    OBVIOUS
  <2>1. id'[u] = id[u] /\ walk'[u] = walk[u]
    BY <1>3, <1>4
  <2> QED BY <2>1, WantedStays
<1>7. growing_mutex = t /\ built[c] = ThreadIds!ChunkLength(c) /\ WalkOf(t)
  BY <1>1, <1>2 DEF IdsInv, BuildInv, Builds, WalkInv
<1>8. /\ l \in {"each", "use"}
      /\ l = "each" <=> ThreadIds!Walking(t)
      /\ l = "use" <=> ~ ThreadIds!Walking(t)
  OBVIOUS
<1> HIDE DEF l
<1>9. pc'[t] = l /\ \A u \in Trio : u # t => pc'[u] = pc[u]
  BY <1>2, <1>5 DEF IdTypes
<1>10. l \in Bearing /\ pc[t] \in Bearing
  BY <1>2, <1>8 DEF Bearing
<1>11. IdTypes'
  <2>1. l \in IdPlaces
    BY <1>8 DEF IdPlaces
  <2> QED BY <1>2, <1>3, <1>4, <1>5, <2>1 DEF IdTypes
<1>12. PoolInv'
  BY <1>2, <1>3, <1>10, <1>11, IdsQuiet, Zenon DEF IdsInv
<1>13. WalkInv'
  <2> SUFFICES ASSUME NEW u \in Trio PROVE WalkOf(u)'
    BY DEF WalkInv
  <2>1. /\ WalkOf(u) /\ walk'[u] = walk[u] /\ num_thread_ids' = num_thread_ids
        /\ published \subseteq published'
    BY <1>2, <1>3, <1>4 DEF IdsInv, WalkInv
  <2>2. PICK i : i = id'[u] /\ i = id[u]
    BY <1>3
  <2>3. CASE u = t
    <3>1. l = "use" => ThreadIds!ChunkOf(id[t]) \in published'
      BY <1>1, <1>2, <1>8 DEF ThreadIds!Wanted
    <3> QED BY <1>2, <1>6, <1>8, <1>9, <2>1, <2>2, <2>3, <3>1 DEF WalkOf
  <2>4. CASE u # t
    <3>1. pc'[u] = pc[u] /\ ThreadIds!Walking(u)' = ThreadIds!Walking(u)
      BY <1>6, <1>9, <2>4
    <3> QED BY <2>1, <2>2, <3>1 DEF WalkOf
  <2> QED BY <2>3, <2>4
<1>14. ASSUME NEW u \in Trio, u # t PROVE pc[u] \notin {"build", "store"}
  BY <1>7, <1>14 DEF IdsInv, BuildInv, Builds
<1>15. ASSUME NEW u \in Trio PROVE Builds(u)'
  <2>1. pc'[u] \notin {"build", "store"}
    BY <1>8, <1>9, <1>14
  <2>2. growing_mutex' # u
    BY <1>2, IdsOK
  <2> QED BY <2>1, <2>2 DEF Builds
<1>16. ASSUME NEW b \in ThreadIds!ChunkIds PROVE BuiltOf(b)'
  <2>1. BuiltOf(b)
    BY DEF IdsInv, BuildInv
  <2>2. b \notin published' => b \notin published /\ b # c
    BY <1>2
  <2>3. b # c => ~ \E u \in Trio : pc[u] \in {"build", "store"} /\ ThreadIds!Wanted(u) = b
    BY <1>1, <1>14
  <2>4. b \in published' => built[b] = ThreadIds!ChunkLength(b)
    BY <1>2, <1>7, <2>1 DEF BuiltOf
  <2> QED BY <1>4, <2>1, <2>2, <2>3, <2>4 DEF BuiltOf
<1>17. 0 \in published'
  BY <1>2 DEF IdsInv, BuildInv
<1> QED BY <1>12, <1>13, <1>15, <1>16, <1>17 DEF IdsInv, BuildInv

LEMMA IdsInit == ThreadIds!Init => IdsInv
<1> SUFFICES ASSUME ThreadIds!Init PROVE IdsInv
  OBVIOUS
<1>1. /\ num_thread_ids = 0 /\ available_ids = Nobody /\ pool_mutex = Nobody
      /\ next = [i \in ThreadIds!Ids |-> Nobody]
      /\ pc = [t \in Trio |-> "unborn"] /\ id = [t \in Trio |-> Nobody]
      /\ current = [t \in Trio |-> Nobody] /\ nxt = [t \in Trio |-> Nobody]
  BY DEF ThreadIds!Init
<1>2. /\ built = [c \in ThreadIds!ChunkIds |-> IF c = 0 THEN ChunkSize ELSE 0]
      /\ published = {0} /\ growing_mutex = Nobody
      /\ element = [i \in ThreadIds!Ids |-> IF i < ChunkSize THEN i ELSE Nobody]
      /\ walk = [t \in Trio |-> ThreadIds!NoWalk]
  BY DEF ThreadIds!Init
<1>3. /\ 0 \in ThreadIds!ChunkIds /\ Nobody \notin Trio /\ ChunkSize \in Nat
      /\ \A c \in ThreadIds!ChunkIds : c \in Nat
  BY IdsOK, ChunkFits DEF ThreadIds!ChunkIds
<1>4. IdTypes
  <2>1. ThreadIds!NoWalk \in WalkSet
    BY DEF ThreadIds!NoWalk, WalkSet
  <2>2. element \in [ThreadIds!Ids -> Int \cup {Nobody}]
    <3>1. \A i \in ThreadIds!Ids : i \in Int
      BY IdsNumbers
    <3> QED BY <1>2, <3>1
  <2>3. built \in [ThreadIds!ChunkIds -> Nat]
    BY <1>2, <1>3
  <2> QED BY <1>1, <1>2, <1>3, <2>1, <2>2, <2>3 DEF IdTypes, IdRefs, IdPlaces
<1>5. IdsPlaced /\ IdsOfOne
  BY <1>1, <1>3 DEF IdsPlaced, IdsOfOne, Bearing
<1>6. NoMore
  <2>1. Going = {} /\ Going \in SUBSET Trio
    BY <1>1 DEF Going
  <2>2. Cardinality(Going) <= Cardinality(Trio) /\ Cardinality(Going) \in Nat /\ Cardinality(Trio) \in Nat
    BY <2>1, SubTrio
  <2> QED BY <1>1, <2>2 DEF NoMore
<1>7. \E f : PoolBody(f)
  <2>1. << >> \in Seq(ThreadIds!Ids) /\ Len(<< >>) = 0
    OBVIOUS
  <2>2. ListOfIds(<< >>)
    BY <1>1, <2>1 DEF ListOfIds, IdAt
  <2>3. Taking(<< >>)
    BY <1>1 DEF Taking
  <2>4. IdsAllKnown(<< >>)
    BY <1>1 DEF IdsAllKnown
  <2> QED BY <2>1, <2>2, <2>3, <2>4, Zenon DEF PoolBody
<1>8. PoolInv
  BY <1>4, <1>5, <1>6, <1>7 DEF PoolInv
<1>9. WalkInv
  BY <1>1, <1>2 DEF WalkInv, WalkOf, ThreadIds!Walking
<1>10. \A t \in Trio : Builds(t)
  BY <1>1, <1>2, <1>3 DEF Builds
<1>11. ASSUME NEW c \in ThreadIds!ChunkIds PROVE BuiltOf(c)
  <2>1. ThreadIds!First(0) = 0 /\ ThreadIds!ChunkLength(0) = ChunkSize
    BY DEF ThreadIds!First, ThreadIds!ChunkLength
  <2>2. CASE c = 0
    <3>1. built[c] = ChunkSize /\ c \in published
      BY <1>2, <1>3, <2>2
    <3>2. ASSUME NEW i \in Nat, i < ChunkSize PROVE element[i] = i
      <4>1. PICK most \in Nat : most = ChunkSize * 2 ^ (Chunks - 1)
        BY ChunkFits
      <4>2. 0 + ChunkSize <= most
        BY <1>3, <2>1, <4>1, ChunkFits
      <4>3. i \in ThreadIds!Ids
        BY <1>3, <3>2, <4>1, <4>2 DEF ThreadIds!Ids
      <4> QED BY <1>2, <3>2, <4>3
    <3> QED BY <1>3, <2>1, <2>2, <3>1, <3>2 DEF BuiltOf
  <2>3. CASE c # 0
    <3>1. built[c] = 0 /\ c \notin published
      BY <1>2, <2>3
    <3>2. ThreadIds!First(c) \in Nat /\ ThreadIds!ChunkLength(c) \in Nat
      BY <1>3, ChunkBounds
    <3> QED BY <3>1, <3>2 DEF BuiltOf
  <2> QED BY <2>2, <2>3
<1> QED BY <1>2, <1>8, <1>9, <1>10, <1>11 DEF IdsInv, BuildInv

LEMMA IdsStep == IdsInv /\ ThreadIds!Next => IdsInv'
<1> SUFFICES ASSUME IdsInv, NEW t \in Trio, ThreadIds!Step(t) PROVE IdsInv'
  BY DEF ThreadIds!Next
<1> QED BY IdsAcquireStep, IdsLockStep, IdsLoadNextStep, IdsPopStep, IdsFreshStep, IdsRelinquishStep,
           IdsPushStep, IdsGetStep, IdsUsedStep, IdsForEachStep, IdsVisitStep, IdsWalkedStep,
           IdsGrowingStep, IdsBuildStep, IdsStoreStep DEF ThreadIds!Step

LEMMA IdsSame == IdsInv /\ UNCHANGED <<ofIds, shared>> => IdsInv'
<1> SUFFICES ASSUME IdsInv, UNCHANGED <<ofIds, shared>> PROVE IdsInv'
  OBVIOUS
<1>1. UNCHANGED <<num_thread_ids, available_ids, next, pool_mutex, pc, id, current, nxt>>
  BY DEF ofIds, shared
<1>2. UNCHANGED <<built, published, growing_mutex, element, walk>>
  BY DEF ofIds
<1>3. IdTypes'
  BY <1>1, <1>2 DEF IdsInv, PoolInv, IdTypes
<1>4. IdsPlaced' /\ IdsOfOne'
  BY <1>1 DEF IdsInv, PoolInv, IdsPlaced, IdsOfOne
<1>5. NoMore'
  <2>1. Going' = Going
    BY <1>1 DEF Going
  <2> QED BY <1>1, <2>1 DEF IdsInv, PoolInv, NoMore
<1>6. \E f : PoolBody(f)'
  <2>1. PICK f : PoolBody(f)
    BY DEF IdsInv, PoolInv
  <2> QED BY <1>1, <2>1 DEF PoolBody, ListOfIds, Taking, IdsAllKnown, IdAt
<1>7. PoolInv'
  BY <1>3, <1>4, <1>5, <1>6 DEF PoolInv
<1>8. ASSUME NEW u \in Trio
      PROVE  /\ ThreadIds!Walking(u)' = ThreadIds!Walking(u)
             /\ ThreadIds!Wanted(u)' = ThreadIds!Wanted(u)
  <2>1. id'[u] = id[u] /\ walk'[u] = walk[u]
    BY <1>1, <1>2
  <2> QED BY <2>1, WantedStays
<1>9. ASSUME NEW u \in Trio PROVE WalkOf(u)' /\ Builds(u)'
  <2>1. WalkOf(u) /\ Builds(u)
    BY DEF IdsInv, WalkInv, BuildInv
  <2>2. PICK i : i = id'[u] /\ i = id[u]
    BY <1>1
  <2>3. WalkOf(u)'
    BY <1>1, <1>2, <1>8, <2>1, <2>2 DEF WalkOf
  <2>4. Builds(u)'
    BY <1>1, <1>2, <1>8, <2>1 DEF Builds
  <2> QED BY <2>3, <2>4
<1>10. ASSUME NEW c \in ThreadIds!ChunkIds PROVE BuiltOf(c)'
  <2>1. ASSUME NEW u \in Trio, pc[u] \in {"build", "store"}, ThreadIds!Wanted(u) = c
        PROVE  pc'[u] \in {"build", "store"} /\ ThreadIds!Wanted(u)' = c
    BY <1>1, <1>8, <2>1
  <2>2. BuiltOf(c)
    BY DEF IdsInv, BuildInv
  <2> QED BY <1>2, <2>1, <2>2 DEF BuiltOf
<1> QED BY <1>2, <1>7, <1>9, <1>10 DEF IdsInv, WalkInv, BuildInv

(* What the invariant is for: the elements of the chunks that are there    *)
(* are constructed, each for its id, and a walk passes every one of them.  *)
LEMMA IdsElements == IdsInv => ThreadIds!IdsUnique /\ ThreadIds!ElementsReady
<1> SUFFICES ASSUME IdsInv PROVE ThreadIds!IdsUnique /\ ThreadIds!ElementsReady
  OBVIOUS
<1>1. ThreadIds!IdsUnique
  <2>1. \A t, u \in ThreadIds!Holders : id[t] = id[u] => t = u
    BY DEF ThreadIds!Holders, IdsInv, PoolInv, IdsOfOne
  <2>2. num_thread_ids <= Cardinality(Trio)
    <3>1. Going \in SUBSET Trio
      BY DEF Going
    <3>2. Cardinality(Going) \in Nat /\ Cardinality(Trio) \in Nat
      BY <3>1, SubTrio
    <3> QED BY <3>2 DEF IdsInv, PoolInv, IdTypes, NoMore
  <2>3. ThreadIds!Cardinality(Trio) = Cardinality(Trio)
    BY DEF ThreadIds!Cardinality, Cardinality
  <2> QED BY <2>1, <2>2, <2>3 DEF ThreadIds!IdsUnique
<1>2. ASSUME NEW c \in published, NEW i \in Nat,
             ThreadIds!First(c) <= i, i < ThreadIds!First(c) + ThreadIds!ChunkLength(c)
      PROVE  element[i] = i
  <2>1. c \in ThreadIds!ChunkIds
    BY DEF IdsInv, PoolInv, IdTypes
  <2> QED BY <1>2, <2>1 DEF IdsInv, BuildInv, BuiltOf
<1>3. ASSUME NEW b \in Nat, \A c \in Nat : c < b => c \in published
      PROVE  \A i \in Nat : i < ThreadIds!First(b) => element[i] = i
  <2> DEFINE T == {m \in Nat : m <= b => \A i \in Nat : i < ThreadIds!First(m) => element[i] = i}
  <2>1. 0 \in T
    <3>1. ThreadIds!First(0) = 0
      BY DEF ThreadIds!First
    <3> QED BY <3>1
  <2>2. ASSUME NEW m \in Nat, m \in T PROVE m + 1 \in T
    <3> SUFFICES ASSUME m + 1 <= b, NEW i \in Nat, i < ThreadIds!First(m + 1) PROVE element[i] = i
      OBVIOUS
    <3>1. /\ ThreadIds!First(m) \in Nat /\ ThreadIds!ChunkLength(m) \in Nat
          /\ ThreadIds!First(m + 1) = ThreadIds!First(m) + ThreadIds!ChunkLength(m)
      BY ChunkBounds, Zenon
    <3>2. m < b /\ m \in published
      BY <1>3
    <3>3. CASE i < ThreadIds!First(m)
      BY <2>2, <3>2, <3>3
    <3>4. CASE ThreadIds!First(m) <= i
      BY <1>2, <3>1, <3>2, <3>4
    <3> QED BY <3>1, <3>3, <3>4
  <2>3. Nat \subseteq T
    <3> HIDE DEF T
    <3> QED BY <2>1, <2>2, SetInduction
  <2> QED BY <2>3
<1>4. ASSUME NEW t \in Trio
      PROVE  /\ pc[t] = "use" => element[id[t]] = id[t] /\ ThreadIds!ChunkOf(id[t]) \in published
             /\ \A i \in walk[t].seen : element[i] = i
             /\ pc[t] = "walked" => walk[t].seen = 0 .. walk[t].num - 1
  <2>1. WalkOf(t) /\ walk[t] \in WalkSet
    BY DEF IdsInv, WalkInv, PoolInv, IdTypes
  <2>2. walk[t].chunk \in Nat /\ walk[t].num \in Nat
    BY <2>1 DEF WalkSet
  <2>3. ASSUME pc[t] = "use"
        PROVE  element[id[t]] = id[t] /\ ThreadIds!ChunkOf(id[t]) \in published
    <3>1. PICK i \in ThreadIds!Ids : i = id[t]
      BY <2>3 DEF IdsInv, PoolInv, IdsPlaced, Bearing, IdTypes, IdRefs
    <3>2. PICK c : c = ThreadIds!ChunkOf(i)
      OBVIOUS
    <3>3. c \in published
      BY <2>1, <2>3, <3>1, <3>2 DEF WalkOf
    <3>4. ThreadIds!First(c) <= i /\ i < ThreadIds!First(c) + ThreadIds!ChunkLength(c)
      BY <3>2, ChunkOfId
    <3>5. element[i] = i
      BY <1>2, <3>3, <3>4, IdsNumbers
    <3> QED BY <3>1, <3>2, <3>3, <3>5
  <2>4. ASSUME NEW i \in walk[t].seen PROVE element[i] = i
    <3>1. CASE ThreadIds!Walking(t)
      <4>1. /\ i \in 0 .. walk[t].num - 1 /\ i < ThreadIds!First(walk[t].chunk)
            /\ \A c \in Nat : c < walk[t].chunk => c \in published
        BY <2>1, <2>4, <3>1 DEF WalkOf
      <4>2. i \in Nat
        BY <4>1, <2>2
      <4> QED BY <1>3, <2>2, <4>1, <4>2
    <3>2. CASE ~ ThreadIds!Walking(t)
      BY <2>4, <3>2 DEF ThreadIds!Walking, ThreadIds!NoWalk
    <3> QED BY <3>1, <3>2
  <2>5. ASSUME pc[t] = "walked" PROVE walk[t].seen = 0 .. walk[t].num - 1
    <3>1. /\ ThreadIds!First(walk[t].chunk) >= walk[t].num
          /\ walk[t].seen = {i \in 0 .. walk[t].num - 1 : i < ThreadIds!First(walk[t].chunk)}
      BY <2>1, <2>5 DEF WalkOf
    <3>2. PICK first \in Nat : first = ThreadIds!First(walk[t].chunk)
      BY <2>2, ChunkBounds, Zenon
    <3> QED BY <2>2, <3>1, <3>2
  <2> QED BY <2>3, <2>4, <2>5
<1>5. ThreadIds!ElementsReady
  BY <1>4 DEF ThreadIds!ElementsReady, ThreadIds!At
<1> QED BY <1>1, <1>5

(* No two live threads have one id, no more ids are made than threads, the *)
(* element a thread finds under its id is constructed and for that id, and *)
(* for_each visits constructed elements only, those of all ids there were  *)
(* when it began (thread_id_pool.h, thread_specific.h): for any number of  *)
(* threads, first chunk and number of chunks, if they hold the threads.    *)
THEOREM IdsOwned == Spec => []ElementsOwned
<1> DEFINE Inv == running = "ids" => IdsInv
<1>1. Init => Inv
  BY IdsInit DEF Init
<1>2. Inv /\ [Next]_vars => Inv'
  <2> SUFFICES ASSUME Inv, [Next]_vars, running' = "ids" PROVE IdsInv'
    OBVIOUS
  <2>1. CASE UNCHANGED vars
    BY <2>1, IdsSame DEF vars
  <2>2. CASE Next
    <3>1. running = "ids" /\ ThreadIds!Next
      BY <2>2 DEF Next
    <3> QED BY <3>1, IdsStep
  <2> QED BY <2>1, <2>2
<1>3. Inv => ElementsOwned
  BY IdsElements DEF ElementsOwned
<1> QED BY <1>1, <1>2, <1>3, PTL DEF Spec

=============================================================================

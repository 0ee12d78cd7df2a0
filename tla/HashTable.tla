------------------------------- MODULE HashTable -------------------------------
(***************************************************************************)
(* The phase-concurrent hash table of parlay/hash_table.h: linear probing  *)
(* where an element of higher priority takes the cell of a lower one, so   *)
(* that the layout depends on the contents only. Threads insert (or        *)
(* update) together, or delete together; phases do not overlap, as the     *)
(* comment of the class demands. Every read of a cell and every            *)
(* compare-and-swap is a step.                                             *)
(*                                                                         *)
(* An element is <<key, value>>; the priority of a key is the key (cmp of  *)
(* hash_numeric) and replaceQ and update prefer the larger value.          *)
(***************************************************************************)
EXTENDS Integers, Sequences, FiniteSets, SequencesExt, FiniteSetsExt

CONSTANTS
  Procs,
  Keys,      \* positive integers
  Values,    \* naturals
  M,         \* cells; the table must not fill, nor a cluster reach half of it
  Hash,      \* hash of a key
  MaxCalls   \* bound: calls in all

VARIABLES
  TA,        \* the cells 0 .. M - 1
  phase,     \* what the threads do
  content,   \* the elements the calls so far leave in the table
  me,        \* the locals of every thread
  calls

vars == <<TA, phase, content, me, calls>>

empty == <<>>

Key(e) == e[1]
firstIndex(k)     == Hash[k] % M
incrementIndex(h) == (h + 1) % M
decrementIndex(h) == (h + M - 1) % M
lessIndex(a, b)   == IF a < b THEN 2 * (b - a) < M ELSE 2 * (a - b) > M
cmp(a, b)         == a - b
replaceQ(v, c)    == v[2] > c[2]
update(c, v)      == <<Key(c), IF v[2] > c[2] THEN v[2] ELSE c[2]>>

(* Any half of the ring, or more, has cells for the keys that hash there   *)
(* and one to spare: clusters of full cells are so short that lessIndex    *)
(* can tell which of two of their cells comes first.                       *)
ShortClusters ==
  \A a \in 0 .. M - 1, n \in 1 .. M :
    2 * n >= M => Cardinality({k \in Keys : \E d \in 0 .. n - 1 : firstIndex(k) = (a + d) % M}) < n
Params == /\ M \in Nat \ {0} /\ Keys \subseteq Nat \ {0} /\ Values \subseteq Nat
          /\ IsFiniteSet(Keys) /\ (\A k \in Keys : Hash[k] \in Nat) /\ ShortClusters

(* A key against what a cell holds: an empty cell is lower than any key.   *)
Against(v, c) == IF c = empty THEN 1 ELSE cmp(v, Key(c))

Idle == [pc |-> "idle", v |-> empty, i |-> 0, j |-> 0, c |-> empty,
         jj |-> 0, x |-> empty, jjj |-> 0]

Init ==
  /\ TA = [h \in 0 .. M - 1 |-> empty]
  /\ phase = "insert"
  /\ content = {}
  /\ me = [p \in Procs |-> Idle]
  /\ calls = 0

Goto(p, l, pc) == me' = [me EXCEPT ![p] = [l EXCEPT !.pc = pc]]
Return(p)      == me' = [me EXCEPT ![p] = Idle]
Quiet          == \A p \in Procs : me[p].pc = "idle"

Call(p) ==
  /\ me[p].pc = "idle"
  /\ calls < MaxCalls
  /\ calls' = calls + 1

(* A phase ends when its last call has. *)
ChangePhase ==
  /\ Quiet
  /\ calls < MaxCalls
  /\ phase' \in {"insert", "update", "delete"} \ {phase}
  /\ UNCHANGED <<TA, content, me, calls>>

Put(s, v) ==
  LET old == {c \in s : Key(c) = Key(v)}
  IN  IF \E c \in old : ~replaceQ(v, c) THEN s ELSE (s \ old) \cup {v}

CallInsert(p, v) ==
  /\ Call(p)
  /\ phase \in {"insert", "update"}
  /\ content' = Put(content, v)
  /\ Goto(p, [Idle EXCEPT !.v = v, !.i = firstIndex(Key(v))], "probe")
  /\ UNCHANGED <<TA, phase>>

(* insert and update: look at the cell of i. *)
Probe(p) ==
  LET l    == me[p]
      c    == TA[l.i]
      rank == Against(Key(l.v), c)
  IN  /\ l.pc = "probe"
      /\ \/ /\ rank = 0 /\ ~replaceQ(l.v, c)
            /\ Return(p)
         \/ /\ rank < 0
            /\ Goto(p, [l EXCEPT !.i = incrementIndex(@)], "probe")
         \/ /\ rank = 0 => replaceQ(l.v, c)
            /\ rank >= 0
            /\ Goto(p, [l EXCEPT !.c = c], "cas")
      /\ UNCHANGED <<TA, phase, content, calls>>

(* Put v in the cell read, unless it has changed, and carry the element    *)
(* it bumps, if any, on to the next cell.                                  *)
InsertCas(p) ==
  LET l    == me[p]
      same == l.c # empty /\ Key(l.c) = Key(l.v)
  IN  /\ l.pc = "cas"
      /\ \/ /\ TA[l.i] # l.c
            /\ Goto(p, [l EXCEPT !.c = empty], "probe")
            /\ UNCHANGED TA
         \/ /\ TA[l.i] = l.c
            /\ TA' = [TA EXCEPT ![l.i] =
                        IF same /\ phase = "update" THEN update(l.c, l.v) ELSE l.v]
            /\ IF l.c = empty \/ same THEN Return(p)
               ELSE Goto(p, [l EXCEPT !.v = l.c, !.i = incrementIndex(@), !.c = empty],
                         "probe")
      /\ UNCHANGED <<phase, content, calls>>

CallDelete(p, k) ==
  /\ Call(p)
  /\ phase = "delete"
  /\ content' = {e \in content : Key(e) # k}
  /\ LET i == firstIndex(k)
     IN  Goto(p, [Idle EXCEPT !.v = <<k, 0>>, !.i = i, !.j = i, !.c = TA[i]],
              IF TA[i] = empty THEN "idle" ELSE "down")
  /\ UNCHANGED <<TA, phase>>

(* Find the first cell that is not above v. *)
Descend(p) ==
  LET l == me[p]
      j == incrementIndex(l.j)
  IN  /\ l.pc = "down"
      /\ IF Against(Key(l.v), l.c) < 0
         THEN Goto(p, [l EXCEPT !.j = j, !.c = TA[j]], "down")
         ELSE Goto(p, l, "match")
      /\ UNCHANGED <<TA, phase, content, calls>>

(* The cell read is not v's: back one, until the first cell v may be in.   *)
Back(p) ==
  LET l == me[p]
      j == decrementIndex(l.j)
  IN  /\ l.pc = "match"
      /\ Against(Key(l.v), l.c) # 0
      /\ IF l.j = l.i THEN Return(p)
         ELSE Goto(p, [l EXCEPT !.j = j, !.c = TA[j]], "match")
      /\ UNCHANGED <<TA, phase, content, calls>>

(* An element that cannot move to cell j: it hashes behind it.             *)
Stays(j, x) == x # empty /\ lessIndex(j, firstIndex(Key(x)))

(* v is found: look for the element that may fill its cell, ...            *)
Found(p) ==
  LET l == me[p]
      n == incrementIndex(l.j)
  IN  /\ l.pc = "match"
      /\ Against(Key(l.v), l.c) = 0
      /\ Goto(p, [l EXCEPT !.jj = n, !.x = TA[n]], "scan")
      /\ UNCHANGED <<TA, phase, content, calls>>

(* Fault: the cells in between are not looked at a second time.            *)
ScanUp_Once(p) ==
  LET l == me[p]
      n == incrementIndex(l.jj)
  IN  /\ l.pc = "scan"
      /\ IF Stays(l.j, l.x)
         THEN Goto(p, [l EXCEPT !.jj = n, !.x = TA[n]], "scan")
         ELSE Goto(p, l, "replace")
      /\ UNCHANGED <<TA, phase, content, calls>>

ScanUp(p) ==
  LET l == me[p]
      n == incrementIndex(l.jj)
  IN  /\ l.pc = "scan"
      /\ IF Stays(l.j, l.x)
         THEN Goto(p, [l EXCEPT !.jj = n, !.x = TA[n]], "scan")
         ELSE Goto(p, [l EXCEPT !.jjj = decrementIndex(l.jj)], "rescan")
      /\ UNCHANGED <<TA, phase, content, calls>>

(* ... and again downwards, as others may have moved it meanwhile.         *)
ScanDown(p) ==
  LET l == me[p]
      y == TA[l.jjj]
      n == [l EXCEPT !.jjj = decrementIndex(@)]
  IN  /\ l.pc = "rescan"
      /\ IF l.jjj = l.j THEN Goto(p, l, "replace")
         ELSE IF Stays(l.j, y) THEN Goto(p, n, "rescan")
         ELSE Goto(p, [n EXCEPT !.x = y, !.jj = l.jjj], "rescan")
      /\ UNCHANGED <<TA, phase, content, calls>>

(* Fill the cell; the element that filled it is there twice now: go on to  *)
(* delete it where it was.                                                 *)
Replace(p) ==
  LET l == me[p]
      moved == [l EXCEPT !.v = l.x, !.j = l.jj, !.i = firstIndex(Key(l.x))]
  IN  /\ l.pc = "replace"
      /\ \/ /\ TA[l.j] # l.c
            /\ Goto(p, l, "reread")
            /\ UNCHANGED TA
         \/ /\ TA[l.j] = l.c
            /\ TA' = [TA EXCEPT ![l.j] = l.x]
            /\ IF l.x = empty THEN Return(p) ELSE Goto(p, moved, "reread")
      /\ UNCHANGED <<phase, content, calls>>

Reread(p) ==
  LET l == me[p]
  IN  /\ l.pc = "reread"
      /\ Goto(p, [l EXCEPT !.c = TA[l.j], !.x = empty, !.jj = 0, !.jjj = 0], "match")
      /\ UNCHANGED <<TA, phase, content, calls>>

Step(p) ==
  \/ \E k \in Keys, n \in Values : CallInsert(p, <<k, n>>)
  \/ \E k \in Keys : CallDelete(p, k)
  \/ Probe(p) \/ InsertCas(p) \/ Descend(p) \/ Back(p) \/ Found(p)
  \/ ScanUp(p) \/ ScanDown(p) \/ Replace(p) \/ Reread(p)

Next == ChangePhase \/ \E p \in Procs : Step(p)
Spec == Init /\ [][Next]_vars

-------------------------------------------------------------------------------
(* Reads of a table nobody changes. *)
Stop(k) ==
  LET at(d) == TA[(firstIndex(k) + d) % M]
  IN  (firstIndex(k) + Min({d \in 0 .. M - 1 : Against(k, at(d)) >= 0})) % M
findIndex(k) == IF Against(k, TA[Stop(k)]) = 0 THEN Stop(k) ELSE -1
find(k)      == IF findIndex(k) = -1 THEN empty ELSE TA[findIndex(k)]
count        == Cardinality({h \in 0 .. M - 1 : TA[h] # empty})
entries      ==
  LET kept[n \in 0 .. M] ==
        IF n = 0 THEN << >>
        ELSE IF TA[n - 1] = empty THEN kept[n - 1] ELSE Append(kept[n - 1], TA[n - 1])
  IN  kept[M]
get_index    == [h \in 0 .. M - 1 |-> Cardinality({g \in 0 .. h - 1 : TA[g] # empty})]

(* The layout of a set of elements: each, from the highest priority down,  *)
(* in the first free cell from its hash.                                   *)
Layout(s) ==
  LET Place(e, cells) ==
        LET h == firstIndex(Key(e))
            d == Min({n \in 0 .. M - 1 : cells[(h + n) % M] = empty})
        IN  [cells EXCEPT ![(h + d) % M] = e]
      Lowest(r) == CHOOSE e \in r : \A f \in r : Key(e) <= Key(f)
  IN  MapThenFoldSet(Place, [h \in 0 .. M - 1 |-> empty], LAMBDA e : e, Lowest, s)

(* Between phases the cells hold exactly what the calls left, laid out as  *)
(* if it had been inserted in order of priority, whatever the threads of   *)
(* a phase did to one another; so every key is found, and counted, once.   *)
HistoryIndependent ==
  Quiet => /\ TA = Layout(content)
           /\ \A k \in Keys :
                find(k) = IF \E e \in content : Key(e) = k
                          THEN CHOOSE e \in content : Key(e) = k ELSE empty
           /\ count = Cardinality(content)
           /\ ToSet(entries) = content
           /\ \A h \in 0 .. M - 1 : TA[h] # empty => entries[get_index[h] + 1] = TA[h]
=============================================================================

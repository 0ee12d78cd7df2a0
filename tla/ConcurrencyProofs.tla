-------------------------- MODULE ConcurrencyProofs --------------------------
(***************************************************************************)
(* Theorems about the concurrent structures of MCConcurrency, for any      *)
(* threads, addresses, words and bounds.  A behaviour is one of a single   *)
(* structure, so a theorem about a structure is one about its own steps.   *)
(***************************************************************************)
EXTENDS MCConcurrency, TLAPS

-----------------------------------------------------------------------------
(* The sequence lock (BigAtomic).  Stored counts the stores; the version   *)
(* is twice that, and one more while a store is under way.                 *)
Labels == {"ll", "read", "linked", "lock", "recheck", "odd", "write", "unlock"}
Stored == Len(wrote) - 1
Holding(t) == pc[t] \in {"recheck", "odd", "write", "unlock"}

AtomicTypes ==
  /\ version \in Nat /\ lock \in BOOLEAN /\ val \in [Words -> Nat]
  /\ pc \in [Trio -> Labels] /\ tag \in [Trio -> Nat]
  /\ copy \in [Trio -> [Words -> Nat]] /\ value \in [Trio -> [Words -> Nat]]
  /\ todo \in [Trio -> SUBSET Words]
  /\ wrote \in Seq([Words -> Nat]) /\ wrote # << >>

StoresCount == \A i \in 1 .. Len(wrote) : wrote[i] = Atomic!Whole(i - 1)

OneHolder ==
  /\ \A t \in Trio : Holding(t) => lock
  /\ \A t, u \in Trio : Holding(t) /\ Holding(u) => t = u

VersionInv ==
  /\ (\E t \in Trio : pc[t] = "write") => version = 2 * Stored + 1
  /\ (\A t \in Trio : pc[t] # "write") => version = 2 * Stored /\ val = Atomic!Whole(Stored)

(* The words that a reader has read belong together as long as the version *)
(* is the one it has seen; what it is linked to is a whole store.          *)
ReaderInv(t) ==
  /\ pc[t] = "read" =>
       /\ tag[t] <= version
       /\ tag[t] = version /\ version = 2 * Stored =>
            \A w \in Words \ todo[t] : copy[t][w] = Stored
  /\ pc[t] \in {"linked", "lock", "recheck", "odd"} =>
       \E k \in 0 .. Stored : tag[t] = 2 * k /\ value[t] = Atomic!Whole(k)

(* A writer replaces the last store, word by word.                         *)
WriterInv(t) ==
  /\ pc[t] \in {"odd", "write"} => tag[t] = 2 * Stored /\ copy[t] = Atomic!Whole(Stored + 1)
  /\ pc[t] = "odd" => todo[t] = Words
  /\ pc[t] = "write" => \A w \in Words : val[w] = IF w \in todo[t] THEN Stored ELSE Stored + 1

AtomicInv ==
  /\ AtomicTypes /\ StoresCount /\ OneHolder /\ VersionInv
  /\ \A t \in Trio : ReaderInv(t) /\ WriterInv(t)

LEMMA AtomicSteps ==
  ASSUME [Next]_vars, running = "atomic"
  PROVE  /\ running' = "atomic"
         /\ Atomic!Next \/ UNCHANGED <<version, val, lock, pc, tag, copy, todo, value, wrote>>
BY DEF Next, vars, ofAtomic, shared

LEMMA WholeType == \A i \in Nat : Atomic!Whole(i) \in [Words -> Nat]
BY DEF Atomic!Whole

LEMMA StoredType == AtomicTypes => Stored \in Nat /\ Len(wrote) = Stored + 1
BY DEF AtomicTypes, Stored

LEMMA TypesStep == AtomicInv /\ Atomic!Next => AtomicTypes'
<1> SUFFICES ASSUME AtomicInv, NEW t \in Trio, Atomic!Step(t) PROVE AtomicTypes'
  BY DEF Atomic!Next
<1>1. CASE Atomic!ReadVersion(t)
  BY <1>1 DEF Atomic!ReadVersion, Atomic!Goto, AtomicInv, AtomicTypes, Labels
<1>2. CASE Atomic!ReadWord(t)
  <2>1. PICK w \in todo[t] : /\ copy' = [copy EXCEPT ![t][w] = val[w]]
                             /\ todo' = [todo EXCEPT ![t] = @ \ {w}]
    BY <1>2, Zenon DEF Atomic!ReadWord
  <2>2. w \in Words /\ val[w] \in Nat
    BY DEF AtomicInv, AtomicTypes
  <2>3. copy' \in [Trio -> [Words -> Nat]] /\ todo' \in [Trio -> SUBSET Words]
    BY <2>1, <2>2 DEF AtomicInv, AtomicTypes
  <2> QED BY <1>2, <2>3, Zenon DEF Atomic!ReadWord, AtomicInv, AtomicTypes
<1>3. CASE Atomic!Validate(t)
  BY <1>3, Zenon DEF Atomic!Validate, Atomic!Goto, AtomicInv, AtomicTypes, Labels
<1>4. CASE Atomic!Begin(t)
  BY <1>4, Zenon DEF Atomic!Begin, Atomic!Goto, AtomicInv, AtomicTypes, Labels
<1>5. CASE Atomic!TryLock(t)
  BY <1>5, Zenon DEF Atomic!TryLock, Atomic!Goto, AtomicInv, AtomicTypes, Labels
<1>6. CASE Atomic!Recheck(t)
  <2>1. value[t][CHOOSE w \in Words : TRUE] + 1 \in Nat
    BY WordsOK DEF AtomicInv, AtomicTypes
  <2>2. Atomic!Whole(value[t][CHOOSE w \in Words : TRUE] + 1) \in [Words -> Nat]
    BY <2>1, WholeType, Zenon
  <2>3. copy' = copy \/ \E v \in [Words -> Nat] : copy' = [copy EXCEPT ![t] = v]
    BY <1>6, <2>2 DEF Atomic!Recheck
  <2>4. todo' = todo \/ todo' = [todo EXCEPT ![t] = Words]
    BY <1>6 DEF Atomic!Recheck
  <2>5. pc' = [pc EXCEPT ![t] = "unlock"] \/ pc' = [pc EXCEPT ![t] = "odd"]
    BY <1>6 DEF Atomic!Recheck, Atomic!Goto
  <2>6. copy' \in [Trio -> [Words -> Nat]] /\ todo' \in [Trio -> SUBSET Words]
    <3>1. copy \in [Trio -> [Words -> Nat]] /\ todo \in [Trio -> SUBSET Words]
      BY DEF AtomicInv, AtomicTypes
    <3>2. copy' \in [Trio -> [Words -> Nat]]
      BY <2>3, <3>1
    <3>3. todo' \in [Trio -> SUBSET Words]
      BY <2>4, <3>1
    <3> QED BY <3>2, <3>3
  <2>7. pc' \in [Trio -> Labels]
    BY <2>5, Zenon DEF AtomicInv, AtomicTypes, Labels
  <2>8. UNCHANGED <<version, val, lock, tag, value, wrote>>
    BY <1>6 DEF Atomic!Recheck
  <2> QED BY <2>6, <2>7, <2>8 DEF AtomicInv, AtomicTypes
<1>7. CASE Atomic!MarkOdd(t)
  BY <1>7 DEF Atomic!MarkOdd, Atomic!Goto, AtomicInv, AtomicTypes, Labels
<1>8. CASE Atomic!WriteWord(t)
  BY <1>8 DEF Atomic!WriteWord, AtomicInv, AtomicTypes
<1>9. CASE Atomic!MarkEven(t)
  <2>1. wrote' = Append(wrote, copy[t]) /\ copy[t] \in [Words -> Nat]
        /\ wrote \in Seq([Words -> Nat])
    BY <1>9 DEF Atomic!MarkEven, AtomicInv, AtomicTypes
  <2>2. wrote' \in Seq([Words -> Nat]) /\ wrote' # << >>
    BY <2>1
  <2>3. version' \in Nat /\ pc' \in [Trio -> Labels]
    BY <1>9 DEF Atomic!MarkEven, Atomic!Goto, AtomicInv, AtomicTypes, Labels
  <2> QED BY <1>9, <2>2, <2>3 DEF Atomic!MarkEven, AtomicInv, AtomicTypes
<1>10. CASE Atomic!Unlock(t)
  BY <1>10, WholeType, Zenon DEF Atomic!Unlock, Atomic!Goto, AtomicInv, AtomicTypes, Labels
<1> QED
  BY <1>1, <1>2, <1>3, <1>4, <1>5, <1>6, <1>7, <1>8, <1>9, <1>10 DEF Atomic!Step

(* A step of t that is none of a writer's leaves the others where they     *)
(* were: what is to show concerns t alone.                                 *)
LEMMA PrivateStep ==
  ASSUME AtomicInv, NEW t \in Trio, UNCHANGED <<version, val, wrote>>,
         \A u \in Trio \ {t} : /\ pc'[u] = pc[u] /\ tag'[u] = tag[u] /\ copy'[u] = copy[u]
                               /\ todo'[u] = todo[u] /\ value'[u] = value[u],
         pc[t] # "write", pc'[t] # "write",
         AtomicTypes', OneHolder', ReaderInv(t)', WriterInv(t)'
  PROVE  AtomicInv'
<1>1. StoresCount' /\ Stored' = Stored
  BY DEF AtomicInv, StoresCount, Stored
<1>2. \A u \in Trio : pc'[u] = "write" <=> pc[u] = "write"
  OBVIOUS
<1>3. VersionInv'
  BY <1>1, <1>2 DEF AtomicInv, VersionInv
<1>4. ASSUME NEW u \in Trio PROVE ReaderInv(u)' /\ WriterInv(u)'
  BY <1>1 DEF AtomicInv, ReaderInv, WriterInv
<1> QED BY <1>1, <1>3, <1>4 DEF AtomicInv

(* While t holds the lock and writes nothing, nobody does.                 *)
LEMMA HolderQuiet ==
  ASSUME AtomicInv, NEW t \in Trio, Holding(t), pc[t] # "write"
  PROVE  version = 2 * Stored /\ val = Atomic!Whole(Stored)
<1>1. \A u \in Trio : pc[u] # "write"
  BY DEF AtomicInv, OneHolder, Holding
<1> QED BY <1>1 DEF AtomicInv, VersionInv

LEMMA ReadVersionStep == ASSUME AtomicInv, NEW t \in Trio, Atomic!ReadVersion(t), AtomicTypes' PROVE AtomicInv'
<1>1. /\ pc[t] = "ll" /\ pc' = [pc EXCEPT ![t] = "read"] /\ tag' = [tag EXCEPT ![t] = version]
      /\ todo' = [todo EXCEPT ![t] = Words]
      /\ UNCHANGED <<version, val, lock, copy, value, wrote>>
  BY DEF Atomic!ReadVersion, Atomic!Goto
<1>2. OneHolder'
  BY <1>1 DEF AtomicInv, AtomicTypes, OneHolder, Holding
<1>3. ReaderInv(t)' /\ WriterInv(t)'
  BY <1>1 DEF AtomicInv, AtomicTypes, ReaderInv, WriterInv
<1>4. \A u \in Trio \ {t} : /\ pc'[u] = pc[u] /\ tag'[u] = tag[u] /\ copy'[u] = copy[u]
                            /\ todo'[u] = todo[u] /\ value'[u] = value[u]
  BY <1>1 DEF AtomicInv, AtomicTypes
<1>5. pc'[t] = "read"
  BY <1>1 DEF AtomicInv, AtomicTypes
<1> QED BY <1>1, <1>2, <1>3, <1>4, <1>5, PrivateStep

LEMMA ReadWordStep == ASSUME AtomicInv, NEW t \in Trio, Atomic!ReadWord(t), AtomicTypes' PROVE AtomicInv'
<1>1. PICK w \in todo[t] : /\ copy' = [copy EXCEPT ![t][w] = val[w]]
                           /\ todo' = [todo EXCEPT ![t] = @ \ {w}]
  BY Zenon DEF Atomic!ReadWord
<1>2. pc[t] = "read" /\ UNCHANGED <<version, val, lock, pc, tag, value, wrote>>
  BY DEF Atomic!ReadWord
<1>3. OneHolder'
  BY <1>2 DEF AtomicInv, OneHolder, Holding
<1>4. ASSUME tag[t] = version, version = 2 * Stored, NEW v \in Words, v \notin todo'[t]
      PROVE  copy'[t][v] = Stored
  <2>1. todo'[t] = todo[t] \ {w}
    BY <1>1 DEF AtomicInv, AtomicTypes
  <2>2. CASE v = w
    <3>1. \A u \in Trio : pc[u] # "write"
      BY <1>4, StoredType DEF AtomicInv, VersionInv
    <3>2. val[v] = Stored
      BY <3>1 DEF AtomicInv, VersionInv, Atomic!Whole
    <3>3. copy'[t][v] = val[v]
      BY <1>1, <2>2 DEF AtomicInv, AtomicTypes
    <3> QED BY <3>2, <3>3
  <2>3. CASE v # w
    <3>1. copy'[t][v] = copy[t][v] /\ v \in Words \ todo[t]
      BY <1>1, <1>4, <2>1, <2>3 DEF AtomicInv, AtomicTypes
    <3> QED BY <1>2, <1>4, <3>1 DEF AtomicInv, ReaderInv
  <2> QED BY <2>2, <2>3
<1>5. ReaderInv(t)' /\ WriterInv(t)'
  <2>1. Stored' = Stored
    BY <1>2 DEF Stored
  <2>2. tag[t] <= version
    BY <1>2 DEF AtomicInv, ReaderInv
  <2> QED BY <1>2, <1>4, <2>1, <2>2 DEF ReaderInv, WriterInv
<1>6. \A u \in Trio \ {t} : copy'[u] = copy[u] /\ todo'[u] = todo[u]
  BY <1>1 DEF AtomicInv, AtomicTypes
<1> QED BY <1>2, <1>3, <1>5, <1>6, PrivateStep

(* An even version that has not moved: nobody has written meanwhile.       *)
LEMMA SettledRead ==
  ASSUME AtomicInv, NEW t \in Trio, pc[t] = "read", todo[t] = {}, Atomic!Settled(t)
  PROVE  tag[t] = 2 * Stored /\ copy[t] = Atomic!Whole(Stored)
<1>1. tag[t] % 2 = 0 /\ version = tag[t]
  BY DEF Atomic!Settled
<1>2. Stored \in Nat
  BY StoredType DEF AtomicInv
<1>3. version = 2 * Stored \/ version = 2 * Stored + 1
  BY DEF AtomicInv, VersionInv
<1>4. (2 * Stored + 1) % 2 = 1
  BY <1>2
<1>5. version = 2 * Stored
  BY <1>1, <1>3, <1>4
<1>6. \A w \in Words : copy[t][w] = Stored
  BY <1>1, <1>5, Zenon DEF AtomicInv, ReaderInv
<1>7. copy[t] \in [Words -> Nat]
  BY DEF AtomicInv, AtomicTypes
<1> QED BY <1>1, <1>5, <1>6, <1>7 DEF Atomic!Whole

LEMMA ValidateStep == ASSUME AtomicInv, NEW t \in Trio, Atomic!Validate(t), AtomicTypes' PROVE AtomicInv'
<1>1. /\ pc[t] = "read" /\ todo[t] = {}
      /\ UNCHANGED <<version, val, lock, tag, copy, todo, wrote>>
      /\ \/ Atomic!Settled(t) /\ value' = [value EXCEPT ![t] = copy[t]] /\ pc' = [pc EXCEPT ![t] = "linked"]
         \/ value' = value /\ pc' = [pc EXCEPT ![t] = "ll"]
  BY DEF Atomic!Validate, Atomic!Goto
<1>2. OneHolder'
  BY <1>1 DEF AtomicInv, AtomicTypes, OneHolder, Holding
<1>3. pc'[t] \in {"linked", "ll"}
  BY <1>1 DEF AtomicInv, AtomicTypes
<1>4. ASSUME pc'[t] = "linked"
      PROVE  tag[t] = 2 * Stored /\ value'[t] = Atomic!Whole(Stored) /\ Stored \in 0 .. Stored
  <2>1. Atomic!Settled(t) /\ value' = [value EXCEPT ![t] = copy[t]]
    BY <1>1, <1>4 DEF AtomicInv, AtomicTypes
  <2>2. value'[t] = copy[t] /\ Stored \in Nat
    BY <2>1, StoredType DEF AtomicInv, AtomicTypes
  <2> QED BY <1>1, <2>1, <2>2, SettledRead
<1>5. ReaderInv(t)' /\ WriterInv(t)'
  <2>1. Stored' = Stored /\ Atomic!Whole(Stored)' = Atomic!Whole(Stored)
    BY <1>1 DEF Stored, Atomic!Whole
  <2> QED BY <1>1, <1>3, <1>4, <2>1, Zenon DEF ReaderInv, WriterInv, Atomic!Whole
<1>6. \A u \in Trio \ {t} : pc'[u] = pc[u] /\ value'[u] = value[u]
  BY <1>1, Zenon DEF AtomicInv, AtomicTypes
<1> QED BY <1>1, <1>2, <1>3, <1>5, <1>6, PrivateStep

(* Between a load and its store t stays linked to what it has loaded.      *)
LEMMA LinkKept ==
  ASSUME AtomicInv, NEW t \in Trio, pc[t] \in {"linked", "lock", "recheck"},
         UNCHANGED <<wrote, tag, value>>,
         pc'[t] \in {"ll", "linked", "lock", "recheck", "unlock"}
  PROVE  ReaderInv(t)' /\ WriterInv(t)'
<1>1. Stored' = Stored
  BY DEF Stored
<1>2. PICK k \in 0 .. Stored : tag[t] = 2 * k /\ value[t] = Atomic!Whole(k)
  BY DEF AtomicInv, ReaderInv
<1> QED BY <1>1, <1>2 DEF ReaderInv, WriterInv, Atomic!Whole

LEMMA BeginStep == ASSUME AtomicInv, NEW t \in Trio, Atomic!Begin(t), AtomicTypes' PROVE AtomicInv'
<1>1. /\ pc[t] = "linked" /\ UNCHANGED <<version, val, lock, tag, copy, todo, value, wrote>>
      /\ pc' = [pc EXCEPT ![t] = "ll"] \/ pc' = [pc EXCEPT ![t] = "lock"]
  BY DEF Atomic!Begin, Atomic!Goto
<1>2. pc'[t] \in {"ll", "lock"} /\ \A u \in Trio \ {t} : pc'[u] = pc[u]
  BY <1>1 DEF AtomicInv, AtomicTypes
<1>3. OneHolder'
  BY <1>1, <1>2 DEF AtomicInv, OneHolder, Holding
<1> QED BY <1>1, <1>2, <1>3, LinkKept, PrivateStep

LEMMA TryLockStep == ASSUME AtomicInv, NEW t \in Trio, Atomic!TryLock(t), AtomicTypes' PROVE AtomicInv'
<1>1. /\ pc[t] = "lock" /\ UNCHANGED <<version, val, tag, copy, todo, value, wrote>>
      /\ \/ pc' = [pc EXCEPT ![t] = "linked"] /\ lock' = lock
         \/ pc' = [pc EXCEPT ![t] = "recheck"] /\ ~lock /\ lock' = TRUE
  BY DEF Atomic!TryLock, Atomic!Goto
<1>2. pc'[t] \in {"linked", "recheck"} /\ \A u \in Trio \ {t} : pc'[u] = pc[u]
  BY <1>1 DEF AtomicInv, AtomicTypes
<1>3. OneHolder'
  <2>1. CASE pc' = [pc EXCEPT ![t] = "linked"] /\ lock' = lock
    BY <1>2, <2>1 DEF AtomicInv, AtomicTypes, OneHolder, Holding
  <2>2. CASE ~lock /\ lock' = TRUE
    <3>1. \A u \in Trio : ~Holding(u)
      BY <2>2 DEF AtomicInv, OneHolder
    <3>2. \A u \in Trio \ {t} : ~Holding(u)'
      BY <1>2, <3>1 DEF Holding
    <3> QED BY <2>2, <3>2 DEF OneHolder
  <2> QED BY <1>1, <2>1, <2>2, Zenon
<1> QED BY <1>1, <1>2, <1>3, LinkKept, PrivateStep

LEMMA RecheckStep == ASSUME AtomicInv, NEW t \in Trio, Atomic!Recheck(t), AtomicTypes' PROVE AtomicInv'
<1> DEFINE new == Atomic!Whole(value[t][CHOOSE w \in Words : TRUE] + 1)
<1>1. /\ pc[t] = "recheck" /\ UNCHANGED <<version, val, lock, tag, value, wrote>>
      /\ \/ pc' = [pc EXCEPT ![t] = "unlock"] /\ UNCHANGED <<copy, todo>>
         \/ /\ version = tag[t] /\ pc' = [pc EXCEPT ![t] = "odd"]
            /\ copy' = [copy EXCEPT ![t] = new] /\ todo' = [todo EXCEPT ![t] = Words]
  BY DEF Atomic!Recheck, Atomic!Goto
<1>2. /\ pc'[t] \in {"unlock", "odd"}
      /\ \A u \in Trio \ {t} : pc'[u] = pc[u] /\ copy'[u] = copy[u] /\ todo'[u] = todo[u]
  BY <1>1, Zenon DEF AtomicInv, AtomicTypes
<1>3. OneHolder'
  BY <1>1, <1>2 DEF AtomicInv, OneHolder, Holding
<1>4. ReaderInv(t)' /\ WriterInv(t)'
  <2>1. CASE pc'[t] = "unlock"
    BY <1>1, <2>1, LinkKept
  <2>2. CASE pc'[t] = "odd"
    <3>1. version = tag[t] /\ copy' = [copy EXCEPT ![t] = new] /\ todo' = [todo EXCEPT ![t] = Words]
      BY <1>1, <2>2 DEF AtomicInv, AtomicTypes
    <3>2. copy'[t] = new /\ todo'[t] = Words
      BY <3>1 DEF AtomicInv, AtomicTypes
    <3>3. version = 2 * Stored
      BY <1>1, HolderQuiet DEF Holding
    <3>4. PICK k \in 0 .. Stored : tag[t] = 2 * k /\ value[t] = Atomic!Whole(k)
      BY <1>1 DEF AtomicInv, ReaderInv
    <3>5. k = Stored /\ Stored \in Nat
      <4>1. Stored \in Nat
        BY StoredType DEF AtomicInv
      <4>2. tag[t] = 2 * Stored
        BY <3>1, <3>3
      <4>3. 2 * k = 2 * Stored
        BY <3>4, <4>2
      <4> QED BY <4>1, <4>3
    <3>6. value[t][CHOOSE w \in Words : TRUE] = Stored
      BY <3>4, <3>5, WordsOK DEF Atomic!Whole
    <3>7. copy'[t] = Atomic!Whole(Stored + 1)
      BY <3>2, <3>6
    <3>8. Stored' = Stored /\ Stored \in 0 .. Stored
      BY <1>1, <3>5 DEF Stored
    <3> QED BY <1>1, <2>2, <3>2, <3>4, <3>5, <3>7, <3>8 DEF ReaderInv, WriterInv, Atomic!Whole
  <2> QED BY <1>2, <2>1, <2>2
<1> QED BY <1>1, <1>2, <1>3, <1>4, PrivateStep

LEMMA UnlockStep == ASSUME AtomicInv, NEW t \in Trio, Atomic!Unlock(t), AtomicTypes' PROVE AtomicInv'
<1>1. /\ pc[t] = "unlock" /\ lock' = FALSE /\ pc' = [pc EXCEPT ![t] = "ll"]
      /\ copy' = [copy EXCEPT ![t] = Atomic!Whole(0)]
      /\ UNCHANGED <<version, val, tag, todo, value, wrote>>
  BY DEF Atomic!Unlock, Atomic!Goto
<1>2. pc'[t] = "ll" /\ \A u \in Trio \ {t} : pc'[u] = pc[u] /\ copy'[u] = copy[u]
  BY <1>1 DEF AtomicInv, AtomicTypes
<1>3. \A u \in Trio : ~Holding(u)'
  BY <1>1, <1>2 DEF AtomicInv, OneHolder, Holding
<1>4. OneHolder'
  BY <1>3 DEF OneHolder
<1>5. ReaderInv(t)' /\ WriterInv(t)'
  BY <1>2 DEF ReaderInv, WriterInv
<1> QED BY <1>1, <1>2, <1>4, <1>5, PrivateStep

-----------------------------------------------------------------------------
(* The store: t alone writes, and everyone else's conjuncts are those that *)
(* name the version, the value or the stores.                              *)
LEMMA Alone ==
  ASSUME AtomicInv, NEW t \in Trio, Holding(t), NEW u \in Trio \ {t}
  PROVE  pc[u] \notin {"recheck", "odd", "write", "unlock"}
BY DEF AtomicInv, OneHolder, Holding

LEMMA MarkOddStep == ASSUME AtomicInv, NEW t \in Trio, Atomic!MarkOdd(t), AtomicTypes' PROVE AtomicInv'
<1>1. /\ pc[t] = "odd" /\ version' = tag[t] + 1 /\ pc' = [pc EXCEPT ![t] = "write"]
      /\ UNCHANGED <<val, lock, tag, copy, todo, value, wrote>>
  BY DEF Atomic!MarkOdd, Atomic!Goto
<1>2. pc'[t] = "write" /\ \A u \in Trio \ {t} : pc'[u] = pc[u]
  BY <1>1 DEF AtomicInv, AtomicTypes
<1>3. /\ tag[t] = 2 * Stored /\ version = 2 * Stored /\ val = Atomic!Whole(Stored)
      /\ todo[t] = Words /\ copy[t] = Atomic!Whole(Stored + 1) /\ Stored \in Nat
  BY <1>1, HolderQuiet, StoredType DEF Holding, AtomicInv, WriterInv
<1>4. Stored' = Stored /\ version' = 2 * Stored + 1
  BY <1>1, <1>3 DEF Stored
<1>5. StoresCount' /\ OneHolder'
  BY <1>1, <1>2 DEF AtomicInv, StoresCount, OneHolder, Holding
<1>6. VersionInv'
  BY <1>2, <1>4 DEF VersionInv
<1>7. ReaderInv(t)' /\ WriterInv(t)'
  BY <1>1, <1>2, <1>3, <1>4 DEF ReaderInv, WriterInv, Atomic!Whole
<1>8. ASSUME NEW u \in Trio \ {t} PROVE ReaderInv(u)' /\ WriterInv(u)'
  <2>1. pc[u] \notin {"recheck", "odd", "write", "unlock"}
    BY <1>1, Alone DEF Holding
  <2>2. WriterInv(u)'
    BY <1>2, <2>1 DEF WriterInv
  <2>3. ReaderInv(u)'
    <3>1. pc[u] = "read" => tag[u] <= version' /\ version' # 2 * Stored
      BY <1>3, <1>4 DEF AtomicInv, AtomicTypes, ReaderInv
    <3>2. pc[u] \in {"linked", "lock", "recheck", "odd"} =>
            \E k \in 0 .. Stored : tag[u] = 2 * k /\ value[u] = Atomic!Whole(k)
      BY DEF AtomicInv, ReaderInv
    <3> QED BY <1>1, <1>2, <1>4, <3>1, <3>2 DEF ReaderInv, Atomic!Whole
  <2> QED BY <2>2, <2>3
<1> QED BY <1>5, <1>6, <1>7, <1>8 DEF AtomicInv

LEMMA WriteWordStep == ASSUME AtomicInv, NEW t \in Trio, Atomic!WriteWord(t), AtomicTypes' PROVE AtomicInv'
<1>1. PICK w \in todo[t] : /\ val' = [val EXCEPT ![w] = copy[t][w]]
                           /\ todo' = [todo EXCEPT ![t] = @ \ {w}]
  BY Zenon DEF Atomic!WriteWord
<1>2. pc[t] = "write" /\ UNCHANGED <<version, lock, pc, tag, copy, value, wrote>>
  BY DEF Atomic!WriteWord
<1>3. Stored' = Stored /\ Stored \in Nat
  BY <1>2, StoredType DEF Stored, AtomicInv
<1>4. /\ todo'[t] = todo[t] \ {w} /\ \A u \in Trio \ {t} : todo'[u] = todo[u]
      /\ val'[w] = copy[t][w] /\ \A v \in Words \ {w} : val'[v] = val[v]
      /\ w \in Words
  BY <1>1 DEF AtomicInv, AtomicTypes
<1>5. StoresCount' /\ OneHolder' /\ VersionInv'
  BY <1>2, <1>3 DEF AtomicInv, StoresCount, OneHolder, Holding, VersionInv
<1>6. copy[t] = Atomic!Whole(Stored + 1) /\ tag[t] = 2 * Stored
      /\ \A v \in Words : val[v] = IF v \in todo[t] THEN Stored ELSE Stored + 1
  BY <1>2 DEF AtomicInv, WriterInv
<1>7. ReaderInv(t)' /\ WriterInv(t)'
  <2>1. copy[t][w] = Stored + 1
    BY <1>4, <1>6 DEF Atomic!Whole
  <2>2. \A v \in Words : val'[v] = IF v \in todo'[t] THEN Stored ELSE Stored + 1
    BY <1>4, <1>6, <2>1
  <2> QED BY <1>2, <1>3, <1>6, <2>2 DEF ReaderInv, WriterInv, Atomic!Whole
<1>8. ASSUME NEW u \in Trio \ {t} PROVE ReaderInv(u)' /\ WriterInv(u)'
  <2>1. pc[u] \notin {"recheck", "odd", "write", "unlock"}
    BY <1>2, Alone DEF Holding
  <2> QED BY <1>2, <1>3, <1>4, <2>1 DEF AtomicInv, ReaderInv, WriterInv, Atomic!Whole
<1> QED BY <1>5, <1>7, <1>8 DEF AtomicInv

LEMMA MarkEvenStep == ASSUME AtomicInv, NEW t \in Trio, Atomic!MarkEven(t), AtomicTypes' PROVE AtomicInv'
<1>1. /\ pc[t] = "write" /\ todo[t] = {} /\ version' = tag[t] + 2
      /\ wrote' = Append(wrote, copy[t]) /\ pc' = [pc EXCEPT ![t] = "unlock"]
      /\ UNCHANGED <<val, lock, tag, copy, todo, value>>
  BY DEF Atomic!MarkEven, Atomic!Goto
<1>2. pc'[t] = "unlock" /\ \A u \in Trio \ {t} : pc'[u] = pc[u]
  BY <1>1 DEF AtomicInv, AtomicTypes
<1>3. /\ Stored \in Nat /\ Len(wrote) = Stored + 1
      /\ copy[t] = Atomic!Whole(Stored + 1) /\ tag[t] = 2 * Stored
      /\ \A v \in Words : val[v] = Stored + 1
  BY <1>1, StoredType DEF AtomicInv, WriterInv
<1>4. /\ Len(wrote') = Len(wrote) + 1 /\ wrote'[Len(wrote) + 1] = copy[t]
      /\ \A i \in 1 .. Len(wrote) : wrote'[i] = wrote[i]
  BY <1>1 DEF AtomicInv, AtomicTypes
<1>5. Stored' = Stored + 1 /\ version' = 2 * (Stored + 1) /\ version = 2 * Stored + 1
  <2>1. version = 2 * Stored + 1
    BY <1>1 DEF AtomicInv, VersionInv
  <2> QED BY <1>1, <1>3, <1>4, <2>1 DEF Stored
<1>6. StoresCount'
  <2>1. \A i \in 1 .. Len(wrote) : wrote'[i] = Atomic!Whole(i - 1)
    BY <1>4 DEF AtomicInv, StoresCount
  <2>2. wrote'[Stored + 2] = Atomic!Whole((Stored + 2) - 1)
    BY <1>3, <1>4
  <2>3. \A i \in 1 .. Len(wrote') : i \in 1 .. Len(wrote) \/ i = Stored + 2
    BY <1>3, <1>4
  <2> QED BY <2>1, <2>2, <2>3, Zenon DEF StoresCount, Atomic!Whole
<1>7. OneHolder'
  BY <1>1, <1>2 DEF AtomicInv, OneHolder, Holding
<1>8. \A u \in Trio \ {t} : pc[u] \notin {"recheck", "odd", "write", "unlock"}
  BY <1>1, Alone DEF Holding
<1>9. VersionInv'
  <2>1. \A u \in Trio : pc'[u] # "write"
    BY <1>2, <1>8
  <2>2. val' = Atomic!Whole(Stored + 1)
    <3>1. val \in [Words -> Nat]
      BY DEF AtomicInv, AtomicTypes
    <3> QED BY <1>1, <1>3, <3>1 DEF Atomic!Whole
  <2> QED BY <1>5, <2>1, <2>2 DEF VersionInv, Atomic!Whole
<1>10. ReaderInv(t)' /\ WriterInv(t)'
  BY <1>2 DEF ReaderInv, WriterInv
<1>11. ASSUME NEW u \in Trio \ {t} PROVE ReaderInv(u)' /\ WriterInv(u)'
  <2>1. WriterInv(u)'
    BY <1>2, <1>8 DEF WriterInv
  <2>2. pc[u] = "read" => tag[u] < version'
    BY <1>3, <1>5 DEF AtomicInv, AtomicTypes, ReaderInv
  <2>3. pc[u] \in {"linked", "lock", "recheck", "odd"} =>
          \E k \in 0 .. Stored + 1 : tag[u] = 2 * k /\ value[u] = Atomic!Whole(k)
    <3>1. \A k \in 0 .. Stored : k \in 0 .. Stored + 1
      BY <1>3
    <3>2. pc[u] \in {"linked", "lock", "recheck", "odd"} =>
            \E k \in 0 .. Stored : tag[u] = 2 * k /\ value[u] = Atomic!Whole(k)
      BY DEF AtomicInv, ReaderInv
    <3> QED BY <3>1, <3>2
  <2>4. tag[u] \in Nat /\ version' \in Nat
    BY DEF AtomicInv, AtomicTypes
  <2> QED BY <1>1, <1>2, <1>5, <2>1, <2>2, <2>3, <2>4 DEF ReaderInv, Atomic!Whole
<1> QED BY <1>6, <1>7, <1>9, <1>10, <1>11 DEF AtomicInv

LEMMA AtomicStep == AtomicInv /\ Atomic!Next => AtomicInv'
<1> SUFFICES ASSUME AtomicInv, NEW t \in Trio, Atomic!Step(t) PROVE AtomicInv'
  BY DEF Atomic!Next
<1>1. AtomicTypes'
  BY TypesStep DEF Atomic!Next
<1> QED
  BY <1>1, ReadVersionStep, ReadWordStep, ValidateStep, BeginStep, TryLockStep, RecheckStep,
     UnlockStep, MarkOddStep, WriteWordStep, MarkEvenStep DEF Atomic!Step

(* LoadsAreWhole: whatever threads load and store, however the words of a  *)
(* value are read and written in between, a load-linked that succeeds      *)
(* returns the value of one store, the one its tag stands for, and each    *)
(* store replaces that of the one before (bigatomic.h: ll, sc), for any    *)
(* number of threads, of words and of stores.                              *)
THEOREM LoadsWhole == Spec => []LoadsAreWhole
<1> DEFINE Inv == running = "atomic" => AtomicInv
<1>1. Init => Inv
  <2>1. Atomic!Init => AtomicInv
    <3> SUFFICES ASSUME Atomic!Init PROVE AtomicInv
      OBVIOUS
    <3>1. wrote = <<Atomic!Whole(0)>> /\ Atomic!Whole(0) \in [Words -> Nat]
      BY WholeType DEF Atomic!Init
    <3>2. Len(wrote) = 1 /\ Stored = 0 /\ wrote \in Seq([Words -> Nat]) /\ wrote # << >>
      BY <3>1 DEF Stored
    <3>3. AtomicTypes
      BY <3>1, <3>2, Zenon DEF Atomic!Init, AtomicTypes, Labels
    <3>4. StoresCount
      BY <3>1, <3>2 DEF StoresCount
    <3>5. \A t \in Trio : pc[t] = "ll"
      BY DEF Atomic!Init
    <3>6. VersionInv
      BY <3>2, <3>5 DEF VersionInv, Atomic!Init
    <3> QED BY <3>3, <3>4, <3>5, <3>6 DEF AtomicInv, OneHolder, Holding, ReaderInv, WriterInv
  <2> QED BY <2>1 DEF Init
<1>2. Inv /\ [Next]_vars => Inv'
  <2> SUFFICES ASSUME Inv, [Next]_vars, running' = "atomic" PROVE AtomicInv'
    OBVIOUS
  <2>1. running = "atomic"
    BY DEF Next, vars
  <2>2. CASE Atomic!Next
    BY <2>1, <2>2, AtomicStep
  <2>3. CASE UNCHANGED <<version, val, lock, pc, tag, copy, todo, value, wrote>>
    BY <2>1, <2>3 DEF AtomicInv, AtomicTypes, StoresCount, OneHolder, Holding, VersionInv,
                     ReaderInv, WriterInv, Stored, Atomic!Whole
  <2> QED BY <2>1, <2>2, <2>3, AtomicSteps
<1>3. Inv => LoadsAreWhole
  <2> SUFFICES ASSUME running = "atomic", AtomicInv PROVE Atomic!LoadsAreWhole
    BY DEF LoadsAreWhole
  <2>1. Stored \in Nat /\ Len(wrote) = Stored + 1
    BY StoredType DEF AtomicInv
  <2>2. ASSUME NEW t \in Trio, pc[t] \in {"linked", "lock"}
        PROVE  value[t] = wrote[tag[t] \div 2 + 1]
    <3>1. PICK k \in 0 .. Stored : tag[t] = 2 * k /\ value[t] = Atomic!Whole(k)
      BY <2>2 DEF AtomicInv, ReaderInv
    <3>2. tag[t] \div 2 + 1 = k + 1 /\ k + 1 \in 1 .. Len(wrote) /\ (k + 1) - 1 = k
      BY <2>1, <3>1
    <3> QED BY <3>1, <3>2 DEF AtomicInv, StoresCount
  <2>3. \A i \in DOMAIN wrote : wrote[i] = Atomic!Whole(i - 1)
    <3>1. wrote \in Seq([Words -> Nat])
      BY DEF AtomicInv, AtomicTypes
    <3>2. DOMAIN wrote = 1 .. Len(wrote)
      BY <3>1
    <3> QED BY <3>2 DEF AtomicInv, StoresCount
  <2> QED BY <2>2, <2>3 DEF Atomic!LoadsAreWhole
<1> QED BY <1>1, <1>2, <1>3, PTL DEF Spec

-----------------------------------------------------------------------------
(* Epochs (Epoch).  An operation is under way from the moment its          *)
(* announcement is confirmed.                                              *)
Places == {"out", "announce", "confirm", "in", "retire", "rotate", "step", "sweep", "advance", "save"}
InOp(t) == pc[t] \notin {"out", "announce", "confirm"}
States == [i : 0 .. EpochWorkers, epoch : Nat]
PoolRecords == [old : Seq(Addresses), current : Seq(Addresses), reserve : Seq(Addresses), epoch : Nat]

EpochTypes ==
  /\ current_epoch \in Nat /\ epoch_state \in States /\ announcements \in [Epoch!Ids -> Nat \cup {-1}]
  /\ pc \in [Epoch!Ids -> Places] /\ e \in [Epoch!Ids -> Nat] /\ j \in [Epoch!Ids -> Nat]
  /\ state \in [Epoch!Ids -> States]

(* An operation announces the epoch it begins in, and the epoch advances   *)
(* once at most before it is over.                                         *)
AnnounceInv(t) ==
  /\ pc[t] = "out" => announcements[t] = -1
  /\ pc[t] = "confirm" => announcements[t] = e[t]
  /\ InOp(t) => /\ announcements[t] \in Nat
                /\ announcements[t] <= current_epoch /\ current_epoch <= announcements[t] + 1

(* No operation that is under way began before the epoch: what a sweep     *)
(* over the slots has found, and what stays so.                            *)
Passed(k, epoch)     == InOp(k) => announcements[k] >= epoch
AllPassed(m, epoch) == \A k \in 0 .. m - 1 : Passed(k, epoch)

SweepInv(t) ==
  pc[t] \in {"sweep", "advance", "save"} =>
    /\ state[t].epoch <= current_epoch
    /\ pc[t] = "sweep" => state[t].i # EpochWorkers /\ j[t] < EpochWorkers /\ AllPassed(j[t], state[t].epoch)
    /\ pc[t] = "advance" => state[t].i = EpochWorkers /\ AllPassed(EpochWorkers, state[t].epoch)
    /\ pc[t] = "save" =>
         IF state[t].i = EpochWorkers THEN state[t].epoch < current_epoch
         ELSE j[t] <= EpochWorkers /\ AllPassed(j[t], state[t].epoch)

StateInv == epoch_state.epoch <= current_epoch /\ AllPassed(epoch_state.i, epoch_state.epoch)

ClockInv == EpochTypes /\ StateInv /\ \A t \in Epoch!Ids : AnnounceInv(t) /\ SweepInv(t)

LEMMA SameClock ==
  ASSUME ClockInv, UNCHANGED <<current_epoch, epoch_state, announcements, pc, e, j, state>>
  PROVE  ClockInv'
BY DEF ClockInv, EpochTypes, StateInv, AnnounceInv, SweepInv, AllPassed, Passed, InOp

(* The steps of the others: what the slots have passed they do not lose.   *)
LEMMA ClockFrame ==
  ASSUME ClockInv, NEW t \in Epoch!Ids, EpochTypes',
         \A u \in Epoch!Ids \ {t} : /\ pc'[u] = pc[u] /\ announcements'[u] = announcements[u]
                                    /\ e'[u] = e[u] /\ j'[u] = j[u] /\ state'[u] = state[u],
         current_epoch' = current_epoch,
         InOp(t)' => (InOp(t) /\ announcements'[t] = announcements[t]) \/ announcements'[t] = current_epoch,
         epoch_state' = epoch_state \/ StateInv',
         AnnounceInv(t)', SweepInv(t)'
  PROVE  ClockInv'
<1>1. ASSUME NEW k \in Epoch!Ids, NEW ep \in Nat, ep <= current_epoch, Passed(k, ep)
      PROVE  Passed(k, ep)'
  BY <1>1 DEF Passed, InOp
<1>2. ASSUME NEW m \in 0 .. EpochWorkers, NEW ep \in Nat, ep <= current_epoch, AllPassed(m, ep)
      PROVE  AllPassed(m, ep)'
  <2>1. \A k \in 0 .. m - 1 : k \in Epoch!Ids
    BY WorkersOK DEF Epoch!Ids
  <2> QED BY <1>1, <1>2, <2>1 DEF AllPassed
<1>3. StateInv'
  <2>1. CASE epoch_state' = epoch_state
    <3>1. epoch_state.i \in 0 .. EpochWorkers /\ epoch_state.epoch \in Nat
      BY DEF ClockInv, EpochTypes, States
    <3>2. AllPassed(epoch_state.i, epoch_state.epoch)'
      BY <1>2, <2>1, <3>1 DEF ClockInv, StateInv, AllPassed
    <3> QED BY <2>1, <3>2 DEF ClockInv, StateInv
  <2> QED BY <2>1
<1>4. ASSUME NEW u \in Epoch!Ids, u # t PROVE AnnounceInv(u)' /\ SweepInv(u)'
  <2>1. pc'[u] = pc[u] /\ announcements'[u] = announcements[u] /\ e'[u] = e[u] /\ j'[u] = j[u] /\ state'[u] = state[u]
    BY <1>4
  <2>2. AnnounceInv(u)'
    BY <2>1 DEF ClockInv, AnnounceInv, InOp
  <2>3. SweepInv(u)'
    <3>1. state[u].i \in 0 .. EpochWorkers /\ state[u].epoch \in Nat /\ j[u] \in Nat
      BY DEF ClockInv, EpochTypes, States
    <3>2. ASSUME NEW m \in 0 .. EpochWorkers, state[u].epoch <= current_epoch, AllPassed(m, state[u].epoch)
          PROVE  \A k \in 0 .. m - 1 : Passed(k, state[u].epoch)'
      <4>1. \A ep \in Nat : ep <= current_epoch /\ AllPassed(m, ep) => \A k \in 0 .. m - 1 : Passed(k, ep)'
        BY <1>2 DEF AllPassed
      <4> QED BY <2>1, <3>1, <3>2, <4>1 DEF Passed, InOp
    <3>3. SweepInv(u)
      BY DEF ClockInv
    <3>4. CASE pc[u] = "sweep"
      <4>1. j[u] \in 0 .. EpochWorkers /\ AllPassed(j[u], state[u].epoch) /\ state[u].epoch <= current_epoch
        BY <3>1, <3>3, <3>4, WorkersOK DEF SweepInv
      <4> QED BY <2>1, <3>2, <3>3, <3>4, <4>1 DEF SweepInv, AllPassed, Passed, InOp
    <3>5. CASE pc[u] = "advance"
      <4>1. EpochWorkers \in 0 .. EpochWorkers /\ AllPassed(EpochWorkers, state[u].epoch) /\ state[u].epoch <= current_epoch
        BY <3>1, <3>3, <3>5, WorkersOK DEF SweepInv
      <4> QED BY <2>1, <3>2, <3>3, <3>5, <4>1 DEF SweepInv, AllPassed, Passed, InOp
    <3>6. CASE pc[u] = "save" /\ state[u].i = EpochWorkers
      BY <2>1, <3>3, <3>6 DEF SweepInv
    <3>7. CASE pc[u] = "save" /\ state[u].i # EpochWorkers
      <4>1. j[u] \in 0 .. EpochWorkers /\ AllPassed(j[u], state[u].epoch) /\ state[u].epoch <= current_epoch
        BY <3>1, <3>3, <3>7, WorkersOK DEF SweepInv
      <4> QED BY <2>1, <3>2, <3>3, <3>7, <4>1 DEF SweepInv, AllPassed, Passed, InOp
    <3>8. CASE pc[u] \notin {"sweep", "advance", "save"}
      BY <2>1, <3>8 DEF SweepInv
    <3> QED BY <3>4, <3>5, <3>6, <3>7, <3>8
  <2> QED BY <2>2, <2>3
<1> QED BY <1>3, <1>4 DEF ClockInv

-----------------------------------------------------------------------------
(* The actions on the clock.                                               *)
LEMMA AnnounceSteps ==
  ASSUME ClockInv, NEW t \in Epoch!Ids,
         Epoch!Announce(t) \/ Epoch!SetSlot(t) \/ Epoch!Confirm(t) \/ Epoch!Unannounce(t)
  PROVE  ClockInv'
<1> USE DEF Epoch!At, Epoch!Goto, Epoch!shared, Epoch!local, Epoch!objs
<1>1. CASE Epoch!Announce(t)
  <2>1. EpochTypes'
    BY <1>1 DEF Epoch!Announce, ClockInv, EpochTypes, Places
  <2>2. pc[t] = "out" /\ pc'[t] = "announce" /\ announcements' = announcements
    BY <1>1 DEF Epoch!Announce, ClockInv, EpochTypes
  <2>3. AnnounceInv(t)' /\ SweepInv(t)'
    BY <2>2 DEF AnnounceInv, SweepInv, InOp
  <2> QED BY <1>1, <2>1, <2>2, <2>3, ClockFrame DEF Epoch!Announce, ClockInv, EpochTypes, InOp
<1>2. CASE Epoch!SetSlot(t)
  <2>1. EpochTypes'
    BY <1>2 DEF Epoch!SetSlot, ClockInv, EpochTypes, Places
  <2>2. pc'[t] = "confirm" /\ announcements'[t] = e'[t]
    BY <1>2 DEF Epoch!SetSlot, ClockInv, EpochTypes
  <2>3. AnnounceInv(t)' /\ SweepInv(t)' /\ ~InOp(t)'
    BY <2>2 DEF AnnounceInv, SweepInv, InOp
  <2> QED BY <1>2, <2>1, <2>3, ClockFrame DEF Epoch!SetSlot, ClockInv, EpochTypes
<1>3. CASE Epoch!Confirm(t)
  <2>1. EpochTypes'
    <3>1. pc' \in [Epoch!Ids -> Places] /\ e' \in [Epoch!Ids -> Nat]
      BY <1>3 DEF Epoch!Confirm, ClockInv, EpochTypes, Places
    <3> QED BY <1>3, <3>1 DEF Epoch!Confirm, ClockInv, EpochTypes
  <2>2. /\ \A u \in Epoch!Ids \ {t} : pc'[u] = pc[u] /\ e'[u] = e[u]
        /\ UNCHANGED <<current_epoch, epoch_state, announcements, j, state>>
    BY <1>3 DEF Epoch!Confirm, ClockInv, EpochTypes
  <2>3. announcements[t] = e[t] /\ current_epoch \in Nat
    BY <1>3 DEF Epoch!Confirm, ClockInv, AnnounceInv, EpochTypes
  <2>4. \/ pc'[t] = "in" /\ current_epoch = e[t]
        \/ pc'[t] = "announce"
    BY <1>3 DEF Epoch!Confirm, ClockInv, EpochTypes
  <2>5. AnnounceInv(t)' /\ SweepInv(t)'
    BY <2>2, <2>3, <2>4 DEF AnnounceInv, SweepInv, InOp
  <2>6. InOp(t)' => announcements'[t] = current_epoch
    BY <2>2, <2>3, <2>4 DEF InOp
  <2> QED BY <2>1, <2>2, <2>5, <2>6, ClockFrame
<1>4. CASE Epoch!Unannounce(t)
  <2>1. EpochTypes'
    BY <1>4 DEF Epoch!Unannounce, ClockInv, EpochTypes, Places
  <2>2. pc'[t] = "out" /\ announcements'[t] = -1
    BY <1>4 DEF Epoch!Unannounce, ClockInv, EpochTypes
  <2>3. AnnounceInv(t)' /\ SweepInv(t)' /\ ~InOp(t)'
    BY <2>2 DEF AnnounceInv, SweepInv, InOp
  <2> QED BY <1>4, <2>1, <2>3, ClockFrame DEF Epoch!Unannounce, ClockInv, EpochTypes
<1> QED BY <1>1, <1>2, <1>3, <1>4

(* A step of an operation that leaves the clock alone.                     *)
LEMMA InnerStep ==
  ASSUME ClockInv, NEW t \in Epoch!Ids, InOp(t),
         UNCHANGED <<current_epoch, epoch_state, announcements, e, j, state>>,
         NEW l \in {"in", "retire", "rotate", "step"},
         pc' = [pc EXCEPT ![t] = l]
  PROVE  ClockInv'
<1>1. EpochTypes' /\ pc'[t] = l /\ \A u \in Epoch!Ids \ {t} : pc'[u] = pc[u]
  BY DEF ClockInv, EpochTypes, Places
<1>2. AnnounceInv(t)' /\ SweepInv(t)'
  BY <1>1 DEF ClockInv, AnnounceInv, SweepInv, InOp
<1> QED BY <1>1, <1>2, ClockFrame

LEMMA ObjectSteps ==
  ASSUME ClockInv, NEW t \in Epoch!Ids,
         \/ Epoch!Read(t) \/ Epoch!Swap(t) \/ Epoch!Retire(t) \/ Epoch!Rotate(t)
         \/ Epoch!RetireOther(t)
  PROVE  ClockInv'
<1> USE DEF Epoch!At, Epoch!Goto, Epoch!shared, Epoch!local, Epoch!objs
<1>1. CASE Epoch!Read(t)
  BY <1>1, SameClock DEF Epoch!Read
<1>2. CASE Epoch!Swap(t)
  BY <1>2, InnerStep, Zenon DEF Epoch!Swap, InOp
<1>3. CASE Epoch!Retire(t)
  <2>1. pc[t] = "retire" /\ UNCHANGED <<current_epoch, epoch_state, announcements, e, j, state>>
        /\ \/ pc' = [pc EXCEPT ![t] = "rotate"]
           \/ pc' = [pc EXCEPT ![t] = "step"]
    BY <1>3, Zenon DEF Epoch!Retire
  <2> QED BY <2>1, InnerStep DEF InOp
<1>4. CASE Epoch!Rotate(t)
  BY <1>4, InnerStep, Zenon DEF Epoch!Rotate, InOp
<1>5. CASE Epoch!RetireOther(t)
  BY <1>5, InnerStep, Zenon DEF Epoch!RetireOther, InOp
<1> QED BY <1>1, <1>2, <1>3, <1>4, <1>5

(* Back from update_epoch_steps.                                           *)
LEMMA PushStep ==
  ASSUME ClockInv, NEW t \in Epoch!Ids, InOp(t), Epoch!Push(t),
         UNCHANGED <<current_epoch, announcements, e>>,
         epoch_state' \in States, epoch_state' = epoch_state \/ StateInv'
  PROVE  ClockInv'
<1>1. /\ pc' = [pc EXCEPT ![t] = "in"] /\ j' = [j EXCEPT ![t] = 0]
      /\ state' = [state EXCEPT ![t] = [i |-> 0, epoch |-> 0]]
  BY DEF Epoch!Push, Epoch!Goto
<1>2. [i |-> 0, epoch |-> 0] \in States
  BY WorkersOK DEF States
<1>3. EpochTypes' /\ pc'[t] = "in"
  BY <1>1, <1>2 DEF ClockInv, EpochTypes, Places
<1>4. AnnounceInv(t)' /\ SweepInv(t)'
  BY <1>3 DEF ClockInv, AnnounceInv, SweepInv, InOp
<1>5. \A u \in Epoch!Ids \ {t} : pc'[u] = pc[u] /\ j'[u] = j[u] /\ state'[u] = state[u]
  BY <1>1 DEF ClockInv, EpochTypes
<1> QED BY <1>3, <1>4, <1>5, ClockFrame

LEMMA StepEpochStep == ASSUME ClockInv, NEW t \in Epoch!Ids, Epoch!StepEpoch(t) PROVE ClockInv'
<1> USE DEF Epoch!At, Epoch!Goto, Epoch!shared, Epoch!local, Epoch!objs
<1>1. pc[t] = "step" /\ UNCHANGED <<current_epoch, epoch_state, announcements, e>>
  BY DEF Epoch!StepEpoch
<1>2. CASE Epoch!Push(t)
  BY <1>1, <1>2, PushStep DEF InOp, ClockInv, EpochTypes
<1>3. CASE /\ state' = [state EXCEPT ![t] = epoch_state] /\ j' = [j EXCEPT ![t] = epoch_state.i]
           /\ pc' = [pc EXCEPT ![t] = IF epoch_state.i = EpochWorkers THEN "advance" ELSE "sweep"]
  <2>1. epoch_state.i \in 0 .. EpochWorkers /\ epoch_state.epoch \in Nat
    BY DEF ClockInv, EpochTypes, States
  <2>2. EpochTypes'
    <3>1. pc' \in [Epoch!Ids -> Places] /\ j' \in [Epoch!Ids -> Nat] /\ state' \in [Epoch!Ids -> States]
      BY <1>3, <2>1 DEF ClockInv, EpochTypes, Places
    <3> QED BY <1>1, <3>1 DEF ClockInv, EpochTypes
  <2>3. /\ state'[t] = epoch_state /\ j'[t] = epoch_state.i
        /\ pc'[t] = IF epoch_state.i = EpochWorkers THEN "advance" ELSE "sweep"
        /\ \A u \in Epoch!Ids \ {t} : pc'[u] = pc[u] /\ j'[u] = j[u] /\ state'[u] = state[u]
    BY <1>3 DEF ClockInv, EpochTypes
  <2>4. InOp(t) /\ AnnounceInv(t)'
    BY <1>1, <2>3 DEF ClockInv, AnnounceInv, InOp
  <2>5. \A k \in 0 .. epoch_state.i - 1 : Passed(k, epoch_state.epoch)'
    <3>1. ASSUME NEW k \in 0 .. epoch_state.i - 1 PROVE Passed(k, epoch_state.epoch)'
      <4>1. k \in Epoch!Ids /\ Passed(k, epoch_state.epoch)
        BY <2>1, WorkersOK DEF ClockInv, StateInv, AllPassed, Epoch!Ids
      <4>2. InOp(k)' => InOp(k)
        BY <2>3, <2>4, <4>1 DEF InOp
      <4> QED BY <1>1, <4>1, <4>2 DEF Passed
    <3> QED BY <3>1
  <2>6. SweepInv(t)'
    <3>1. epoch_state.epoch <= current_epoch
      BY DEF ClockInv, StateInv
    <3>2. \A k \in 0 .. j'[t] - 1 : Passed(k, state[t].epoch)'
      BY <1>1, <2>3, <2>5 DEF Passed, InOp
    <3> QED BY <1>1, <2>1, <2>3, <3>1, <3>2, WorkersOK DEF SweepInv, AllPassed
  <2> QED BY <1>1, <2>2, <2>3, <2>4, <2>6, ClockFrame
<1> QED BY <1>2, <1>3 DEF Epoch!StepEpoch

LEMMA SweepStep == ASSUME ClockInv, NEW t \in Epoch!Ids, Epoch!Sweep(t) PROVE ClockInv'
<1> USE DEF Epoch!At, Epoch!Goto, Epoch!shared, Epoch!local, Epoch!objs
<1>1. pc[t] = "sweep" /\ UNCHANGED <<current_epoch, epoch_state, announcements, e>>
  BY DEF Epoch!Sweep
<1>2. CASE Epoch!Push(t)
  BY <1>1, <1>2, PushStep DEF InOp, ClockInv, EpochTypes
<1>3. CASE /\ Epoch!SlotPasses(j[t], state[t].epoch) /\ j' = [j EXCEPT ![t] = @ + 1]
           /\ pc' = [pc EXCEPT ![t] =
                IF j[t] + 1 = EpochWorkers \/ j[t] + 1 = state[t].i + Steps THEN "save" ELSE "sweep"]
           /\ state' = state
  <2>1. EpochTypes'
    <3>1. pc' \in [Epoch!Ids -> Places] /\ j' \in [Epoch!Ids -> Nat]
      BY <1>3 DEF ClockInv, EpochTypes, Places
    <3> QED BY <1>1, <1>3, <3>1 DEF ClockInv, EpochTypes
  <2>2. /\ j'[t] = j[t] + 1 /\ j[t] \in Nat /\ state[t].epoch \in Nat
        /\ \A u \in Epoch!Ids \ {t} : pc'[u] = pc[u] /\ j'[u] = j[u]
        /\ pc'[t] = IF j[t] + 1 = EpochWorkers \/ j[t] + 1 = state[t].i + Steps THEN "save" ELSE "sweep"
    BY <1>3 DEF ClockInv, EpochTypes, States
  <2>3. /\ state[t].i # EpochWorkers /\ j[t] < EpochWorkers /\ AllPassed(j[t], state[t].epoch)
        /\ state[t].epoch <= current_epoch
    BY <1>1 DEF ClockInv, SweepInv
  <2>4. InOp(t) /\ AnnounceInv(t)'
    BY <1>1, <2>2 DEF ClockInv, AnnounceInv, InOp
  <2>5. Passed(j[t], state[t].epoch)
    <3>1. j[t] \in Epoch!Ids
      BY <2>2, <2>3, WorkersOK DEF Epoch!Ids
    <3> QED BY <1>3, <3>1 DEF Epoch!SlotPasses, Passed, ClockInv, AnnounceInv
  <2>6. ASSUME NEW k \in 0 .. j'[t] - 1 PROVE InOp(k)' => announcements'[k] >= state'[t].epoch
    <3>1. k \in 0 .. j[t] - 1 \/ k = j[t]
      BY <2>2
    <3>2. Passed(k, state[t].epoch)
      BY <2>3, <2>5, <3>1 DEF AllPassed
    <3>3. k \in Epoch!Ids
      BY <2>2, <2>3, <3>1, WorkersOK DEF Epoch!Ids
    <3>4. InOp(k)' => InOp(k)
      BY <2>2, <2>4, <3>3 DEF InOp
    <3> QED BY <1>1, <1>3, <3>2, <3>4 DEF Passed
  <2>7. SweepInv(t)'
    BY <1>1, <1>3, <2>2, <2>3, <2>6, WorkersOK DEF SweepInv, AllPassed, Passed
  <2> QED BY <1>1, <1>3, <2>1, <2>2, <2>4, <2>7, ClockFrame
<1> QED BY <1>2, <1>3 DEF Epoch!Sweep

LEMMA SaveStep == ASSUME ClockInv, NEW t \in Epoch!Ids, Epoch!Save(t) PROVE ClockInv'
<1> USE DEF Epoch!At, Epoch!Goto, Epoch!shared, Epoch!local, Epoch!objs
<1>1. /\ pc[t] = "save" /\ Epoch!Push(t) /\ UNCHANGED <<current_epoch, announcements, e>>
      /\ epoch_state' = IF epoch_state # state[t] THEN epoch_state
                        ELSE IF state[t].i = EpochWorkers THEN [i |-> 0, epoch |-> state[t].epoch + 1]
                        ELSE [i |-> j[t], epoch |-> state[t].epoch]
  BY DEF Epoch!Save
<1>2. state[t].i \in 0 .. EpochWorkers /\ state[t].epoch \in Nat /\ j[t] \in Nat /\ epoch_state \in States
      /\ current_epoch \in Nat
  BY DEF ClockInv, EpochTypes, States
<1>3. SweepInv(t)
  BY DEF ClockInv
<1>4. CASE state[t].i = EpochWorkers
  <2>1. state[t].epoch + 1 <= current_epoch
    BY <1>1, <1>2, <1>3, <1>4 DEF SweepInv
  <2>2. epoch_state' \in States
    BY <1>1, <1>2, <1>4, WorkersOK DEF States
  <2>3. epoch_state' = epoch_state \/ epoch_state' = [i |-> 0, epoch |-> state[t].epoch + 1]
    BY <1>1, <1>4
  <2>4. epoch_state' = epoch_state \/ StateInv'
    BY <1>1, <2>1, <2>3 DEF StateInv, AllPassed
  <2> QED BY <1>1, <2>2, <2>4, PushStep DEF InOp
<1>5. CASE state[t].i # EpochWorkers
  <2>1. j[t] <= EpochWorkers /\ AllPassed(j[t], state[t].epoch) /\ state[t].epoch <= current_epoch
    BY <1>1, <1>3, <1>5 DEF SweepInv
  <2>2. epoch_state' \in States
    BY <1>1, <1>2, <1>5, <2>1, WorkersOK DEF States
  <2>3. epoch_state' = epoch_state \/ epoch_state' = [i |-> j[t], epoch |-> state[t].epoch]
    BY <1>1, <1>5
  <2>4. \A k \in 0 .. j[t] - 1 : InOp(k)' => announcements'[k] >= state[t].epoch
    <3>1. ASSUME NEW k \in 0 .. j[t] - 1 PROVE InOp(k)' => announcements'[k] >= state[t].epoch
      <4>1. k \in Epoch!Ids /\ Passed(k, state[t].epoch)
        BY <1>2, <2>1, WorkersOK DEF AllPassed, Epoch!Ids
      <4>2. InOp(k)' => InOp(k)
        BY <1>1, <4>1 DEF Epoch!Push, InOp, ClockInv, EpochTypes
      <4> QED BY <1>1, <4>1, <4>2 DEF Passed
    <3> QED BY <3>1
  <2>5. epoch_state' = epoch_state \/ StateInv'
    BY <1>1, <2>1, <2>3, <2>4 DEF StateInv, AllPassed, Passed
  <2> QED BY <1>1, <2>2, <2>5, PushStep DEF InOp
<1> QED BY <1>4, <1>5

(* The epoch advances only when no operation of an earlier one is under    *)
(* way, whoever has advanced it meanwhile.                                 *)
LEMMA AdvanceStep == ASSUME ClockInv, NEW t \in Epoch!Ids, Epoch!Advance(t) PROVE ClockInv'
<1> USE DEF Epoch!At, Epoch!Goto, Epoch!shared, Epoch!local, Epoch!objs
<1>1. /\ pc[t] = "advance" /\ pc' = [pc EXCEPT ![t] = "save"]
      /\ current_epoch' = IF current_epoch = state[t].epoch THEN current_epoch + 1 ELSE current_epoch
      /\ UNCHANGED <<epoch_state, announcements, e, j, state>>
  BY DEF Epoch!Advance
<1>2. /\ current_epoch \in Nat /\ pc'[t] = "save" /\ \A u \in Epoch!Ids \ {t} : pc'[u] = pc[u]
      /\ epoch_state.epoch \in Nat /\ \A u \in Epoch!Ids : state[u].epoch \in Nat
  BY <1>1 DEF ClockInv, EpochTypes, States
<1>3. state[t].i = EpochWorkers /\ AllPassed(EpochWorkers, state[t].epoch) /\ state[t].epoch <= current_epoch
  BY <1>1 DEF ClockInv, SweepInv
<1>4. EpochTypes'
  <2>1. current_epoch' \in Nat /\ pc' \in [Epoch!Ids -> Places]
    BY <1>1, <1>2 DEF ClockInv, EpochTypes, Places
  <2> QED BY <1>1, <2>1 DEF ClockInv, EpochTypes
<1>5. current_epoch <= current_epoch' /\ state[t].epoch < current_epoch'
  BY <1>1, <1>2, <1>3
<1>6. \A u \in Epoch!Ids : InOp(u)' <=> InOp(u)
  BY <1>1, <1>2 DEF InOp
<1>7. ASSUME NEW u \in Epoch!Ids PROVE AnnounceInv(u)'
  <2>1. AnnounceInv(u)
    BY DEF ClockInv
  <2>2. CASE current_epoch' = current_epoch
    BY <1>1, <1>2, <1>6, <2>1, <2>2 DEF AnnounceInv, InOp
  <2>3. CASE current_epoch = state[t].epoch /\ current_epoch' = current_epoch + 1
    <3>1. InOp(u) => announcements[u] >= current_epoch
      <4>1. u \in 0 .. EpochWorkers - 1
        BY DEF Epoch!Ids
      <4> QED BY <1>3, <2>3, <4>1 DEF AllPassed, Passed
    <3> QED BY <1>1, <1>2, <1>6, <2>1, <2>3, <3>1 DEF AnnounceInv, InOp
  <2> QED BY <1>1, <2>2, <2>3
<1>8. \A k \in Epoch!Ids, ep \in Nat : Passed(k, ep) => Passed(k, ep)'
  BY <1>1, <1>6 DEF Passed
<1>9. ASSUME NEW m \in 0 .. EpochWorkers, NEW ep \in Nat PROVE AllPassed(m, ep) => AllPassed(m, ep)'
  <2>1. \A k \in 0 .. m - 1 : k \in Epoch!Ids
    BY WorkersOK DEF Epoch!Ids
  <2> QED BY <1>8, <2>1 DEF AllPassed
<1>10. StateInv'
  <2>1. epoch_state.i \in 0 .. EpochWorkers
    BY DEF ClockInv, EpochTypes, States
  <2>2. epoch_state.epoch <= current_epoch'
    BY <1>2, <1>4, <1>5 DEF ClockInv, StateInv, EpochTypes
  <2>3. AllPassed(epoch_state.i, epoch_state.epoch)'
    BY <1>1, <1>2, <1>9, <2>1 DEF ClockInv, StateInv, AllPassed
  <2> QED BY <1>1, <2>2, <2>3 DEF StateInv
<1>11. ASSUME NEW u \in Epoch!Ids PROVE SweepInv(u)'
  <2>1. SweepInv(u) /\ state[u].epoch \in Nat /\ j[u] \in Nat /\ current_epoch' \in Nat
    BY <1>2, <1>4 DEF ClockInv, EpochTypes
  <2>2. CASE u = t
    BY <1>1, <1>2, <1>3, <1>5, <2>1, <2>2 DEF SweepInv
  <2>3. CASE u # t
    <3>1. pc'[u] = pc[u]
      BY <1>2, <2>3
    <3>2. \A k \in Epoch!Ids : Passed(k, state[u].epoch) => Passed(k, state[u].epoch)'
      BY <1>1, <1>6 DEF Passed
    <3>3. ASSUME NEW m \in Nat, m <= EpochWorkers, AllPassed(m, state[u].epoch)
          PROVE  AllPassed(m, state[u].epoch)'
      <4>1. \A k \in 0 .. m - 1 : k \in Epoch!Ids
        BY <3>3, WorkersOK DEF Epoch!Ids
      <4> QED BY <3>2, <3>3, <4>1 DEF AllPassed
    <3>4. /\ j[u] <= EpochWorkers /\ AllPassed(j[u], state[u].epoch) => AllPassed(j[u], state[u].epoch)'
          /\ AllPassed(EpochWorkers, state[u].epoch) => AllPassed(EpochWorkers, state[u].epoch)'
      <4>1. /\ j[u] <= EpochWorkers /\ AllPassed(j[u], state[u].epoch) =>
                 \A k \in 0 .. j[u] - 1 : Passed(k, state[u].epoch)'
            /\ AllPassed(EpochWorkers, state[u].epoch) => AllPassed(EpochWorkers, state[u].epoch)'
        BY <2>1, <3>3, WorkersOK DEF AllPassed
      <4> QED BY <1>1, <4>1 DEF AllPassed
    <3> QED BY <1>1, <1>2, <1>5, <2>1, <3>1, <3>4, WorkersOK DEF SweepInv
  <2> QED BY <2>2, <2>3
<1> QED BY <1>4, <1>7, <1>10, <1>11 DEF ClockInv

LEMMA ClockStep == ASSUME ClockInv, Epoch!Next PROVE ClockInv'
<1>1. PICK t \in Epoch!Ids : Epoch!Step(t)
  BY DEF Epoch!Next
<1> QED BY <1>1, AnnounceSteps, ObjectSteps, StepEpochStep, SweepStep, SaveStep, AdvanceStep DEF Epoch!Step

-----------------------------------------------------------------------------
(* Lists that hold an address once.                                        *)
Elems(s) == {s[i] : i \in 1 .. Len(s)}
Once(s)  == \A i, k \in 1 .. Len(s) : s[i] = s[k] => i = k

LEMMA NoElems == Elems(<< >>) = {} /\ Once(<< >>)
BY DEF Elems, Once

LEMMA TailElems ==
  ASSUME NEW S, NEW s \in Seq(S), s # << >>, Once(s)
  PROVE  /\ Head(s) \in S /\ Tail(s) \in Seq(S) /\ Once(Tail(s))
         /\ Elems(s) = Elems(Tail(s)) \cup {Head(s)}
         /\ Head(s) \notin Elems(Tail(s))
<1>1. /\ Len(s) \in Nat \ {0} /\ Len(Tail(s)) = Len(s) - 1 /\ Tail(s) \in Seq(S)
      /\ Head(s) = s[1] /\ Head(s) \in S
      /\ \A i \in 1 .. Len(s) - 1 : Tail(s)[i] = s[i + 1]
  OBVIOUS
<1>2. Once(Tail(s))
  <2> SUFFICES ASSUME NEW i \in 1 .. Len(Tail(s)), NEW k \in 1 .. Len(Tail(s)), Tail(s)[i] = Tail(s)[k]
               PROVE  i = k
    BY DEF Once
  <2>1. s[i + 1] = s[k + 1] /\ i + 1 \in 1 .. Len(s) /\ k + 1 \in 1 .. Len(s)
    BY <1>1
  <2>2. i + 1 = k + 1
    BY <2>1 DEF Once
  <2> QED BY <1>1, <2>2
<1>3. ASSUME NEW x \in Elems(s) PROVE x \in Elems(Tail(s)) \cup {Head(s)}
  <2>1. PICK i \in 1 .. Len(s) : x = s[i]
    BY DEF Elems
  <2>2. CASE i = 1
    BY <1>1, <2>1, <2>2
  <2>3. CASE i # 1
    <3>1. i - 1 \in 1 .. Len(Tail(s)) /\ Tail(s)[i - 1] = s[i]
      BY <1>1, <2>1, <2>3
    <3> QED BY <2>1, <3>1 DEF Elems
  <2> QED BY <2>2, <2>3
<1>4. ASSUME NEW x \in Elems(Tail(s)) PROVE x \in Elems(s) /\ x # Head(s)
  <2>1. PICK i \in 1 .. Len(Tail(s)) : x = Tail(s)[i]
    BY DEF Elems
  <2>2. x = s[i + 1] /\ i + 1 \in 1 .. Len(s) /\ i + 1 # 1 /\ 1 \in 1 .. Len(s)
    BY <1>1, <2>1
  <2> QED BY <1>1, <2>2 DEF Elems, Once
<1>5. Head(s) \in Elems(s)
  BY <1>1 DEF Elems
<1> QED BY <1>1, <1>2, <1>3, <1>4, <1>5

LEMMA AppendElems ==
  ASSUME NEW S, NEW s \in Seq(S), NEW x \in S
  PROVE  /\ Append(s, x) \in Seq(S) /\ Elems(Append(s, x)) = Elems(s) \cup {x}
         /\ Once(s) /\ x \notin Elems(s) => Once(Append(s, x))
<1>1. /\ Len(s) \in Nat /\ Len(Append(s, x)) = Len(s) + 1 /\ Append(s, x)[Len(s) + 1] = x
      /\ \A i \in 1 .. Len(s) : Append(s, x)[i] = s[i]
      /\ \A i : i \in 1 .. Len(s) + 1 <=> i \in 1 .. Len(s) \/ i = Len(s) + 1
  OBVIOUS
<1>2. Elems(Append(s, x)) = Elems(s) \cup {x}
  BY <1>1 DEF Elems
<1>3. Once(s) /\ x \notin Elems(s) => Once(Append(s, x))
  BY <1>1 DEF Elems, Once
<1> QED BY <1>2, <1>3

LEMMA ConcatElems ==
  ASSUME NEW S, NEW s \in Seq(S), NEW r \in Seq(S)
  PROVE  /\ s \o r \in Seq(S) /\ Elems(s \o r) = Elems(s) \cup Elems(r)
         /\ Once(s) /\ Once(r) /\ Elems(s) \cap Elems(r) = {} => Once(s \o r)
<1>1. /\ Len(s) \in Nat /\ Len(r) \in Nat /\ Len(s \o r) = Len(s) + Len(r)
      /\ \A i \in 1 .. Len(s) : (s \o r)[i] = s[i]
      /\ \A i \in 1 .. Len(r) : (s \o r)[Len(s) + i] = r[i]
  OBVIOUS
<1>2. ASSUME NEW i \in 1 .. Len(s) + Len(r), ~(i \in 1 .. Len(s))
      PROVE  i - Len(s) \in 1 .. Len(r) /\ (s \o r)[i] = r[i - Len(s)]
  <2>1. i - Len(s) \in 1 .. Len(r) /\ Len(s) + (i - Len(s)) = i
    BY <1>1, <1>2
  <2> QED BY <1>1, <2>1
<1>3. Elems(s \o r) = Elems(s) \cup Elems(r)
  <2>1. \A i \in 1 .. Len(s) : i \in 1 .. Len(s) + Len(r)
    BY <1>1
  <2>2. \A i \in 1 .. Len(r) : Len(s) + i \in 1 .. Len(s) + Len(r)
    BY <1>1
  <2>3. Elems(s) \cup Elems(r) \subseteq Elems(s \o r)
    BY <1>1, <2>1, <2>2, Zenon DEF Elems
  <2>4. Elems(s \o r) \subseteq Elems(s) \cup Elems(r)
    BY <1>1, <1>2 DEF Elems
  <2> QED BY <2>3, <2>4
<1>4. ASSUME Once(s), Once(r), Elems(s) \cap Elems(r) = {} PROVE Once(s \o r)
  <2> SUFFICES ASSUME NEW i \in 1 .. Len(s) + Len(r), NEW k \in 1 .. Len(s) + Len(r),
                      (s \o r)[i] = (s \o r)[k]
               PROVE  i = k
    BY <1>1 DEF Once
  <2>1. CASE i \in 1 .. Len(s) /\ k \in 1 .. Len(s)
    BY <1>1, <1>4, <2>1 DEF Once
  <2>2. CASE ~(i \in 1 .. Len(s)) /\ ~(k \in 1 .. Len(s))
    <3>1. i - Len(s) = k - Len(s)
      BY <1>2, <1>4, <2>2 DEF Once
    <3> QED BY <1>1, <3>1
  <2>3. CASE i \in 1 .. Len(s) /\ ~(k \in 1 .. Len(s))
    <3>1. s[i] \in Elems(s) /\ r[k - Len(s)] \in Elems(r) /\ s[i] = r[k - Len(s)]
      BY <1>1, <1>2, <2>3 DEF Elems
    <3> QED BY <1>4, <3>1
  <2>4. CASE ~(i \in 1 .. Len(s)) /\ k \in 1 .. Len(s)
    <3>1. s[k] \in Elems(s) /\ r[i - Len(s)] \in Elems(r) /\ s[k] = r[i - Len(s)]
      BY <1>1, <1>2, <2>4, Zenon DEF Elems
    <3> QED BY <1>4, <3>1
  <2> QED BY <2>1, <2>2, <2>3, <2>4
<1> QED BY <1>3, <1>4

-----------------------------------------------------------------------------
(* The objects of the epochs.  An object is the link, free, or owned by    *)
(* one thread, in one of its lists or as what it has just unlinked.        *)
Listed(t) == Elems(pools[t].old) \cup Elems(pools[t].current) \cup Elems(pools[t].reserve)
Victim(t) == {victim[t]} \ {Null}
Owned(t)  == Listed(t) \cup Victim(t)

ObjectTypes ==
  /\ link \in Addresses /\ freed \subseteq Addresses
  /\ pools \in [Epoch!Ids -> PoolRecords]
  /\ held \in [Epoch!Ids -> Addresses \cup {Null}]
  /\ victim \in [Epoch!Ids -> Addresses \cup {Null}]

OwnPool(t) ==
  /\ Once(pools[t].old) /\ Once(pools[t].current) /\ Once(pools[t].reserve)
  /\ Elems(pools[t].old) \cap Elems(pools[t].current) = {}
  /\ Elems(pools[t].old) \cap Elems(pools[t].reserve) = {}
  /\ Elems(pools[t].current) \cap Elems(pools[t].reserve) = {}
  /\ Victim(t) \cap Listed(t) = {}
  /\ pc[t] \in {"out", "announce", "confirm", "in"} => victim[t] = Null

OwnedOnce ==
  /\ link \notin freed
  /\ \A t \in Epoch!Ids : OwnPool(t) /\ link \notin Owned(t) /\ Owned(t) \cap freed = {}
  /\ \A t, u \in Epoch!Ids : t # u => Owned(t) \cap Owned(u) = {}

(* What an operation holds is not destructed, nor is it old in a pool that *)
(* may turn it over before the operation ends.                             *)
Safe(t) ==
  /\ held[t] # Null => InOp(t)
  /\ held[t] \notin freed
  /\ \A u \in Epoch!Ids : /\ held[t] \in Elems(pools[u].old) => announcements[t] <= pools[u].epoch
                          /\ held[t] \notin Elems(pools[u].reserve)

HeldInv == \A t \in Epoch!Ids : Safe(t) /\ (pc[t] = "rotate" => Epoch!Expired(t))

EpochInv == ClockInv /\ ObjectTypes /\ OwnedOnce /\ HeldInv

LEMMA ElemsType == \A s \in Seq(Addresses) : Elems(s) \subseteq Addresses
<1> SUFFICES ASSUME NEW s \in Seq(Addresses) PROVE Elems(s) \subseteq Addresses
  OBVIOUS
<1>1. \A i \in 1 .. Len(s) : s[i] \in Addresses
  OBVIOUS
<1> QED BY <1>1 DEF Elems

(* A step in which t gives and takes objects of its own, free ones or the  *)
(* link does not concern what the other threads own.                       *)
LEMMA OwnFrame ==
  ASSUME OwnedOnce, NEW t \in Epoch!Ids,
         \A u \in Epoch!Ids \ {t} : pools'[u] = pools[u] /\ victim'[u] = victim[u] /\ pc'[u] = pc[u],
         OwnPool(t)', link' \notin freed', link' \notin Owned(t)', Owned(t)' \cap freed' = {},
         Owned(t)' \cup {link'} \cup freed' \subseteq Owned(t) \cup {link} \cup freed
  PROVE  OwnedOnce'
<1>1. ASSUME NEW u \in Epoch!Ids, u # t
      PROVE  /\ OwnPool(u)' /\ Owned(u)' = Owned(u)
             /\ Owned(u) \cap (Owned(t) \cup {link} \cup freed) = {}
  <2>1. Listed(u)' = Listed(u) /\ Victim(u)' = Victim(u)
    BY <1>1 DEF Listed, Victim
  <2>2. OwnPool(u)'
    BY <1>1, <2>1 DEF OwnedOnce, OwnPool
  <2> QED BY <1>1, <2>1, <2>2 DEF OwnedOnce, Owned
<1>2. ASSUME NEW u \in Epoch!Ids, u # t
      PROVE  /\ link' \notin Owned(u)' /\ Owned(u)' \cap freed' = {}
             /\ Owned(t)' \cap Owned(u)' = {}
  BY <1>1, <1>2
<1>3. ASSUME NEW u \in Epoch!Ids, NEW w \in Epoch!Ids, u # w PROVE Owned(u)' \cap Owned(w)' = {}
  BY <1>1, <1>2, <1>3 DEF OwnedOnce
<1> QED BY <1>1, <1>2, <1>3 DEF OwnedOnce

(* A step that reads nothing and destructs nothing.                        *)
LEMMA HeldFrame ==
  ASSUME EpochInv, ClockInv', ObjectTypes', freed' \subseteq freed,
         \A u \in Epoch!Ids :
           /\ pools'[u].old = pools[u].old /\ pools'[u].epoch = pools[u].epoch
           /\ Elems(pools'[u].reserve) \subseteq Elems(pools[u].reserve)
           /\ \/ held'[u] = Null
              \/ held'[u] = held[u] /\ announcements'[u] = announcements[u] /\ (InOp(u) => InOp(u)')
           /\ pc'[u] = "rotate" => pc[u] = "rotate",
         current_epoch' >= current_epoch
  PROVE  HeldInv'
<1> SUFFICES ASSUME NEW t \in Epoch!Ids PROVE Safe(t)' /\ (pc'[t] = "rotate" => Epoch!Expired(t)')
  BY DEF HeldInv
<1>1. Safe(t)'
  <2>1. CASE held'[t] = Null
    <3>1. Null \notin freed'
      BY NodesOK DEF ObjectTypes
    <3>2. ASSUME NEW u \in Epoch!Ids
          PROVE  Null \notin Elems(pools'[u].old) /\ Null \notin Elems(pools'[u].reserve)
      <4>1. pools'[u].old \in Seq(Addresses) /\ pools'[u].reserve \in Seq(Addresses)
        BY DEF ObjectTypes, PoolRecords
      <4> QED BY <4>1, ElemsType, NodesOK
    <3> QED BY <2>1, <3>1, <3>2 DEF Safe
  <2>2. CASE held'[t] = held[t] /\ announcements'[t] = announcements[t] /\ (InOp(t) => InOp(t)')
    BY <2>2 DEF EpochInv, HeldInv, Safe
  <2> QED BY <2>1, <2>2
<1>2. ASSUME pc'[t] = "rotate" PROVE Epoch!Expired(t)'
  <2>1. pools[t].epoch + 1 < current_epoch /\ pools'[t].epoch = pools[t].epoch
    BY <1>2 DEF EpochInv, HeldInv, Epoch!Expired
  <2>2. pools[t].epoch \in Nat /\ current_epoch \in Nat /\ current_epoch' \in Nat
    BY DEF EpochInv, ClockInv, EpochTypes, ObjectTypes, PoolRecords
  <2> QED BY <2>1, <2>2 DEF Epoch!Expired
<1> QED BY <1>1, <1>2

(* What has expired is held by no one: an operation that may hold it has   *)
(* announced an epoch that is one behind at most.                          *)
LEMMA OldIsUnheld ==
  ASSUME EpochInv, NEW t \in Epoch!Ids, NEW u \in Epoch!Ids, pc[u] = "rotate"
  PROVE  held[t] \notin Elems(pools[u].old)
<1> SUFFICES ASSUME held[t] \in Elems(pools[u].old) PROVE FALSE
  OBVIOUS
<1>1. pools[u].old \in Seq(Addresses) /\ pools[u].epoch \in Nat /\ current_epoch \in Nat
  BY DEF EpochInv, ClockInv, EpochTypes, ObjectTypes, PoolRecords
<1>2. held[t] # Null
  BY <1>1, ElemsType, NodesOK
<1>3. InOp(t) /\ announcements[t] <= pools[u].epoch
  BY <1>2 DEF EpochInv, HeldInv, Safe
<1>4. announcements[t] \in Nat /\ current_epoch <= announcements[t] + 1
  BY <1>3 DEF EpochInv, ClockInv, AnnounceInv
<1>5. pools[u].epoch + 1 < current_epoch
  BY DEF EpochInv, HeldInv, Epoch!Expired
<1> QED BY <1>1, <1>3, <1>4, <1>5

-----------------------------------------------------------------------------
(* The actions on the objects.                                             *)
LEMMA OwnSame ==
  ASSUME OwnedOnce, UNCHANGED <<link, freed, pools, victim>>,
         \A u \in Epoch!Ids : pc'[u] \in {"out", "announce", "confirm", "in"} => victim[u] = Null
  PROVE  OwnedOnce'
BY Zenon DEF OwnedOnce, OwnPool, Owned, Listed, Victim

(* The clock and the slots: the objects stay where they are.               *)
LEMMA SlotSteps ==
  ASSUME EpochInv, ClockInv', NEW t \in Epoch!Ids,
         \/ Epoch!Announce(t) \/ Epoch!SetSlot(t) \/ Epoch!Confirm(t) \/ Epoch!Unannounce(t)
         \/ Epoch!RetireOther(t) \/ Epoch!Advance(t)
  PROVE  EpochInv'
<1> USE DEF Epoch!At, Epoch!Goto, Epoch!shared, Epoch!local, Epoch!objs
<1>1. UNCHANGED <<link, freed, pools, victim>>
  BY DEF Epoch!Announce, Epoch!SetSlot, Epoch!Confirm, Epoch!Unannounce, Epoch!RetireOther, Epoch!Advance
<1>2. /\ pc[t] \in {"out", "announce", "confirm", "in"} \/ pc'[t] = "save"
      /\ pc'[t] # "rotate" /\ \A u \in Epoch!Ids \ {t} : pc'[u] = pc[u]
  BY DEF Epoch!Announce, Epoch!SetSlot, Epoch!Confirm, Epoch!Unannounce, Epoch!RetireOther, Epoch!Advance,
         EpochInv, ClockInv, EpochTypes
<1>3. OwnedOnce'
  <2>1. \A u \in Epoch!Ids : pc'[u] \in {"out", "announce", "confirm", "in"} => victim[u] = Null
    BY <1>2 DEF EpochInv, OwnedOnce, OwnPool
  <2> QED BY <1>1, <2>1, OwnSame DEF EpochInv
<1>4. ObjectTypes'
  <2>1. held' = held \/ held' = [held EXCEPT ![t] = Null]
    BY DEF Epoch!Announce, Epoch!SetSlot, Epoch!Confirm, Epoch!Unannounce, Epoch!RetireOther, Epoch!Advance
  <2> QED BY <1>1, <2>1 DEF EpochInv, ObjectTypes
<1>5. current_epoch' >= current_epoch
  BY DEF Epoch!Announce, Epoch!SetSlot, Epoch!Confirm, Epoch!Unannounce, Epoch!RetireOther, Epoch!Advance,
         EpochInv, ClockInv, EpochTypes
<1>6. ASSUME NEW u \in Epoch!Ids
      PROVE  \/ held'[u] = Null
             \/ held'[u] = held[u] /\ announcements'[u] = announcements[u] /\ (InOp(u) => InOp(u)')
  <2>1. CASE u # t
    <3>1. held'[u] = held[u] /\ announcements'[u] = announcements[u]
      BY <2>1 DEF Epoch!Announce, Epoch!SetSlot, Epoch!Confirm, Epoch!Unannounce, Epoch!RetireOther,
                  Epoch!Advance, EpochInv, ClockInv, EpochTypes, ObjectTypes
    <3> QED BY <1>2, <2>1, <3>1 DEF InOp
  <2>2. CASE u = t /\ Epoch!Unannounce(t)
    <3>1. held' = [held EXCEPT ![t] = Null] /\ held \in [Epoch!Ids -> Addresses \cup {Null}]
      BY <2>2 DEF Epoch!Unannounce, EpochInv, ObjectTypes
    <3> QED BY <2>2, <3>1
  <2>3. CASE u = t /\ (Epoch!RetireOther(t) \/ Epoch!Advance(t))
    BY <2>3 DEF Epoch!RetireOther, Epoch!Advance, EpochInv, ClockInv, EpochTypes, InOp
  <2>4. CASE u = t /\ (Epoch!Announce(t) \/ Epoch!SetSlot(t) \/ Epoch!Confirm(t))
    <3>1. held' = held /\ ~InOp(t)
      BY <2>4 DEF Epoch!Announce, Epoch!SetSlot, Epoch!Confirm, InOp
    <3>2. held[t] = Null
      BY <3>1 DEF EpochInv, HeldInv, Safe
    <3> QED BY <2>4, <3>1, <3>2
  <2> QED BY <2>1, <2>2, <2>3, <2>4
<1>7. HeldInv'
  BY <1>1, <1>2, <1>4, <1>5, <1>6, HeldFrame
<1> QED BY <1>3, <1>4, <1>7 DEF EpochInv

LEMMA ReadStep == ASSUME EpochInv, ClockInv', NEW t \in Epoch!Ids, Epoch!Read(t) PROVE EpochInv'
<1>1. /\ pc[t] = "in" /\ held' = [held EXCEPT ![t] = link]
      /\ UNCHANGED <<current_epoch, announcements, link, freed, pools, pc, victim>>
  BY DEF Epoch!Read, Epoch!At, Epoch!shared
<1>2. ObjectTypes'
  BY <1>1 DEF EpochInv, ObjectTypes
<1>3. OwnedOnce'
  BY <1>1, OwnSame, Zenon DEF EpochInv, OwnedOnce, OwnPool
<1>4. \A u \in Epoch!Ids : held'[u] = IF u = t THEN link ELSE held[u]
  BY <1>1 DEF EpochInv, ObjectTypes
<1>5. link \notin freed /\ \A u \in Epoch!Ids : link \notin Elems(pools[u].old) /\ link \notin Elems(pools[u].reserve)
  BY DEF EpochInv, OwnedOnce, Owned, Listed
<1>6. HeldInv'
  <2>1. Safe(t)'
    BY <1>1, <1>4, <1>5 DEF Safe, InOp
  <2>2. \A u \in Epoch!Ids \ {t} : Safe(u)'
    BY <1>1, <1>4 DEF EpochInv, HeldInv, Safe, InOp
  <2> QED BY <1>1, <2>1, <2>2 DEF EpochInv, HeldInv, Epoch!Expired
<1> QED BY <1>2, <1>3, <1>6 DEF EpochInv

(* A new list in a pool.                                                   *)
LEMMA ReserveSet ==
  ASSUME pools \in [Epoch!Ids -> PoolRecords], NEW t \in Epoch!Ids, NEW s \in Seq(Addresses),
         pools' = [pools EXCEPT ![t].reserve = s]
  PROVE  /\ pools' \in [Epoch!Ids -> PoolRecords]
         /\ \A u \in Epoch!Ids \ {t} : pools'[u] = pools[u]
         /\ pools'[t].old = pools[t].old /\ pools'[t].current = pools[t].current
         /\ pools'[t].epoch = pools[t].epoch /\ pools'[t].reserve = s
BY Zenon DEF PoolRecords

LEMMA CurrentSet ==
  ASSUME pools \in [Epoch!Ids -> PoolRecords], NEW t \in Epoch!Ids, NEW s \in Seq(Addresses),
         pools' = [pools EXCEPT ![t].current = s]
  PROVE  /\ pools' \in [Epoch!Ids -> PoolRecords]
         /\ \A u \in Epoch!Ids \ {t} : pools'[u] = pools[u]
         /\ pools'[t].old = pools[t].old /\ pools'[t].reserve = pools[t].reserve
         /\ pools'[t].epoch = pools[t].epoch /\ pools'[t].current = s
BY Zenon DEF PoolRecords

(* A new object is an address that t owned or that was free; the old one   *)
(* is what t has unlinked.                                                 *)
LEMMA SwapStep == ASSUME EpochInv, ClockInv', NEW t \in Epoch!Ids, Epoch!Swap(t) PROVE EpochInv'
<1>1. /\ pc[t] = "in" /\ pc' = [pc EXCEPT ![t] = "retire"] /\ victim' = [victim EXCEPT ![t] = link]
      /\ UNCHANGED <<current_epoch, announcements, held>>
  BY DEF Epoch!Swap, Epoch!At, Epoch!Goto, Epoch!shared
<1>2. PICK o \in Addresses : Epoch!Made(t, o) /\ link' = o
  BY DEF Epoch!Swap
<1>3. /\ pools \in [Epoch!Ids -> PoolRecords] /\ pools[t].reserve \in Seq(Addresses)
      /\ victim[t] = Null /\ OwnPool(t) /\ link \in Addresses /\ link # Null
      /\ link \notin Listed(t) /\ link \notin freed
      /\ \A u \in Epoch!Ids \ {t} : pc'[u] = pc[u] /\ victim'[u] = victim[u]
      /\ pc'[t] = "retire" /\ victim'[t] = link
  BY <1>1, NodesOK, Zenon DEF EpochInv, ClockInv, EpochTypes, ObjectTypes, PoolRecords, OwnedOnce, OwnPool, Owned
<1>4. /\ pools' \in [Epoch!Ids -> PoolRecords]
      /\ \A u \in Epoch!Ids \ {t} : pools'[u] = pools[u]
      /\ pools'[t].old = pools[t].old /\ pools'[t].current = pools[t].current
      /\ pools'[t].epoch = pools[t].epoch /\ Once(pools'[t].reserve)
      /\ o \notin Listed(t)' /\ o \notin freed' /\ o # link
      /\ Elems(pools'[t].reserve) \subseteq Elems(pools[t].reserve)
      /\ freed' \subseteq freed /\ o \in Listed(t) \cup freed
  <2>1. CASE /\ pools[t].reserve # << >> /\ o = Head(pools[t].reserve)
             /\ pools' = [pools EXCEPT ![t].reserve = Tail(pools[t].reserve)] /\ UNCHANGED freed
    <3>1. /\ Tail(pools[t].reserve) \in Seq(Addresses) /\ Once(Tail(pools[t].reserve))
          /\ Elems(pools[t].reserve) = Elems(Tail(pools[t].reserve)) \cup {o}
          /\ o \notin Elems(Tail(pools[t].reserve))
      BY <1>3, <2>1, TailElems DEF OwnPool
    <3>2. /\ pools' \in [Epoch!Ids -> PoolRecords]
          /\ \A u \in Epoch!Ids \ {t} : pools'[u] = pools[u]
          /\ pools'[t].old = pools[t].old /\ pools'[t].current = pools[t].current
          /\ pools'[t].epoch = pools[t].epoch /\ pools'[t].reserve = Tail(pools[t].reserve)
      BY <1>3, <2>1, <3>1, ReserveSet, Zenon
    <3>3. o \notin freed /\ o # link
      BY <1>3, <3>1 DEF EpochInv, OwnedOnce, Owned, Listed
    <3>4. o \notin Listed(t)' /\ o \in Listed(t)
      BY <1>3, <3>1, <3>2 DEF OwnPool, Listed
    <3> QED BY <2>1, <3>1, <3>2, <3>3, <3>4
  <2>2. CASE o \in freed /\ freed' = freed \ {o} /\ UNCHANGED pools
    BY <1>3, <2>2 DEF EpochInv, OwnedOnce, OwnPool, Owned, Listed
  <2> QED BY <1>2, <2>1, <2>2 DEF Epoch!Made
<1>5. ObjectTypes'
  BY <1>1, <1>2, <1>3, <1>4, Zenon DEF EpochInv, ObjectTypes
<1>6. OwnedOnce'
  <2>1. Listed(t)' \subseteq Listed(t) /\ Victim(t)' = {link} /\ Victim(t) = {}
    BY <1>3, <1>4 DEF Listed, Victim
  <2>2. OwnPool(t)'
    BY <1>3, <1>4, <2>1 DEF OwnPool
  <2>3. link' \notin Owned(t)' /\ link' \notin freed'
    BY <1>2, <1>4, <2>1 DEF Owned
  <2>4. Owned(t)' \cap freed' = {}
    BY <1>3, <1>4, <2>1 DEF EpochInv, OwnedOnce, Owned
  <2>5. Owned(t)' \cup {link'} \cup freed' \subseteq Owned(t) \cup {link} \cup freed
    BY <1>2, <1>4, <2>1 DEF Owned
  <2> QED BY <1>3, <1>4, <2>2, <2>3, <2>4, <2>5, OwnFrame DEF EpochInv
<1>7. HeldInv'
  <2>1. \A u \in Epoch!Ids : pc'[u] = "rotate" => pc[u] = "rotate"
    BY <1>3
  <2>2. \A u \in Epoch!Ids : InOp(u) => InOp(u)'
    BY <1>3 DEF InOp
  <2>3. current_epoch' >= current_epoch
    BY <1>1 DEF EpochInv, ClockInv, EpochTypes
  <2> QED BY <1>1, <1>4, <1>5, <2>1, <2>2, <2>3, HeldFrame
<1> QED BY <1>5, <1>6, <1>7 DEF EpochInv

(* An object that leaves the reserve is free: nobody held it there.        *)
LEMMA RetireStep == ASSUME EpochInv, ClockInv', NEW t \in Epoch!Ids, Epoch!Retire(t) PROVE EpochInv'
<1>1. /\ pc[t] = "retire" /\ UNCHANGED <<current_epoch, announcements, link, held, victim>>
      /\ \/ pc' = [pc EXCEPT ![t] = "rotate"] /\ Epoch!Expired(t)
         \/ pc' = [pc EXCEPT ![t] = "step"]
  BY Zenon DEF Epoch!Retire, Epoch!At, Epoch!Goto, Epoch!shared, Epoch!objs
<1>2. /\ \A u \in Epoch!Ids \ {t} : pc'[u] = pc[u]
      /\ pc'[t] \in {"rotate", "step"} /\ (pc'[t] = "rotate" => Epoch!Expired(t))
  BY <1>1 DEF EpochInv, ClockInv, EpochTypes
<1>3. CASE UNCHANGED <<freed, pools>>
  <2>1. OwnedOnce'
    <3>1. \A u \in Epoch!Ids : pc'[u] \in {"out", "announce", "confirm", "in"} => victim[u] = Null
      BY <1>2 DEF EpochInv, OwnedOnce, OwnPool
    <3> QED BY <1>1, <1>3, <3>1, OwnSame DEF EpochInv
  <2>2. ObjectTypes'
    BY <1>1, <1>3 DEF EpochInv, ObjectTypes
  <2>3. HeldInv'
    <3>1. \A u \in Epoch!Ids : InOp(u) => InOp(u)'
      BY <1>2 DEF InOp
    <3> QED BY <1>1, <1>2, <1>3, <3>1 DEF EpochInv, HeldInv, Safe, Epoch!Expired
  <2> QED BY <2>1, <2>2, <2>3 DEF EpochInv
<1>4. CASE /\ Epoch!Trimmed(t) /\ freed' = freed \cup {Head(pools[t].reserve)}
           /\ pools' = [pools EXCEPT ![t].reserve = Tail(pools[t].reserve)]
  <2> DEFINE o == Head(pools[t].reserve)
  <2>1. pools \in [Epoch!Ids -> PoolRecords] /\ pools[t].reserve \in Seq(Addresses) /\ OwnPool(t)
    BY DEF EpochInv, ObjectTypes, PoolRecords, OwnedOnce
  <2>2. pools[t].reserve # << >>
    BY <1>4, <2>1, ReserveOK DEF Epoch!Trimmed
  <2>3. /\ o \in Addresses /\ Tail(pools[t].reserve) \in Seq(Addresses) /\ Once(Tail(pools[t].reserve))
        /\ Elems(pools[t].reserve) = Elems(Tail(pools[t].reserve)) \cup {o}
        /\ o \notin Elems(Tail(pools[t].reserve))
    BY <2>1, <2>2, TailElems DEF OwnPool
  <2>4. /\ pools' \in [Epoch!Ids -> PoolRecords]
        /\ \A u \in Epoch!Ids \ {t} : pools'[u] = pools[u]
        /\ pools'[t].old = pools[t].old /\ pools'[t].current = pools[t].current
        /\ pools'[t].epoch = pools[t].epoch /\ pools'[t].reserve = Tail(pools[t].reserve)
    BY <1>4, <2>1, <2>3, ReserveSet, Zenon
  <2>5. ObjectTypes'
    BY <1>1, <1>4, <2>3, <2>4 DEF EpochInv, ObjectTypes
  <2>6. OwnedOnce'
    <3>1. /\ Listed(t)' \subseteq Listed(t) /\ Victim(t)' = Victim(t)
          /\ o \in Listed(t) /\ o \notin Listed(t)' /\ o \notin Victim(t)
      BY <1>1, <2>1, <2>3, <2>4 DEF Listed, Victim, OwnPool
    <3>2. OwnPool(t)'
      BY <1>2, <2>1, <2>3, <2>4, <3>1 DEF OwnPool
    <3>3. link' \notin Owned(t)' /\ link' \notin freed'
      BY <1>1, <1>4, <3>1 DEF EpochInv, OwnedOnce, Owned
    <3>4. Owned(t)' \cap freed' = {}
      BY <1>4, <3>1 DEF EpochInv, OwnedOnce, Owned
    <3>5. Owned(t)' \cup {link'} \cup freed' \subseteq Owned(t) \cup {link} \cup freed
      BY <1>1, <1>4, <3>1 DEF Owned
    <3> QED BY <1>1, <1>2, <2>4, <3>2, <3>3, <3>4, <3>5, OwnFrame DEF EpochInv
  <2>7. HeldInv'
    <3>1. \A u \in Epoch!Ids : InOp(u) => InOp(u)'
      BY <1>2 DEF InOp
    <3>2. \A u \in Epoch!Ids : held[u] # o
      BY <2>3 DEF EpochInv, HeldInv, Safe
    <3>3. \A u \in Epoch!Ids :
            /\ pools'[u].old = pools[u].old /\ pools'[u].epoch = pools[u].epoch
            /\ Elems(pools'[u].reserve) \subseteq Elems(pools[u].reserve)
      BY <2>3, <2>4
    <3>4. ASSUME NEW u \in Epoch!Ids PROVE Safe(u)'
      BY <1>1, <1>4, <3>1, <3>2, <3>3, Zenon DEF EpochInv, HeldInv, Safe
    <3>5. ASSUME NEW u \in Epoch!Ids, pc'[u] = "rotate" PROVE Epoch!Expired(u)'
      BY <1>1, <1>2, <3>3, <3>5 DEF EpochInv, HeldInv, Epoch!Expired
    <3> QED BY <3>4, <3>5 DEF HeldInv
  <2> QED BY <2>5, <2>6, <2>7 DEF EpochInv
<1> QED BY <1>3, <1>4 DEF Epoch!Retire

(* What is old can be destructed: nobody holds it.  What is current is old *)
(* in the current epoch.                                                   *)
LEMMA RotateStep == ASSUME EpochInv, ClockInv', NEW t \in Epoch!Ids, Epoch!Rotate(t) PROVE EpochInv'
<1>1. /\ pc[t] = "rotate" /\ pc' = [pc EXCEPT ![t] = "step"]
      /\ pools' = [pools EXCEPT ![t] = Epoch!Rotated(pools[t])]
      /\ UNCHANGED <<current_epoch, announcements, link, freed, held, victim>>
  BY DEF Epoch!Rotate, Epoch!At, Epoch!Goto, Epoch!shared, Epoch!objs
<1>2. /\ \A u \in Epoch!Ids \ {t} : pc'[u] = pc[u] /\ pools'[u] = pools[u]
      /\ pc'[t] = "step" /\ pools'[t] = Epoch!Rotated(pools[t])
      /\ pools[t] \in PoolRecords /\ OwnPool(t) /\ current_epoch \in Nat
  BY <1>1 DEF EpochInv, ClockInv, EpochTypes, ObjectTypes, OwnedOnce
<1>3. /\ pools'[t].old = pools[t].current /\ pools'[t].current = << >>
      /\ pools'[t].reserve = pools[t].reserve \o pools[t].old /\ pools'[t].epoch = current_epoch
  <2> DEFINE longer == pools[t].reserve \o pools[t].old
  <2>1. pools'[t] = [old |-> pools[t].current, current |-> << >>, reserve |-> longer, epoch |-> current_epoch]
    BY <1>2 DEF Epoch!Rotated
  <2> HIDE DEF longer
  <2>2. /\ pools'[t].old = pools[t].current /\ pools'[t].current = << >>
        /\ pools'[t].reserve = longer /\ pools'[t].epoch = current_epoch
    BY <2>1
  <2> QED BY <2>2 DEF longer
<1>4. /\ pools[t].reserve \o pools[t].old \in Seq(Addresses)
      /\ Elems(pools'[t].reserve) = Elems(pools[t].reserve) \cup Elems(pools[t].old)
      /\ Once(pools'[t].reserve)
  BY <1>2, <1>3, ConcatElems DEF PoolRecords, OwnPool
<1>5. ObjectTypes'
  <2>1. Epoch!Rotated(pools[t]) \in PoolRecords
    BY <1>2, <1>4 DEF Epoch!Rotated, PoolRecords
  <2> QED BY <1>1, <2>1 DEF EpochInv, ObjectTypes
<1>6. OwnedOnce'
  <2>1. Listed(t)' = Listed(t) /\ Victim(t)' = Victim(t)
    BY <1>1, <1>3, <1>4, NoElems DEF Listed, Victim
  <2>2. OwnPool(t)'
    BY <1>2, <1>3, <1>4, <2>1, NoElems DEF OwnPool
  <2> QED BY <1>1, <1>2, <2>1, <2>2, OwnFrame DEF EpochInv, OwnedOnce, Owned
<1>7. HeldInv'
  <2>1. \A u \in Epoch!Ids : InOp(u) => InOp(u)'
    BY <1>2 DEF InOp
  <2>2. ASSUME NEW u \in Epoch!Ids PROVE Safe(u)'
    <3>1. /\ held'[u] # Null => InOp(u)'
          /\ held'[u] \notin freed'
      BY <1>1, <2>1 DEF EpochInv, HeldInv, Safe
    <3>2. ASSUME NEW w \in Epoch!Ids, w # t
          PROVE  /\ held'[u] \in Elems(pools'[w].old) => announcements'[u] <= pools'[w].epoch
                 /\ held'[u] \notin Elems(pools'[w].reserve)
      BY <1>1, <1>2, <3>2 DEF EpochInv, HeldInv, Safe
    <3>3. held'[u] \in Elems(pools'[t].old) => announcements'[u] <= pools'[t].epoch
      <4> SUFFICES ASSUME held[u] \in Elems(pools[t].current) PROVE announcements[u] <= current_epoch
        BY <1>1, <1>3
      <4>1. held[u] # Null
        BY <1>2, ElemsType, NodesOK DEF PoolRecords
      <4> QED BY <4>1 DEF EpochInv, HeldInv, Safe, ClockInv, AnnounceInv
    <3>4. held'[u] \notin Elems(pools'[t].reserve)
      BY <1>1, <1>4, OldIsUnheld DEF EpochInv, HeldInv, Safe
    <3> QED BY <3>1, <3>2, <3>3, <3>4 DEF Safe
  <2>3. ASSUME NEW u \in Epoch!Ids, pc'[u] = "rotate" PROVE Epoch!Expired(u)'
    BY <1>1, <1>2, <2>3 DEF EpochInv, HeldInv, Epoch!Expired
  <2> QED BY <2>2, <2>3 DEF HeldInv
<1> QED BY <1>5, <1>6, <1>7 DEF EpochInv

(* What t has unlinked becomes current, when update_epoch_steps is over.   *)
LEMMA KeepStep ==
  ASSUME EpochInv, ClockInv', NEW t \in Epoch!Ids, Epoch!Push(t), InOp(t),
         UNCHANGED <<current_epoch, announcements, link, freed, held>>
  PROVE  EpochInv'
<1>1. /\ pc' = [pc EXCEPT ![t] = "in"] /\ victim' = [victim EXCEPT ![t] = Null]
      /\ pools' = IF victim[t] = Null THEN pools
                  ELSE [pools EXCEPT ![t].current = Append(pools[t].current, victim[t])]
  BY DEF Epoch!Push, Epoch!Goto
<1>2. /\ \A u \in Epoch!Ids \ {t} : pc'[u] = pc[u] /\ victim'[u] = victim[u]
      /\ pc'[t] = "in" /\ victim'[t] = Null /\ victim[t] \in Addresses \cup {Null}
      /\ pools \in [Epoch!Ids -> PoolRecords] /\ pools[t].current \in Seq(Addresses) /\ OwnPool(t)
  BY <1>1 DEF EpochInv, ClockInv, EpochTypes, ObjectTypes, PoolRecords, OwnedOnce
<1>3. /\ pools' \in [Epoch!Ids -> PoolRecords]
      /\ \A u \in Epoch!Ids \ {t} : pools'[u] = pools[u]
      /\ pools'[t].old = pools[t].old /\ pools'[t].reserve = pools[t].reserve
      /\ pools'[t].epoch = pools[t].epoch /\ Once(pools'[t].current)
      /\ Elems(pools'[t].current) = Elems(pools[t].current) \cup Victim(t)
  <2>1. CASE victim[t] = Null
    BY <1>1, <1>2, <2>1 DEF Victim, OwnPool
  <2>2. CASE victim[t] # Null
    <3>1. /\ victim[t] \in Addresses /\ Victim(t) = {victim[t]}
          /\ victim[t] \notin Elems(pools[t].current)
      BY <1>2, <2>2 DEF Victim, OwnPool, Listed
    <3>2. /\ Append(pools[t].current, victim[t]) \in Seq(Addresses)
          /\ Elems(Append(pools[t].current, victim[t])) = Elems(pools[t].current) \cup Victim(t)
          /\ Once(Append(pools[t].current, victim[t]))
      BY <1>2, <3>1, AppendElems DEF OwnPool
    <3>3. pools' = [pools EXCEPT ![t].current = Append(pools[t].current, victim[t])]
      BY <1>1, <2>2
    <3>4. /\ pools' \in [Epoch!Ids -> PoolRecords]
          /\ \A u \in Epoch!Ids \ {t} : pools'[u] = pools[u]
          /\ pools'[t].old = pools[t].old /\ pools'[t].reserve = pools[t].reserve
          /\ pools'[t].epoch = pools[t].epoch
          /\ pools'[t].current = Append(pools[t].current, victim[t])
      BY <1>2, <3>2, <3>3, CurrentSet, Zenon
    <3> QED BY <3>2, <3>4
  <2> QED BY <2>1, <2>2
<1>4. ObjectTypes'
  BY <1>1, <1>3 DEF EpochInv, ObjectTypes
<1>5. OwnedOnce'
  <2>1. Listed(t)' = Listed(t) \cup Victim(t) /\ Victim(t)' = {}
    BY <1>2, <1>3 DEF Listed, Victim
  <2>2. OwnPool(t)'
    BY <1>2, <1>3, <2>1 DEF OwnPool, Listed
  <2>3. Owned(t)' = Owned(t)
    BY <2>1 DEF Owned
  <2> QED BY <1>2, <1>3, <2>2, <2>3, OwnFrame DEF EpochInv, OwnedOnce
<1>6. HeldInv'
  <2>1. \A u \in Epoch!Ids : pc'[u] = "rotate" => pc[u] = "rotate"
    BY <1>2
  <2>2. \A u \in Epoch!Ids : InOp(u) => InOp(u)'
    BY <1>2 DEF InOp
  <2>3. current_epoch' >= current_epoch
    BY DEF EpochInv, ClockInv, EpochTypes
  <2> QED BY <1>3, <1>4, <2>1, <2>2, <2>3, HeldFrame
<1> QED BY <1>4, <1>5, <1>6 DEF EpochInv

LEMMA UpdateSteps ==
  ASSUME EpochInv, ClockInv', NEW t \in Epoch!Ids,
         Epoch!StepEpoch(t) \/ Epoch!Sweep(t) \/ Epoch!Save(t)
  PROVE  EpochInv'
<1>1. /\ pc[t] \in {"step", "sweep", "save"}
      /\ UNCHANGED <<current_epoch, announcements, link, freed, held>>
      /\ \/ Epoch!Push(t)
         \/ /\ UNCHANGED <<pools, victim>>
            /\ \E l \in {"advance", "sweep", "save"} : pc' = [pc EXCEPT ![t] = l]
  BY DEF Epoch!StepEpoch, Epoch!Sweep, Epoch!Save, Epoch!At, Epoch!Goto, Epoch!shared
<1>2. CASE Epoch!Push(t)
  BY <1>1, <1>2, KeepStep DEF InOp
<1>3. CASE UNCHANGED <<pools, victim>> /\ \E l \in {"advance", "sweep", "save"} : pc' = [pc EXCEPT ![t] = l]
  <2>1. \A u \in Epoch!Ids : pc'[u] = pc[u] \/ pc'[u] \in {"advance", "sweep", "save"}
    BY <1>3 DEF EpochInv, ClockInv, EpochTypes
  <2>2. ObjectTypes'
    BY <1>1, <1>3 DEF EpochInv, ObjectTypes
  <2>3. OwnedOnce'
    <3>1. \A u \in Epoch!Ids : pc'[u] \in {"out", "announce", "confirm", "in"} => victim[u] = Null
      BY <2>1 DEF EpochInv, OwnedOnce, OwnPool
    <3> QED BY <1>1, <1>3, <3>1, OwnSame DEF EpochInv
  <2>4. \A u \in Epoch!Ids : (InOp(u) => InOp(u)') /\ (pc'[u] = "rotate" => pc[u] = "rotate")
    BY <2>1 DEF InOp
  <2>5. HeldInv'
    BY <1>1, <1>3, <2>2, <2>4, HeldFrame DEF EpochInv, ClockInv, EpochTypes
  <2> QED BY <2>2, <2>3, <2>5 DEF EpochInv
<1> QED BY <1>1, <1>2, <1>3

LEMMA EpochStep == ASSUME EpochInv, Epoch!Next PROVE EpochInv'
<1>1. ClockInv'
  BY ClockStep DEF EpochInv
<1>2. PICK t \in Epoch!Ids : Epoch!Step(t)
  BY DEF Epoch!Next
<1> QED BY <1>1, <1>2, SlotSteps, ReadStep, SwapStep, RetireStep, RotateStep, UpdateSteps DEF Epoch!Step

LEMMA EpochSteps ==
  ASSUME [Next]_vars, running = "epoch"
  PROVE  /\ running' = "epoch"
         /\ Epoch!Next \/ UNCHANGED <<current_epoch, epoch_state, announcements, link, freed, pools, pc,
                                      e, j, state, held, victim>>
BY DEF Next, vars, ofEpoch, shared

(* "Retire delays destruction and free until no operation that was in a    *)
(* with_epoch at the time it was run is still within the with_epoch"       *)
(* (epoch.h:9), for any threads, objects and steps per call.               *)
THEOREM HeldKept == Spec => []HeldNotDestructed
<1> DEFINE Inv == running = "epoch" => EpochInv
<1>1. Init => Inv
  <2> SUFFICES ASSUME Epoch!Init PROVE EpochInv
    BY DEF Init
  <2>1. Epoch!EmptyPool \in PoolRecords
    BY DEF Epoch!EmptyPool, PoolRecords
  <2>2. ClockInv
    <3>1. EpochTypes
      BY WorkersOK DEF Epoch!Init, EpochTypes, States, Places
    <3>2. StateInv
      BY DEF Epoch!Init, StateInv, AllPassed
    <3> QED BY <3>1, <3>2 DEF Epoch!Init, ClockInv, AnnounceInv, SweepInv, InOp
  <2>3. ObjectTypes
    BY <2>1, NodesOK DEF Epoch!Init, ObjectTypes
  <2>4. ASSUME NEW t \in Epoch!Ids PROVE Owned(t) = {} /\ OwnPool(t)
    <3>1. /\ pools[t].old = << >> /\ pools[t].current = << >> /\ pools[t].reserve = << >>
          /\ victim[t] = Null
      BY DEF Epoch!Init, Epoch!EmptyPool
    <3> QED BY <3>1, NoElems DEF Owned, OwnPool, Listed, Victim
  <2>5. OwnedOnce
    BY <2>4 DEF Epoch!Init, OwnedOnce
  <2>6. HeldInv
    <3>1. ASSUME NEW t \in Epoch!Ids PROVE Safe(t)
      <4>1. \A u \in Epoch!Ids : pools[u].old = << >> /\ pools[u].reserve = << >>
        BY DEF Epoch!Init, Epoch!EmptyPool
      <4>2. held[t] = Null /\ Null \notin freed
        BY <2>3, NodesOK DEF Epoch!Init, ObjectTypes
      <4> QED BY <4>1, <4>2, NoElems DEF Safe
    <3> QED BY <3>1 DEF Epoch!Init, HeldInv
  <2> QED BY <2>2, <2>3, <2>5, <2>6 DEF EpochInv
<1>2. Inv /\ [Next]_vars => Inv'
  <2> SUFFICES ASSUME Inv, [Next]_vars, running' = "epoch" PROVE EpochInv'
    OBVIOUS
  <2>1. running = "epoch"
    BY DEF Next, vars
  <2>2. CASE Epoch!Next
    BY <2>1, <2>2, EpochStep
  <2>3. CASE UNCHANGED <<current_epoch, epoch_state, announcements, link, freed, pools, pc,
                         e, j, state, held, victim>>
    <3>1. ClockInv'
      BY <2>1, <2>3, SameClock DEF EpochInv
    <3> QED BY <2>1, <2>3, <3>1, Zenon DEF EpochInv, ObjectTypes, OwnedOnce, OwnPool, Owned, Listed, Victim,
                                    HeldInv, Safe, InOp, Epoch!Expired
  <2> QED BY <2>1, <2>2, <2>3, EpochSteps
<1>3. Inv => HeldNotDestructed
  <2> SUFFICES ASSUME running = "epoch", EpochInv, NEW t \in Epoch!Ids, held[t] # Null
               PROVE  held[t] \notin Epoch!Destructed
    BY DEF HeldNotDestructed, Epoch!HeldNotDestructed
  <2>1. ASSUME NEW u \in Epoch!Ids PROVE Epoch!ToSet(pools[u].reserve) = Elems(pools[u].reserve)
    <3>1. pools[u].reserve \in Seq(Addresses)
      BY DEF EpochInv, ObjectTypes, PoolRecords
    <3> QED BY <3>1 DEF Epoch!ToSet, Elems
  <2> QED BY <2>1 DEF EpochInv, HeldInv, Safe, Epoch!Destructed
<1> QED BY <1>1, <1>2, <1>3, PTL DEF Spec

-----------------------------------------------------------------------------
(* Work stealing.  WorkStealingProofs is about any worker that takes the   *)
(* steps of the structure Jobs: its definitions and those of Jobs are the  *)
(* same.                                                                   *)

Proved == INSTANCE WorkStealingProofs

LEMMA SameStep == ASSUME NEW w \in Jobs!Workers PROVE Jobs!Step(w) => Proved!Step(w)
<1> USE DEF Jobs!Ran, Proved!Ran, Jobs!Goto, Proved!Goto, Jobs!Enter, Proved!Enter, Jobs!Frame,
            Proved!Frame, Jobs!NoJob, Proved!NoJob, Jobs!Batches, Proved!Batches, Jobs!BiggerOf,
            Proved!BiggerOf, Jobs!deques, Proved!deques, Jobs!sleep, Proved!sleep, Jobs!Top,
            Proved!Top, Jobs!Return, Proved!Return, Jobs!loop, Proved!loop, Jobs!Right,
            Proved!Right, Jobs!Mid, Proved!Mid, Jobs!hist, Proved!hist, Jobs!Left, Proved!Left,
            Jobs!Done, Proved!Done, Jobs!Popped, Proved!Popped, Jobs!NoReg, Proved!NoReg,
            Jobs!InPardo, Proved!InPardo, Jobs!Run, Proved!Run, Jobs!NextAge, Proved!NextAge,
            Jobs!Workers, Proved!Workers, Jobs!Stole, Proved!Stole, Jobs!GiveUp, Proved!GiveUp,
            Jobs!AfterWake, Proved!AfterWake, Jobs!Waiting, Proved!Waiting, Jobs!Sleepers,
            Proved!Sleepers
<1>1. Jobs!Work(w) => Proved!Work(w)
  <2>1. Jobs!ParallelFor(w) => Proved!ParallelFor(w)
    BY Zenon DEF Jobs!ParallelFor, Proved!ParallelFor
  <2>2. Jobs!Iterate(w) => Proved!Iterate(w)
    BY DEF Jobs!Iterate, Proved!Iterate
  <2>3. Jobs!Spawn(w) => Proved!Spawn(w)
    BY DEF Jobs!Spawn, Proved!Spawn
  <2>4. Jobs!Publish(w) => Proved!Publish(w)
    BY DEF Jobs!Publish, Proved!Publish
  <2>5. Jobs!Find(w) => Proved!Find(w)
    BY DEF Jobs!Find, Proved!Find
  <2>6. Jobs!TryOwn(w) => Proved!TryOwn(w)
    BY DEF Jobs!TryOwn, Proved!TryOwn
  <2> QED BY <2>1, <2>2, <2>3, <2>4, <2>5, <2>6 DEF Jobs!Work, Proved!Work
<1>2. Jobs!Own(w) => Proved!Own(w)
  <2>1. Jobs!PopBottom(w) => Proved!PopBottom(w)
    BY DEF Jobs!PopBottom, Proved!PopBottom
  <2>2. Jobs!PopAge(w) => Proved!PopAge(w)
    BY Zenon DEF Jobs!PopAge, Proved!PopAge
  <2>3. Jobs!PopReset(w) => Proved!PopReset(w)
    BY DEF Jobs!PopReset, Proved!PopReset
  <2>4. Jobs!PopLast(w) => Proved!PopLast(w)
    BY Zenon DEF Jobs!PopLast, Proved!PopLast
  <2>5. Jobs!PopTag(w) => Proved!PopTag(w)
    BY Zenon DEF Jobs!PopTag, Proved!PopTag
  <2> QED BY <2>1, <2>2, <2>3, <2>4, <2>5 DEF Jobs!Own, Proved!Own
<1>3. Jobs!Theft(w) => Proved!Theft(w)
  <2>1. Jobs!Steal(w) => Proved!Steal(w)
    BY Zenon DEF Jobs!Steal, Proved!Steal
  <2>2. Jobs!StealBot(w) => Proved!StealBot(w)
    BY DEF Jobs!StealBot, Proved!StealBot
  <2>3. Jobs!StealSlot(w) => Proved!StealSlot(w)
    BY DEF Jobs!StealSlot, Proved!StealSlot
  <2>4. Jobs!StealAge(w) => Proved!StealAge(w)
    BY DEF Jobs!StealAge, Proved!StealAge
  <2>5. Jobs!Stolen(w) => Proved!Stolen(w)
    BY DEF Jobs!Stolen, Proved!Stolen
  <2> QED BY <2>1, <2>2, <2>3, <2>4, <2>5 DEF Jobs!Theft, Proved!Theft
<1>4. Jobs!Rest(w) => Proved!Rest(w)
  <2>1. Jobs!Sleep(w) => Proved!Sleep(w)
    BY DEF Jobs!Sleep, Proved!Sleep
  <2>2. Jobs!Load(w) => Proved!Load(w)
    BY DEF Jobs!Load, Proved!Load
  <2>3. Jobs!Block(w) => Proved!Block(w)
    BY DEF Jobs!Block, Proved!Block
  <2>4. Jobs!Woken(w) => Proved!Woken(w)
    BY DEF Jobs!Woken, Proved!Woken
  <2>5. Jobs!Exit(w) => Proved!Exit(w)
    BY DEF Jobs!Exit, Proved!Exit
  <2> QED BY <2>1, <2>2, <2>3, <2>4, <2>5 DEF Jobs!Rest, Proved!Rest
<1>5. Jobs!Wakes(w) => Proved!Wakes(w)
  <2>1. Jobs!Awaken(w) => Proved!Awaken(w)
    BY DEF Jobs!Awaken, Proved!Awaken
  <2>2. Jobs!Count(w) => Proved!Count(w)
    BY DEF Jobs!Count, Proved!Count
  <2>3. Jobs!Notify(w) => Proved!Notify(w)
    BY Zenon DEF Jobs!Notify, Proved!Notify
  <2>4. Jobs!WakeAll(w) => Proved!WakeAll(w)
    BY DEF Jobs!WakeAll, Proved!WakeAll
  <2>5. Jobs!NotifyAll(w) => Proved!NotifyAll(w)
    BY DEF Jobs!NotifyAll, Proved!NotifyAll
  <2> QED BY <2>1, <2>2, <2>3, <2>4, <2>5 DEF Jobs!Wakes, Proved!Wakes
<1>6. Jobs!Shutdown(w) \/ Jobs!Spam(w) => Proved!Shutdown(w) \/ Proved!Spam(w)
  BY DEF Jobs!Shutdown, Proved!Shutdown, Jobs!Spam, Proved!Spam
<1> QED BY <1>1, <1>2, <1>3, <1>4, <1>5, <1>6 DEF Jobs!Step, Proved!Step

JobVars == <<ofJobs, pc, finished>>

LEMMA JobsKeep ==
  ASSUME Proved!Inv, Jobs!Next \/ UNCHANGED JobVars PROVE Proved!Inv'
<1>1. CASE Jobs!Next
  <2>1. PICK w \in Jobs!Workers : Jobs!Step(w)
    BY <1>1 DEF Jobs!Next
  <2>2. w \in Proved!Workers /\ Proved!Step(w)
    BY <2>1, SameStep DEF Jobs!Workers, Proved!Workers
  <2> QED BY <2>2, Proved!StepKeeps
<1>2. CASE UNCHANGED JobVars
  <2>1. UNCHANGED Proved!vars
    BY <1>2 DEF JobVars, ofJobs, Proved!vars, Proved!deques, Proved!loop, Proved!sleep, Proved!hist
  <2> QED BY <2>1, Proved!StutterKeeps
<1> QED BY <1>1, <1>2

LEMMA JobsBegin == Jobs!Init => Proved!Inv
<1>1. Proved!Params
  BY JobsOK DEF Jobs!Params, Proved!Params
<1>2. Jobs!Init => Proved!Init
  BY DEF Jobs!Init, Proved!Init, Jobs!Workers, Proved!Workers, Jobs!NoJob, Proved!NoJob,
         Jobs!NoReg, Proved!NoReg
<1> QED BY <1>1, <1>2, Proved!Begins

LEMMA JobsAlways == Spec => [](running = "jobs" => Proved!Inv)
<1>1. Init => (running = "jobs" => Proved!Inv)
  BY JobsBegin DEF Init
<1>2. (running = "jobs" => Proved!Inv) /\ [Next]_vars => (running = "jobs" => Proved!Inv)'
  <2> SUFFICES ASSUME running = "jobs" => Proved!Inv, [Next]_vars, running' = "jobs" PROVE Proved!Inv'
    OBVIOUS
  <2>1. running = "jobs" /\ (Jobs!Next \/ UNCHANGED JobVars)
    BY DEF Next, vars, shared, JobVars
  <2> QED BY <2>1, JobsKeep
<1> QED BY <1>1, <1>2, PTL DEF Spec

(* Every iteration of a parallel_for runs at most once, and when it        *)
(* returns to its caller each has run (scheduler.h, parallel.h): for any   *)
(* number of workers, length of the loop and granularity, whichever        *)
(* batches measure it and whoever steals what and when.                    *)
THEOREM EachOnce == Spec => []IterationsOnce
<1>1. (running = "jobs" => Proved!Inv) => IterationsOnce
  <2>1. Proved!Inv => Jobs!IterationsOnce
    BY Proved!OncePerIteration DEF Jobs!IterationsOnce, Proved!IterationsOnce
  <2> QED BY <2>1 DEF IterationsOnce
<1> QED BY <1>1, JobsAlways, PTL

(* No job is run by two workers; what pop_bottom gives back to a pardo is  *)
(* the job it pushed, and a join ends when its job is finished and not     *)
(* before, so that the job, which is on the stack of the pardo, is there   *)
(* as long as anyone runs it (work_stealing_deque.h, work_stealing_job.h). *)
THEOREM JobsOnce == Spec => []JobsRunOnce
<1>1. (running = "jobs" => Proved!Inv) => JobsRunOnce
  <2>1. Proved!Inv => Jobs!AssertionsHold
    BY Proved!Asserted DEF Jobs!AssertionsHold, Proved!AssertionsHold
  <2>2. Proved!Inv => Jobs!JobsOutlived
    BY Proved!Outlived, Zenon DEF Jobs!JobsOutlived, Proved!JobsOutlived, Jobs!Workers, Proved!Workers,
                           Jobs!NoJob, Proved!NoJob, Jobs!Right, Proved!Right, Jobs!Mid, Proved!Mid
  <2> QED BY <2>1, <2>2 DEF JobsRunOnce
<1> QED BY <1>1, JobsAlways, PTL
-----------------------------------------------------------------------------
(* The fixed hash table: HashTableProofs is about the structure Cells, and *)
(* has the definitions of it under other names.                            *)

Settling == INSTANCE HashTableProofs WITH
              Procs <- Trio, Keys <- CellKeys, Values <- CellValues, M <- CellCount,
              Hash <- CellHash, MaxCalls <- CellCalls

LEMMA SameSizes ==
  ASSUME NEW S
  PROVE  /\ Cells!IsFiniteSet(S) <=> Settling!IsFiniteSet(S)
         /\ Cells!Cardinality(S) = Settling!Cardinality(S)
<1>1. Cells!IsFiniteSet(S) <=> Settling!IsFiniteSet(S)
  BY DEF Cells!IsFiniteSet, Settling!IsFiniteSet
<1>2. Cells!Cardinality(S) = Settling!Cardinality(S)
  BY DEF Cells!Cardinality, Settling!Cardinality
<1> QED BY <1>1, <1>2

LEMMA CellsParams == Settling!Params
<1>1. \A k : Cells!firstIndex(k) = Settling!firstIndex(k)
  BY DEF Cells!firstIndex, Settling!firstIndex
<1>2. Settling!ShortClusters
  <2>1. Cells!ShortClusters
    BY CellsOK DEF Cells!Params
  <2> QED BY <1>1, <2>1, SameSizes, Zenon DEF Cells!ShortClusters, Settling!ShortClusters
<1> QED BY <1>2, CellsOK, SameSizes DEF Cells!Params, Settling!Params

LEMMA SameCells == ASSUME NEW p \in Trio PROVE Cells!Step(p) => Settling!Step(p)
<1> USE DEF Cells!Key, Settling!Key, Cells!empty, Settling!empty, Cells!Idle, Settling!Idle,
            Cells!firstIndex, Settling!firstIndex, Cells!incrementIndex, Settling!incrementIndex,
            Cells!decrementIndex, Settling!decrementIndex, Cells!Goto, Settling!Goto,
            Cells!Return, Settling!Return, Cells!Call, Settling!Call, Cells!Against,
            Settling!Against, Cells!cmp, Settling!cmp, Cells!replaceQ, Settling!replaceQ
<1>1. ASSUME NEW v PROVE Cells!CallInsert(p, v) => Settling!CallInsert(p, v)
  BY DEF Cells!CallInsert, Settling!CallInsert, Cells!Put, Settling!Put
<1>2. ASSUME NEW k PROVE Cells!CallDelete(p, k) => Settling!CallDelete(p, k)
  BY DEF Cells!CallDelete, Settling!CallDelete
<1>3. Cells!Probe(p) => Settling!Probe(p)
  BY DEF Cells!Probe, Settling!Probe
<1>4. Cells!InsertCas(p) => Settling!InsertCas(p)
  BY DEF Cells!InsertCas, Settling!InsertCas, Cells!update, Settling!update
<1>5. Cells!Descend(p) => Settling!Descend(p)
  BY DEF Cells!Descend, Settling!Descend
<1>6. Cells!Back(p) => Settling!Back(p)
  BY DEF Cells!Back, Settling!Back
<1>7. Cells!Found(p) => Settling!Found(p)
  BY DEF Cells!Found, Settling!Found
<1>8. Cells!ScanUp(p) => Settling!ScanUp(p)
  BY DEF Cells!ScanUp, Settling!ScanUp, Cells!Stays, Settling!Stays, Cells!lessIndex,
         Settling!lessIndex
<1>9. Cells!ScanDown(p) => Settling!ScanDown(p)
  BY DEF Cells!ScanDown, Settling!ScanDown, Cells!Stays, Settling!Stays, Cells!lessIndex,
         Settling!lessIndex
<1>10. Cells!Replace(p) => Settling!Replace(p)
  BY DEF Cells!Replace, Settling!Replace
<1>11. Cells!Reread(p) => Settling!Reread(p)
  BY DEF Cells!Reread, Settling!Reread
<1> QED
  BY <1>1, <1>2, <1>3, <1>4, <1>5, <1>6, <1>7, <1>8, <1>9, <1>10, <1>11
  DEF Cells!Step, Settling!Step

CellVars == <<ofCells, content, me, calls>>

LEMMA CellsKeep ==
  ASSUME Settling!Inv, Cells!Next \/ UNCHANGED CellVars PROVE Settling!Inv'
<1>1. CASE Cells!Next
  <2>1. Cells!ChangePhase => Settling!ChangePhase
    BY DEF Cells!ChangePhase, Settling!ChangePhase, Cells!Quiet, Settling!Quiet
  <2>2. Settling!Next
    BY <1>1, <2>1, SameCells DEF Cells!Next, Settling!Next
  <2> QED BY <2>2, CellsParams, Settling!StepInv
<1>2. CASE UNCHANGED CellVars
  <2>1. UNCHANGED Settling!vars
    BY <1>2 DEF CellVars, ofCells, Settling!vars
  <2> QED BY <2>1, CellsParams, Settling!StepInv
<1> QED BY <1>1, <1>2

LEMMA CellsBegin == Cells!Init => Settling!Inv
<1>1. Cells!Init => Settling!Init
  BY DEF Cells!Init, Settling!Init, Cells!Idle, Settling!Idle, Cells!empty, Settling!empty
<1> QED BY <1>1, CellsParams, Settling!InitInv

LEMMA SameHistory == Settling!HistoryIndependent => Cells!HistoryIndependent
<1> USE DEF Cells!Key, Settling!Key, Cells!empty, Settling!empty, Cells!firstIndex,
            Settling!firstIndex
<1>1. Cells!Layout(content) = Settling!Layout(content)
  BY DEF Cells!Layout, Settling!Layout, Cells!MapThenFoldSet, Settling!MapThenFoldSet, Cells!Min,
         Settling!Min
<1>2. ASSUME NEW k \in CellKeys PROVE Cells!find(k) = Settling!find(k)
  <2> USE DEF Cells!Against, Settling!Against, Cells!cmp, Settling!cmp
  <2>1. Cells!Stop(k) = Settling!Stop(k)
    BY DEF Cells!Stop, Settling!Stop, Cells!Min, Settling!Min
  <2>2. Cells!findIndex(k) = Settling!findIndex(k)
    BY <2>1 DEF Cells!findIndex, Settling!findIndex
  <2> QED BY <2>2 DEF Cells!find, Settling!find
<1>3. Cells!count = Settling!count /\ Cells!get_index = Settling!get_index
  BY SameSizes DEF Cells!count, Settling!count, Cells!get_index, Settling!get_index
<1>4. Cells!entries = Settling!entries
  BY DEF Cells!entries, Settling!entries
<1>5. Cells!ToSet(Cells!entries) = Settling!ToSet(Settling!entries)
  BY <1>4 DEF Cells!ToSet, Settling!ToSet
<1>6. Cells!Quiet <=> Settling!Quiet
  BY DEF Cells!Quiet, Settling!Quiet
<1>7. Cells!Cardinality(content) = Settling!Cardinality(content)
  BY SameSizes
<1> QED
  BY <1>1, <1>2, <1>3, <1>4, <1>5, <1>6, <1>7
  DEF Cells!HistoryIndependent, Settling!HistoryIndependent

(* Between phases of insertions, updates or deletions the cells depend on  *)
(* the elements only, not on the order of the calls nor on how their       *)
(* threads met, and each of the elements is found, listed and counted once *)
(* (hash_table.h): for any threads, keys, values and calls, and any hash   *)
(* and size with which clusters stay short.                                *)
THEOREM HistoryLost == Spec => []HistoryIndependent
<1> DEFINE Inv == running = "cells" => Settling!Inv
<1>1. Init => Inv
  BY CellsBegin DEF Init
<1>2. Inv /\ [Next]_vars => Inv'
  <2> SUFFICES ASSUME Inv, [Next]_vars, running' = "cells" PROVE Settling!Inv'
    OBVIOUS
  <2>1. running = "cells" /\ (Cells!Next \/ UNCHANGED CellVars)
    BY DEF Next, vars, shared, CellVars
  <2> QED BY <2>1, CellsKeep
<1>3. Inv => HistoryIndependent
  BY SameHistory, CellsParams, Settling!InvHistory DEF HistoryIndependent
<1> QED BY <1>1, <1>2, <1>3, PTL DEF Spec
=============================================================================

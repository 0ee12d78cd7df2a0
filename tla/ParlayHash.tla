------------------------------ MODULE ParlayHash ------------------------------
(***************************************************************************)
(* The concurrent hash table of parlay_hash/parlay_hash.h: buckets whose   *)
(* state is replaced whole (ll, sc of bigatomic.h, atomic here and checked *)
(* in BigAtomic), and a table that grows while it is used: a version with  *)
(* more buckets is linked to the full one, each updater copies a block of  *)
(* buckets before it goes on, and a copied bucket keeps a forwarded mark.  *)
(*                                                                         *)
(* Direct entries (DirectEntries). Links are immutable and outlive their   *)
(* readers (Epoch), so a list is a sequence. Delays are left out.          *)
(***************************************************************************)
EXTENDS Integers, Sequences, SequencesExt, FiniteSets

CONSTANTS
  Procs,        \* threads that use the table
  Keys,
  HashBits,     \* bits of a hash value (the code's 48)
  Hash,         \* hash of a key, below 2^HashBits
  Ops,          \* the operations on a key that threads call
  Prefilled,    \* keys inserted, in this order, before the threads start
  BufferSize,   \* buffer_size
  GrowBits,     \* log_grow_factor
  FirstBits,    \* num_bits of the initial table
  BlockSize,    \* block_size of each version
  OverflowSize, \* overflow_size of every version
  MaxVersions,  \* bound: versions of the table
  MaxOps        \* bound: operations a thread calls

VARIABLES
  made,     \* versions created; version v's next is v + 1, null while v = made
  current,  \* current_table_version
  buckets,  \* buckets[<<v, i>>] : state and tag, of the buckets initialized
  status,   \* status[<<v, blk>>] : block_status
  finished, \* finished[v] : finished_block_count
  content,  \* what the operations so far put under each key (None: nothing)
  me,       \* the locals of every thread
  calls,    \* operations each thread has called
  spoilt    \* an update has stored the forwarded mark: the model stops

vars == <<made, current, buckets, status, finished, content, me, calls, spoilt>>

None == -1

(* A state: the buffer, the overflow list, and whether it is the mark.     *)
Bucket(buf, list) == [fwd |-> FALSE, buf |-> buf, list |-> list]
EmptyState        == Bucket(<<>>, <<>>)
Forwarded         == [fwd |-> TRUE, buf |-> <<>>, list |-> <<>>]
Entries(s)        == s.buf \o s.list
Overfull(s)       == s.list # <<>>

GrowFactor   == 2 ^ GrowBits
Bits(v)      == FirstBits + (v - 1) * GrowBits
Size(v)      == 2 ^ Bits(v)
NumBlocks(v) == Size(v) \div BlockSize[v]
Index(v, k)  == Hash[k] \div 2 ^ (HashBits - Bits(v))
Home(v, k)   == <<v, Index(v, k)>>
Kids(b)      == {<<b[1] + 1, GrowFactor * b[2] + j>> : j \in 0 .. GrowFactor - 1}

(* Position of k in a buffer or a list, 0 if it is not there.              *)
InBuffer(q, k) == SelectInSeq(q, LAMBDA e : e.key = k)
InList(q, k)   == InBuffer(q, k)

(* The states an operation replaces s by. *)
AddToBuffer(s, e)  == Bucket(Append(s.buf, e), <<>>)
AddToList(s, e)    == Bucket(s.buf, <<e>> \o s.list)
Add(s, e)          == IF Len(s.buf) < BufferSize THEN AddToBuffer(s, e)
                                                 ELSE AddToList(s, e)
DropFromFull(s, i) == Bucket(ReplaceAt(s.buf, i, Head(s.list)), Tail(s.list))
DropFromBuffer(s, i) == Bucket(Front(ReplaceAt(s.buf, i, Last(s.buf))), <<>>)
DropFromList(s, i)   == Bucket(s.buf, RemoveAt(s.list, i))
UpdateList(s, i, e)  == Bucket(s.buf, ReplaceAt(s.list, i, e))

(* The buckets a copied bucket becomes. *)
Split(b, s) ==
  [kid \in Kids(b) |->
     FoldLeft(LAMBDA hold, e : IF Home(b[1] + 1, e.key) = kid THEN Add(hold, e)
                                                              ELSE hold,
              EmptyState, Entries(s))]

Entry(k, v) == [key |-> k, val |-> v]
Fill(q)     == FoldLeft(LAMBDA s, k : Add(s, Entry(k, 0)), EmptyState, q)

Idle == [pc |-> "idle", op |-> "none", key |-> CHOOSE k \in Keys : TRUE,
         ht |-> 0,               \* the version the operation started in
         b |-> <<0, 0>>,         \* its bucket; s and tag from the last ll of it
         s |-> EmptyState, tag |-> 0,
         t |-> 0,                \* version check_bucket_and_state is at
         out |-> FALSE,          \* Upsert: the copy out_s of s is the mark
         blk |-> 0, i |-> 0,     \* block being copied, bucket within it
         cs |-> EmptyState, ctag |-> 0,
         pending |-> {}, got |-> {},  \* for_each: buckets to read, entries read
         ever |-> [k \in Keys |-> {}],\* contents of the keys since the call
         ok |-> TRUE]            \* some order of the calls explains the result

Init ==
  /\ made = 1
  /\ current = 1
  /\ buckets = [b \in {1} \X (0 .. Size(1) - 1) |->
       [tag |-> 0, s |-> Fill(SelectSeq(Prefilled, LAMBDA k : Home(1, k) = b))]]
  /\ status = [b \in {1} \X (0 .. NumBlocks(1) - 1) |-> "Empty"]
  /\ finished = [v \in 1 .. MaxVersions |-> 0]
  /\ content = [k \in Keys |-> IF k \in ToSet(Prefilled) THEN 0 ELSE None]
  /\ me = [p \in Procs |-> Idle]
  /\ calls = [p \in Procs |-> 0]
  /\ spoilt = FALSE

-------------------------------------------------------------------------------
(* Thread p goes to pc with the locals of l. *)
Goto(p, l, pc) == me' = [me EXCEPT ![p] = [l EXCEPT !.pc = pc]]

(* The call of p returns: ok tells whether its result can be explained.    *)
Finish(p, ok) == me' = [me EXCEPT ![p] = [Idle EXCEPT !.ok = ok]]
Answer(p, r)  == Finish(p, r \in me[p].ever[me[p].key])

(* for_each: every entry was in the table at some time of the call, and    *)
(* every key that was there all the time is reported.                      *)
Gathered(l) ==
  /\ \A e \in l.got : e.val \in l.ever[e.key]
  /\ \A k \in Keys : None \notin l.ever[k] => \E e \in l.got : e.key = k

(* A call starts at the current version, whatever becomes of it.  Of the   *)
(* contents, those are noted that its result depends on.                   *)
Starting(p) ==
  /\ me[p].pc = "idle"
  /\ calls[p] < MaxOps
  /\ calls' = [calls EXCEPT ![p] = @ + 1]
  /\ UNCHANGED <<made, current, buckets, status, finished, content, spoilt>>

Call(p, op, k) ==
  /\ Starting(p)
  /\ Goto(p, [Idle EXCEPT !.op = op, !.key = k, !.ht = current, !.t = current,
                          !.b = Home(current, k), !.ever[k] = {content[k]}], "ll")

CallForEach(p) ==
  /\ Starting(p)
  /\ Goto(p, [Idle EXCEPT !.op = "for_each", !.ht = current, !.t = current,
                          !.pending = {<<current, i>> : i \in 0 .. Size(current) - 1},
                          !.ever = [x \in Keys |-> {content[x]}]], "gather")

shared == <<made, current, buckets, status, finished, content, calls, spoilt>>

(* ll of the bucket; Find does not help copying. *)
LoadLinked(p) ==
  LET l == me[p]
      x == [l EXCEPT !.s = buckets[l.b].s, !.tag = buckets[l.b].tag,
                     !.out = buckets[l.b].s.fwd, !.t = l.ht]
  IN  /\ l.pc = "ll"
      /\ Goto(p, x, IF l.op = "find" THEN "check" ELSE "copy")
      /\ UNCHANGED shared

(* copy_if_needed: take the block of the bucket index, or wait for it. The *)
(* block number is the low bits of the index, whatever version it is of.   *)
Block(l) == <<l.ht, l.b[2] % NumBlocks(l.ht)>>

CopyIfNeeded(p) ==
  LET l == me[p]
  IN  /\ l.pc = "copy"
      /\ IF made > l.ht /\ status[Block(l)] = "Empty"
         THEN /\ status' = [blk \in DOMAIN status \cup
                             {<<l.ht + 1, GrowFactor * Block(l)[2] + j>> :
                                 j \in 0 .. GrowFactor - 1} |->
                              IF blk = Block(l) THEN "Working"
                              ELSE IF blk \in DOMAIN status THEN status[blk] ELSE "Empty"]
              /\ Goto(p, [l EXCEPT !.blk = Block(l)[2],
                                   !.i = Block(l)[2] * BlockSize[l.ht]], "copyll")
         ELSE /\ made > l.ht => status[Block(l)] # "Working"
              /\ Goto(p, l, "check")
              /\ UNCHANGED status
      /\ UNCHANGED <<made, current, buckets, finished, content, calls, spoilt>>

(* copy_bucket: read the bucket, fill the new ones, which no one can reach *)
(* yet, and put the mark if the bucket is as it was, or start again.       *)
CopyLoad(p) ==
  LET l == me[p]
      b == <<l.ht, l.i>>
  IN  /\ l.pc = "copyll"
      /\ Goto(p, [l EXCEPT !.cs = buckets[b].s, !.ctag = buckets[b].tag], "copysc")
      /\ UNCHANGED shared

AsCopied_Always(b, l) == TRUE  \* fault: the mark is stored, not compared

AsCopied(b, l) == buckets[b].tag = l.ctag

CopyStore(p) ==
  LET l    == me[p]
      b    == <<l.ht, l.i>>
      hold == Split(b, l.cs)
      last == l.i + 1 = (l.blk + 1) * BlockSize[l.ht]
  IN  /\ l.pc = "copysc"
      /\ \/ /\ ~AsCopied(b, l)
            /\ Goto(p, l, "copyll")
            /\ UNCHANGED buckets
         \/ /\ AsCopied(b, l)
            /\ buckets' = [x \in DOMAIN buckets \cup Kids(b) |->
                 IF x = b THEN [tag |-> l.ctag + 2, s |-> Forwarded]
                 ELSE IF x \in Kids(b) THEN [tag |-> 0, s |-> hold[x]]
                 ELSE buckets[x]]
            /\ Goto(p, [l EXCEPT !.i = @ + 1], IF last THEN "blockdone" ELSE "copyll")
      /\ UNCHANGED <<made, current, status, finished, content, calls, spoilt>>

BlockDone(p) ==
  LET l == me[p]
  IN  /\ l.pc = "blockdone"
      /\ status' = [status EXCEPT ![<<l.ht, l.blk>>] = "Done"]
      /\ Goto(p, l, "count")
      /\ UNCHANGED <<made, current, buckets, finished, content, calls, spoilt>>

CountBlock(p) ==
  LET l == me[p]
  IN  /\ l.pc = "count"
      /\ finished' = [finished EXCEPT ![l.ht + 1] = @ + 1]
      /\ Goto(p, l, IF finished'[l.ht + 1] = NumBlocks(l.ht) THEN "publish" ELSE "check")
      /\ UNCHANGED <<made, current, buckets, status, content, calls, spoilt>>

Publish(p) ==
  LET l == me[p]
  IN  /\ l.pc = "publish"
      /\ current' = l.ht + 1
      /\ Goto(p, [l EXCEPT !.cs = EmptyState], "check")
      /\ UNCHANGED <<made, buckets, status, finished, content, calls, spoilt>>

(* check_bucket_and_state: follow the mark, one version at a time.         *)
CheckBucket(p) ==
  LET l == me[p]
      b == Home(l.t + 1, l.key)
  IN  /\ l.pc = "check"
      /\ IF l.s.fwd
         THEN Goto(p, [l EXCEPT !.b = b, !.s = buckets[b].s, !.tag = buckets[b].tag,
                                !.t = l.t + 1], "check")
         ELSE Goto(p, [l EXCEPT !.cs = EmptyState, !.ctag = 0, !.i = 0, !.blk = 0], l.op)
      /\ UNCHANGED shared

-------------------------------------------------------------------------------
Unchanged(l) == buckets[l.b].tag = l.tag

(* sc of the state s in the place of the one read; on success the key has  *)
(* the content c and the call returns r, else the operation starts again.  *)
StoreConditional(p, s, c, r) ==
  LET l == me[p]
  IN  \/ /\ ~Unchanged(l)
         /\ Goto(p, l, "ll")
         /\ UNCHANGED shared
      \/ /\ Unchanged(l)
         /\ buckets' = [buckets EXCEPT ![l.b] = [tag |-> l.tag + 2, s |-> s]]
         /\ content' = [content EXCEPT ![l.key] = c]
         /\ spoilt' = s.fwd
         /\ me' = [q \in Procs |->
                     IF q = p THEN [Idle EXCEPT !.ok = (r = content[l.key])]
                     ELSE IF me[q].ever[l.key] = {} THEN me[q]
                     ELSE [me[q] EXCEPT !.ever[l.key] = @ \cup {c}]]
         /\ UNCHANGED <<made, current, status, finished, calls>>

(* Find: the buffer needs no protection; an overfull bucket's list is read *)
(* if the state has not changed, else the search starts again at b.        *)
FindKey(p) ==
  LET l == me[p]
      i == InBuffer(l.s.buf, l.key)
  IN  /\ l.pc = "find"
      /\ IF i # 0 THEN Answer(p, l.s.buf[i].val)
         ELSE IF ~Overfull(l.s) THEN Answer(p, None)
         ELSE Goto(p, l, "list")
      /\ UNCHANGED shared

FindInList(p) ==
  LET l == me[p]
      i == InList(l.s.list, l.key)
  IN  /\ l.pc = "list"
      /\ IF Unchanged(l) THEN Answer(p, IF i = 0 THEN None ELSE l.s.list[i].val)
         ELSE Goto(p, [l EXCEPT !.t = l.ht], "rec")
      /\ UNCHANGED shared

FindInBucketRec(p) ==
  LET l == me[p]
      s == buckets[l.b].s
      i == InBuffer(Entries(s), l.key)
  IN  /\ l.pc = "rec"
      /\ IF s.fwd
         THEN Goto(p, [l EXCEPT !.b = Home(l.t + 1, l.key), !.t = l.t + 1], "rec")
         ELSE Answer(p, IF i = 0 THEN None ELSE Entries(s)[i].val)
      /\ UNCHANGED shared

(* A bucket that is too long makes the operation grow the table before it  *)
(* goes on: expand_table, unless the lock, which other buckets and tables  *)
(* share, is taken. find_in_list counts nothing when it finds the key.     *)
TooLong(l) ==
  /\ Overfull(l.s)
  /\ InList(l.s.list, l.key) = 0
  /\ Len(l.s.list) + BufferSize > OverflowSize

MayExpand(p) ==
  LET l == me[p]
  IN  \/ UNCHANGED made
      \/ /\ made = current /\ made = l.ht
         /\ made < MaxVersions
         /\ made' = made + 1

Expand(p) ==
  LET l == me[p]
  IN  /\ l.pc \in {"insert", "upsert"}
      /\ InBuffer(l.s.buf, l.key) = 0
      /\ TooLong(l)
      /\ MayExpand(p)
      /\ Goto(p, l, l.op \o "sc")
      /\ UNCHANGED <<current, buckets, status, finished, content, calls, spoilt>>

InsertKey(p) ==
  LET l == me[p]
      i == InBuffer(Entries(l.s), l.key)
  IN  /\ \/ l.pc = "insert" /\ (TooLong(l) => InBuffer(l.s.buf, l.key) # 0)
         \/ l.pc = "insertsc"
      /\ IF i # 0 THEN Answer(p, Entries(l.s)[i].val) /\ UNCHANGED shared
         ELSE StoreConditional(p, Add(l.s, Entry(l.key, 0)), 0, None)

(* Upsert: an absent key gets 0, a present one its value turned. The state *)
(* stored for a key in the buffer is made of out_s, the copy taken before  *)
(* check_bucket_and_state: the mark if that read the mark.                 *)
UpsertKey(p) ==
  LET l   == me[p]
      i   == InBuffer(l.s.buf, l.key)
      j   == InList(l.s.list, l.key)
      new == Entry(l.key, 1 - Entries(l.s)[IF i # 0 THEN i ELSE BufferSize + j].val)
  IN  /\ \/ l.pc = "upsert" /\ (TooLong(l) => i # 0)
         \/ l.pc = "upsertsc"
      /\ IF i # 0
         THEN StoreConditional(p, IF l.out THEN Forwarded
                                  ELSE Bucket(ReplaceAt(l.s.buf, i, new), l.s.list),
                               new.val, l.s.buf[i].val)
         ELSE IF j # 0
         THEN StoreConditional(p, UpdateList(l.s, j, new), new.val, l.s.list[j].val)
         ELSE StoreConditional(p, Add(l.s, Entry(l.key, 0)), 0, None)

RemoveKey(p) ==
  LET l == me[p]
      i == InBuffer(l.s.buf, l.key)
      j == InList(l.s.list, l.key)
  IN  /\ l.pc = "remove"
      /\ IF i # 0 /\ Overfull(l.s)
         THEN StoreConditional(p, DropFromFull(l.s, i), None, l.s.buf[i].val)
         ELSE IF i # 0
         THEN StoreConditional(p, DropFromBuffer(l.s, i), None, l.s.buf[i].val)
         ELSE IF j # 0
         THEN StoreConditional(p, DropFromList(l.s, j), None, l.s.list[j].val)
         ELSE Answer(p, None) /\ UNCHANGED shared

(* for_each: the buckets of the version in any order, one load each; those *)
(* of a forwarded one in its place.                                        *)
Gather(p) ==
  LET l == me[p]
  IN  /\ l.pc = "gather"
      /\ IF l.pending = {} THEN Finish(p, Gathered(l))
         ELSE \E b \in l.pending :
                LET s == buckets[b].s
                IN  IF s.fwd
                    THEN Goto(p, [l EXCEPT !.pending = (@ \ {b}) \cup Kids(b)], "gather")
                    ELSE Goto(p, [l EXCEPT !.pending = @ \ {b},
                                           !.got = @ \cup ToSet(Entries(s))], "gather")
      /\ UNCHANGED shared

Step(p) ==
  \/ \E op \in Ops, k \in Keys : Call(p, op, k)
  \/ CallForEach(p)
  \/ LoadLinked(p) \/ CopyIfNeeded(p) \/ CopyLoad(p) \/ CopyStore(p)
  \/ BlockDone(p) \/ CountBlock(p) \/ Publish(p) \/ CheckBucket(p)
  \/ FindKey(p) \/ FindInList(p) \/ FindInBucketRec(p)
  \/ Expand(p) \/ InsertKey(p) \/ UpsertKey(p) \/ RemoveKey(p) \/ Gather(p)

Next == ~spoilt /\ \E p \in Procs : Step(p)
Spec == Init /\ [][Next]_vars

-------------------------------------------------------------------------------
(* What a lookup that nothing disturbs reads. *)
Lookup(v, k) ==
  LET s(w) == buckets[Home(w, k)].s
      here == s(CHOOSE w \in v .. MaxVersions : ~s(w).fwd /\ \A u \in v .. w - 1 : s(u).fwd)
      i    == InBuffer(Entries(here), k)
  IN  IF i = 0 THEN None ELSE Entries(here)[i].val

(* While the table grows under its users, every call answers as if it had  *)
(* taken effect at once at some time between its start and its end, a      *)
(* traversal reports what was there throughout, and the table holds        *)
(* what the calls put there (parlay_hash.h: copy_bucket against sc).       *)
Linearizable ==
  /\ \A p \in Procs : me[p].ok
  /\ ~spoilt => \A k \in Keys : Lookup(current, k) = content[k]

(* An update of a key leaves the table usable. *)
UpdatesKeepTheTable == ~spoilt
=============================================================================

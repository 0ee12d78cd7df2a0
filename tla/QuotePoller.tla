------------------------------ MODULE QuotePoller ------------------------------
(***************************************************************************)
(* queryPrices (FHAPI.cpp): it asks for the quote of each symbol in turn   *)
(* and enqueues what it has parsed, with one stream buffer and one Json    *)
(* value for all requests.  Nothing of the program calls it.  One action   *)
(* is one iteration of the inner loop: the function shares nothing with    *)
(* another thread but the queue.                                           *)
(***************************************************************************)
EXTENDS Integers, Sequences, FiniteSets

CONSTANTS
  Symbols,    \* the symbols to ask for, in order
  NoData,     \* a null Json::Value
  MaxQueries  \* bound: iterations of the inner loop

(* What a request can write to the stream: a quote, a part of one, an      *)
(* answer that is no JSON, and JSON that is not an object.                 *)
Kinds  == {"whole", "part", "text", "scalar"}
Names  == {Symbols[j] : j \in 1 .. Len(Symbols)}
Pieces == [of : Names, kind : Kinds]

VARIABLES
  at,         \* symbols[i] is next
  ss,         \* the stream: the pieces written since it was last emptied
  data,       \* completeJsonData, without "sym"
  quotes,     \* enqueued
  alive,      \* no exception has left the function
  queries, failures  \* iterations so far, and those that went wrong (history)

vars == <<at, ss, data, quotes, alive, queries, failures>>

Init ==
  /\ at = 1 /\ ss = << >> /\ data = NoData /\ quotes = << >>
  /\ alive = TRUE /\ queries = 0 /\ failures = 0

(* i++, and after the last symbol the sleep and the next round.            *)
Step ==
  /\ alive /\ queries < MaxQueries /\ queries' = queries + 1
  /\ at' = (at % Len(Symbols)) + 1

(* ss << request throws a curlpp exception, after some of the answer.      *)
RequestFails ==
  /\ Step
  /\ \/ ss' = ss
     \/ \E kind \in {"whole", "part"} : ss' = Append(ss, [of |-> Symbols[at], kind |-> kind])
  /\ failures' = failures + 1
  /\ UNCHANGED <<data, quotes, alive>>

(* Fault: the answers stay in the stream.                                  *)
Swapped_Kept(content) == content
Swapped(content) == << >>

(* reader.parse: the first piece decides.  A part leaves behind what could *)
(* be read of it; of what is no JSON nothing is read.                      *)
Parsed(content) ==
  CASE content[1].kind = "text" -> {data}
    [] content[1].kind = "part" -> {data, content[1]}
    [] OTHER -> {content[1]}

(* The request succeeds; parse, empty the stream, tag, and enqueue.  The   *)
(* tag of a value that is no object throws a Json exception.               *)
RequestDone ==
  /\ Step
  /\ \E kind \in Kinds \ {"part"} :
       LET content == Append(ss, [of |-> Symbols[at], kind |-> kind])
       IN  /\ ss' = Swapped(content)
           /\ data' \in Parsed(content)
           /\ failures' = IF kind = "whole" THEN failures ELSE failures + 1
  /\ alive' = (data' = NoData \/ data'.kind # "scalar")
  /\ quotes' = IF alive' THEN Append(quotes, [sym |-> Symbols[at], data |-> data']) ELSE quotes

Next == RequestFails \/ RequestDone

Spec == Init /\ [][Next]_vars

-----------------------------------------------------------------------------
Wrong(k) == quotes[k].data # [of |-> quotes[k].sym, kind |-> "whole"]

(* Each failed request or useless answer spoils one quote at most: the     *)
(* stream is empty and the value overwritten before the next.              *)
FailuresAreContained == Cardinality({k \in 1 .. Len(quotes) : Wrong(k)}) <= failures
=============================================================================

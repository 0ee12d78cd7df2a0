------------------------------ MODULE WSSession ------------------------------
(***************************************************************************)
(* The session with the trade server: the thread that runs                 *)
(* WSSession::connect, and its io_thread, which polls the websocketpp      *)
(* client and so runs the handlers on_open and on_message.  websocketpp    *)
(* itself is external; it appears as the state of the connection.          *)
(***************************************************************************)
EXTENDS Naturals

CONSTANTS
  Subscriptions,  \* one subscribe request per symbol of the configuration
  MaxTrades       \* bound: trades the server sends

ASSUME SessionConstantsOK == MaxTrades \in Nat

VARIABLES
  stop,           \* stop requested on the token of stopSource
  terminated,     \* std::terminate was called
  cvWaiting,      \* a thread is blocked on the condition variable cv
  wsPc,           \* thread running connect()
  ioPc, ioStop,   \* io_thread, and the stop request of its own jthread
  clientStopped,  \* c.stop() was called
  conn,           \* state of the websocketpp connection
  toSend, sent,   \* on_open: requests still to send; requests sent
  opened,         \* on_open has run to its end (history)
  data, enqueued  \* on_message: trades of the message left; trades enqueued

connVars == <<clientStopped, conn>>
ioVars   == <<ioPc, toSend, sent, opened, data, enqueued>>
sessionVars == <<cvWaiting, wsPc, ioStop, connVars, ioVars>>

SessionTypeOK ==
  /\ stop \in BOOLEAN /\ terminated \in BOOLEAN /\ cvWaiting \in BOOLEAN
  /\ wsPc \in {"none", "configure", "connect", "watch", "close", "stopClient", "join", "done"}
  /\ ioPc \in {"none", "poll", "subscribe", "enqueue", "done"}
  /\ ioStop \in BOOLEAN /\ clientStopped \in BOOLEAN /\ opened \in BOOLEAN
  /\ conn \in {"none", "connecting", "open", "closing", "closed"}
  /\ toSend \subseteq Subscriptions /\ sent \subseteq Subscriptions
  /\ data \in Nat /\ enqueued \in Nat /\ data + enqueued <= MaxTrades

SessionInit ==
  /\ stop = FALSE /\ terminated = FALSE /\ cvWaiting = FALSE
  /\ wsPc = "none" /\ ioPc = "none" /\ ioStop = FALSE
  /\ clientStopped = FALSE /\ conn = "none"
  /\ toSend = {} /\ sent = {} /\ opened = FALSE
  /\ data = 0 /\ enqueued = 0

-----------------------------------------------------------------------------
(* The thread of connect()                                                 *)
WsGoes(from, to) == ~terminated /\ wsPc = from /\ wsPc' = to
                    /\ UNCHANGED <<stop, cvWaiting>>

(* The constructor reads the configuration file; its exceptions leave the  *)
(* thread's function.                                                      *)
Configure ==
  \/ WsGoes("configure", "connect") /\ UNCHANGED <<terminated, ioStop, connVars, ioVars>>
  \/ /\ WsGoes("configure", "done") /\ terminated' = TRUE
     /\ UNCHANGED <<ioStop, connVars, ioVars>>

ConnectError == WsGoes("connect", "done") /\ UNCHANGED <<terminated, ioStop, connVars, ioVars>>

Connect ==
  /\ WsGoes("connect", "watch")
  /\ conn' = "connecting" /\ ioPc' = "poll"
  /\ UNCHANGED <<terminated, ioStop, clientStopped, toSend, sent, opened, data, enqueued>>

(* Fault: the stop request is polled for on an open connection only.       *)
SeeStop_WhileOpen == stop /\ conn = "open" /\ WsGoes("watch", "close")
                     /\ UNCHANGED <<terminated, ioStop, connVars, ioVars>>
SeeStop == stop /\ WsGoes("watch", "close")
           /\ UNCHANGED <<terminated, ioStop, connVars, ioVars>>

(* c.close: an error, and no effect, unless the connection is open         *)
Close ==
  /\ WsGoes("close", "stopClient")
  /\ conn' = IF conn = "open" THEN "closing" ELSE conn
  /\ UNCHANGED <<terminated, ioStop, clientStopped, ioVars>>

(* Fault: nobody requests io_thread's own token to stop.                   *)
StopClient_NotIo ==
  /\ WsGoes("stopClient", "join") /\ clientStopped' = TRUE
  /\ UNCHANGED <<terminated, ioStop, conn, ioVars>>

StopClient ==
  /\ WsGoes("stopClient", "join")
  /\ clientStopped' = TRUE /\ ioStop' = TRUE
  /\ UNCHANGED <<terminated, conn, ioVars>>

(* The destructor of io_thread, then the end of the session object         *)
JoinIo == ioPc = "done" /\ WsGoes("join", "done")
          /\ UNCHANGED <<terminated, ioStop, connVars, ioVars>>

WsThread == Configure \/ ConnectError \/ Connect \/ SeeStop \/ Close \/ StopClient \/ JoinIo

-----------------------------------------------------------------------------
(* io_thread.  A stopped client's poll() runs no handler.                  *)
IoOnly == ~terminated /\ UNCHANGED <<stop, terminated, wsPc, ioStop>>
Polling == ioPc = "poll" /\ ~clientStopped

ConnectionEnds ==
  /\ Polling /\ conn \in {"connecting", "open", "closing"}
  /\ conn' = "closed"
  /\ IoOnly /\ UNCHANGED <<cvWaiting, clientStopped, ioVars>>

OnOpen ==
  /\ Polling /\ conn = "connecting" /\ conn' = "open"
  /\ ioPc' = "subscribe" /\ toSend' = Subscriptions
  /\ IoOnly /\ UNCHANGED <<cvWaiting, clientStopped, sent, opened, data, enqueued>>

(* c.send: an error, only logged, unless the connection is open            *)
Subscribe(s) ==
  /\ ioPc = "subscribe" /\ s \in toSend
  /\ toSend' = toSend \ {s}
  /\ sent' = IF conn = "open" THEN sent \cup {s} ELSE sent
  /\ IoOnly /\ UNCHANGED <<cvWaiting, connVars, ioPc, opened, data, enqueued>>

(* Fault: main is notified with requests unsent.                           *)
AllSent_NotAwaited == TRUE
AllSent == toSend = {}

(* cv.notify_one(): lost when no thread waits                              *)
Notify ==
  /\ ioPc = "subscribe" /\ AllSent
  /\ cvWaiting' = FALSE /\ opened' = TRUE /\ ioPc' = "poll"
  /\ IoOnly /\ UNCHANGED <<connVars, toSend, sent, data, enqueued>>

(* on_message: n trades; a ping or an unparsable message carries none      *)
OnMessage(n) ==
  /\ Polling /\ conn = "open" /\ n + enqueued <= MaxTrades
  /\ data' = n /\ ioPc' = "enqueue"
  /\ IoOnly /\ UNCHANGED <<cvWaiting, connVars, toSend, sent, opened, enqueued>>

(* Fault: the loop enqueues one trade again and again.                     *)
Enqueue_Again ==
  /\ ioPc = "enqueue"
  /\ \/ data > 0 /\ enqueued' = enqueued + 1 /\ UNCHANGED <<data, ioPc>>
     \/ data = 0 /\ ioPc' = "poll" /\ UNCHANGED <<data, enqueued>>
  /\ IoOnly /\ UNCHANGED <<cvWaiting, connVars, toSend, sent, opened>>

Enqueue ==
  /\ ioPc = "enqueue"
  /\ \/ data > 0 /\ data' = data - 1 /\ enqueued' = enqueued + 1 /\ UNCHANGED ioPc
     \/ data = 0 /\ ioPc' = "poll" /\ UNCHANGED <<data, enqueued>>
  /\ IoOnly /\ UNCHANGED <<cvWaiting, connVars, toSend, sent, opened>>

IoExit ==
  /\ ioPc = "poll" /\ ioStop /\ ioPc' = "done"
  /\ IoOnly /\ UNCHANGED <<cvWaiting, connVars, toSend, sent, opened, data, enqueued>>

(* The steps io_thread takes by itself, and those the network decides on.  *)
IoThread == (\E s \in Subscriptions : Subscribe(s)) \/ Notify \/ Enqueue \/ IoExit
Network  == ConnectionEnds \/ OnOpen \/ \E n \in 0 .. MaxTrades : OnMessage(n)
=============================================================================

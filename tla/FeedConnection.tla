--------------------------- MODULE FeedConnection ---------------------------
(***************************************************************************)
(* The connection of the market data feed (net/websocket_client.cpp).      *)
(* Three threads meet in it: ws_thread runs WebSocketClient::run and       *)
(* blocks in IxWebSocket::run until `done`; ixwebsocket's own thread runs  *)
(* the open and close callbacks; the main thread subscribes to markets     *)
(* that rotation adopts and, in the end, calls stop() and joins ws_thread. *)
(***************************************************************************)
EXTENDS Integers, FiniteSets

CONSTANTS
    Tickers,        \* markets that may be subscribed to
    Base,           \* reconnect_delay_
    Cap,            \* kMaxReconnectDelay
    MaxReconnects,  \* bound: max_reconnects_, -1 in production
    StopRaces       \* stop() may come while run() is not waiting or sleeping

ASSUME DelaysAssumption == Base \in Nat /\ Cap \in Nat /\ MaxReconnects \in Nat
ASSUME StopAssumption   == StopRaces \in BOOLEAN

VARIABLES
    rpc,        \* where run() is: see RunSteps
    running,    \* running_
    done,       \* IxWebSocket's done, under run_mtx
    attempts,   \* reconnect_attempts
    failures,   \* consecutive_connect_failures_
    delay,      \* what run() sleeps before the next attempt
    sock,       \* ixwebsocket: "off", "opening", "open" or "lost"
    cb,         \* the callback ixwebsocket's thread has to run, or "none"
    connected,  \* connected_, under subscribe_mtx_
    subs,       \* subscribed_tickers_, under subscribe_mtx_
    sent,       \* subscribe commands sent on this connection, per ticker
    mpc         \* the main thread: "trading", "stop", "stopping" or "join"

run == <<rpc, running, attempts, failures, delay>>
sub == <<connected, subs, sent>>
connVars == <<run, done, sock, cb, sub, mpc>>

RunSteps == {"begin", "loop", "connect", "arm", "start", "wait", "check", "sleep", "end"}

-----------------------------------------------------------------------------
(* reconnect_backoff: the base delay, doubled per further failure, capped. *)

LesserOf(x, y) == IF x < y THEN x ELSE y

Doubled(d) == IF 2 * d >= Cap THEN Cap ELSE 2 * d

MaxDoublings == 30

Delay[n \in 0..MaxDoublings] ==
    IF n = 0 THEN LesserOf(Base, Cap) ELSE Doubled(Delay[n - 1])

ReconnectBackoff(n) == Delay[LesserOf(n - 1, MaxDoublings)]

-----------------------------------------------------------------------------
(* ws_thread: WebSocketClient::run and, inside it, IxWebSocket::connect    *)
(* and run.                                                                *)

RunBegin ==
    /\ rpc = "begin"
    /\ running' = TRUE
    /\ rpc' = "loop"
    /\ UNCHANGED <<attempts, failures, delay, done, sock, cb, sub, mpc>>

RunLoop ==
    /\ rpc = "loop"
    /\ rpc' = IF running THEN "connect" ELSE "end"
    /\ UNCHANGED <<running, attempts, failures, delay, done, sock, cb, sub, mpc>>

(* ws_->connect: ix::WebSocket::stop() closes what is left and waits for   *)
(* the callback of it, then the new URL and headers are set.  A transport  *)
(* that throws counts as a failed attempt.                                 *)
RunConnect ==
    /\ rpc = "connect" /\ cb = "none"
    /\ LET live == sock \in {"opening", "open"}
       IN /\ sock' = IF live THEN "lost" ELSE "off"
          /\ cb' = IF live THEN "close" ELSE "none"
          /\ rpc' \in IF live THEN {"connect"} ELSE {"arm", "check"}
    /\ UNCHANGED <<running, attempts, failures, delay, done, sub, mpc>>

RunArm ==
    /\ rpc = "arm"
    /\ done' = FALSE
    /\ rpc' = "start"
    /\ UNCHANGED <<running, attempts, failures, delay, sock, cb, sub, mpc>>

RunStart ==
    /\ rpc = "start"
    /\ sock' = "opening"
    /\ rpc' = "wait"
    /\ UNCHANGED <<running, attempts, failures, delay, done, cb, sub, mpc>>

RunWait ==
    /\ rpc = "wait"
    /\ done
    /\ rpc' = "check"
    /\ UNCHANGED <<running, attempts, failures, delay, done, sock, cb, sub, mpc>>

(* After a connection: leave, give up, or count a failure and sleep.       *)
RunCheck ==
    /\ rpc = "check"
    /\ IF ~running \/ attempts >= MaxReconnects
         THEN /\ rpc' = "end" /\ running' = FALSE
              /\ UNCHANGED <<attempts, failures, delay>>
         ELSE /\ rpc' = "sleep"
              /\ attempts' = attempts + 1
              /\ failures' = failures + 1
              /\ delay' = ReconnectBackoff(failures')
              /\ UNCHANGED running
    /\ UNCHANGED <<done, sock, cb, sub, mpc>>

RunSleep ==
    /\ rpc = "sleep"
    /\ rpc' = "loop"
    /\ UNCHANGED <<running, attempts, failures, delay, done, sock, cb, sub, mpc>>

-----------------------------------------------------------------------------
(* ixwebsocket's thread (external): the handshake succeeds or fails, and   *)
(* an open connection may be lost at any time.                             *)

SockOpens ==
    /\ sock = "opening"
    /\ sock' = "open" /\ cb' = "open"
    /\ sent' = [t \in Tickers |-> 0]
    /\ UNCHANGED <<run, done, connected, subs, mpc>>

SockFails ==
    /\ sock \in {"opening", "open"} /\ cb = "none"
    /\ sock' = "lost" /\ cb' = "close"
    /\ UNCHANGED <<run, done, sub, mpc>>

Send(t, count) == [count EXCEPT ![t] = @ + 1]

(* The open callback: WebSocketClient::handle_connect.                     *)
HandleConnect ==
    /\ cb = "open"
    /\ cb' = "none"
    /\ failures' = 0
    /\ connected' = TRUE
    /\ sent' = [t \in Tickers |-> IF t \in subs THEN sent[t] + 1 ELSE sent[t]]
    /\ UNCHANGED <<rpc, running, attempts, delay, done, sock, subs, mpc>>

(* The close and error callbacks: on_disconnect, then done and notify.     *)
HandleClose ==
    /\ cb = "close"
    /\ cb' = "none"
    /\ connected' = FALSE
    /\ done' = TRUE
    /\ UNCHANGED <<run, sock, subs, sent, mpc>>

-----------------------------------------------------------------------------
(* The main thread.                                                        *)

(* Mutant: the new ticker is sent on any open socket.                      *)
MutSubscribe(t) ==
    /\ mpc = "trading"
    /\ t \notin subs
    /\ subs' = subs \cup {t}
    /\ sent' = IF sock = "open" THEN Send(t, sent) ELSE sent
    /\ UNCHANGED <<run, done, sock, cb, connected, mpc>>

(* subscribe: nothing for a known ticker; sent at once if connected.       *)
Subscribe(t) ==
    /\ mpc = "trading"
    /\ t \notin subs
    /\ subs' = subs \cup {t}
    /\ sent' = IF connected /\ sock = "open" THEN Send(t, sent) ELSE sent
    /\ UNCHANGED <<run, done, sock, cb, connected, mpc>>

(* Mutant: stop() closes the socket and leaves running_ as it is.          *)
MutStop ==
    /\ mpc = "trading"
    /\ StopRaces \/ rpc \in {"wait", "sleep"}
    /\ mpc' = "stop"
    /\ UNCHANGED <<run, done, sock, cb, sub>>

(* stop: running_ = false, then ws_->stop(), then the join of ws_thread.   *)
Stop ==
    /\ mpc = "trading"
    /\ StopRaces \/ rpc \in {"wait", "sleep"}
    /\ running' = FALSE
    /\ mpc' = "stop"
    /\ UNCHANGED <<rpc, attempts, failures, delay, done, sock, cb, sub>>

(* ix::WebSocket::stop(): a callback under way ends first, then the        *)
(* connection is closed and its callback waited for.                       *)
StopSocket ==
    /\ mpc = "stop" /\ cb = "none"
    /\ sock' = IF sock = "off" THEN "off" ELSE "lost"
    /\ cb' = IF sock \in {"opening", "open"} THEN "close" ELSE cb
    /\ mpc' = "stopping"
    /\ UNCHANGED <<run, done, sub>>

StopDone ==
    /\ mpc = "stopping" /\ cb = "none"
    /\ done' = TRUE
    /\ mpc' = "join"
    /\ UNCHANGED <<run, sock, cb, sub>>

ConnInit ==
    /\ rpc = "begin" /\ running = FALSE /\ done = FALSE
    /\ attempts = 0 /\ failures = 0 /\ delay = 0
    /\ sock = "off" /\ cb = "none"
    /\ connected = FALSE /\ subs \in SUBSET Tickers
    /\ sent = [t \in Tickers |-> 0]
    /\ mpc = "trading"

WsThread == \/ RunBegin \/ RunLoop \/ RunConnect \/ RunArm \/ RunStart
            \/ RunWait \/ RunCheck \/ RunSleep
IxThread == SockOpens \/ SockFails \/ HandleConnect \/ HandleClose
MainThread == Stop \/ StopSocket \/ StopDone \/ \E t \in Tickers : Subscribe(t)

ConnNext == WsThread \/ IxThread \/ MainThread

ConnSpec == ConnInit /\ [][ConnNext]_connVars

(* Every thread that can run does; stop() itself need never be called, and *)
(* the network need not open or lose a connection.                         *)
ConnFairSpec ==
    /\ ConnSpec
    /\ WF_connVars(WsThread)
    /\ WF_connVars(HandleConnect \/ HandleClose)
    /\ WF_connVars(StopSocket) /\ WF_connVars(StopDone)

-----------------------------------------------------------------------------
(* Properties.                                                             *)

(* The state of the three threads keeps its type: run() never counts more  *)
(* attempts than it may make, nor more failures in a row than attempts.    *)
TypeOK ==
    /\ rpc \in RunSteps
    /\ running \in BOOLEAN /\ done \in BOOLEAN /\ connected \in BOOLEAN
    /\ attempts \in 0..MaxReconnects /\ failures \in 0..attempts
    /\ sock \in {"off", "opening", "open", "lost"}
    /\ cb \in {"none", "open", "close"}
    /\ subs \subseteq Tickers /\ sent \in [Tickers -> Nat]
    /\ mpc \in {"trading", "stop", "stopping", "join"}

(* On an established connection every subscribed ticker was sent exactly   *)
(* once, however subscribe() races the open and close callbacks.           *)
SubscribedOnce ==
    (sock = "open" /\ connected) =>
        \A t \in Tickers : sent[t] = IF t \in subs THEN 1 ELSE 0

(* stop() ends run(): the join in the shutdown guard returns.              *)
StopEndsRun == (mpc = "join") ~> (rpc = "end")
=============================================================================

----------------------------- MODULE Dashboard -----------------------------
(***************************************************************************)
(* The monitoring dashboard of panel/dashboard.go.  Start runs two         *)
(* collector goroutines, collectData and collectLogs, which on every       *)
(* refresh push a message to all clients with sendToAll.  Each websocket   *)
(* client is an apiHandler call: it adds a writer goroutine to the wait    *)
(* group, queues the initial message, registers itself in db.conns under   *)
(* the lock and reads until the connection fails.  Stop closes the         *)
(* listener, hands an error channel to each collector over db.quit,        *)
(* closes the registered connections and waits on the wait group.         *)
(*                                                                         *)
(* Steps taken under db.lock are atomic.  A chart entry is the name of the *)
(* chart whose sample it is; "empty" is an entry of emptyChartEntries.     *)
(***************************************************************************)
EXTENDS Naturals, Sequences, FiniteSets

CONSTANTS
    Clients,      \* websocket connections the listener may accept
    MsgCap,       \* capacity of client.msg (128)
    SampleLimit,  \* the *SampleLimit constants (200)
    MaxTicks      \* bound on refreshes per collector

Collectors == {"collectData", "collectLogs"}
Charts == {"ActiveMemory", "VirtualMemory", "NetworkIngress", "NetworkEgress",
           "ProcessCPU", "SystemCPU", "DiskRead", "DiskWrite"}

VARIABLES
    listener,       \* db.listener: none before Start, open, failed
                    \* (net.Listen erred) or closed by Stop
    spc,            \* where Stop is
    quits,          \* errc handed over on db.quit so far
    cpc,            \* collector goroutine: "loop" or "exit"
    ticks,          \* refreshes each collector has done
    charts,         \* db.charts
    conns,          \* the ids in db.conns
    rpc,            \* apiHandler (the reading goroutine) of each client
    wpc,            \* the writer goroutine of each client
    msgq,           \* messages queued in client.msg
    doneClosed,     \* close(done) has run
    connClosed,     \* client.conn.Close() has run
    peerGone,       \* the remote end has gone away
    wg              \* the counter of db.wg

vars == <<listener, spc, quits, cpc, ticks, charts, conns, rpc, wpc, msgq,
          doneClosed, connClosed, peerGone, wg>>

\* emptyChartEntries: limit entries with no value (their times are left out).
emptyChartEntries(limit) == [i \in 1..limit |-> "empty"]

\* New: empty charts; nothing runs before Start.
Init ==
    /\ listener = "none"
    /\ spc = "idle"
    /\ quits = 0
    /\ cpc = [x \in Collectors |-> "idle"]
    /\ ticks = [x \in Collectors |-> 0]
    /\ charts = [k \in Charts |-> emptyChartEntries(SampleLimit)]
    /\ conns = {}
    /\ rpc = [c \in Clients |-> "absent"]
    /\ wpc = [c \in Clients |-> "none"]
    /\ msgq = [c \in Clients |-> 0]
    /\ doneClosed = [c \in Clients |-> FALSE]
    /\ connClosed = [c \in Clients |-> FALSE]
    /\ peerGone = [c \in Clients |-> FALSE]
    /\ wg = 0

(* Start: db.wg.Add(2) and both collectors run before net.Listen; when    *)
(* the listen fails Start returns its error with the collectors running,  *)
(* else it serves the listener.  The node calls Start once and calls Stop *)
(* only on a service whose Start succeeded.                               *)
Start ==
    /\ listener = "none"
    /\ wg' = 2
    /\ cpc' = [x \in Collectors |-> "loop"]
    /\ listener' \in {"open", "failed"}
    /\ UNCHANGED <<spc, quits, ticks, charts, conns, rpc, wpc, msgq, doneClosed,
                   connClosed, peerGone>>

-----------------------------------------------------------------------------
(* sendToAll: under the lock, a non-blocking send to every registered      *)
(* client; a client whose buffer is full has its connection closed.        *)

SendToAll(q, cc) ==
    /\ msgq' = [c \in Clients |-> IF c \in conns /\ q[c] < MsgCap THEN q[c] + 1 ELSE q[c]]
    /\ connClosed' = [c \in Clients |-> cc[c] \/ (c \in conns /\ q[c] >= MsgCap)]

\* append(db.charts.X[1:], x) for every chart; DiskWrite is built from the
\* DiskRead chart just updated (dashboard.go line 335).
NextCharts(ch) ==
    LET shifted == [k \in Charts |-> Append(Tail(ch[k]), k)]
    IN [shifted EXCEPT !["DiskWrite"] = Append(Tail(shifted["DiskRead"]), "DiskWrite")]

(* collectData's or collectLogs' `case <-time.After(...)`: collectData     *)
(* appends a sample to every chart and both send a message to all.         *)
Tick(x) ==
    /\ cpc[x] = "loop"
    /\ ticks[x] < MaxTicks
    /\ ticks' = [ticks EXCEPT ![x] = @ + 1]
    /\ charts' = IF x = "collectData" THEN NextCharts(charts) ELSE charts
    /\ SendToAll(msgq, connClosed)
    /\ UNCHANGED <<listener, spc, quits, cpc, conns, rpc, wpc, doneClosed, peerGone, wg>>

(* `case errc := <-db.quit`: meet Stop, answer nil on errc and return      *)
(* (wg.Done).  Stop moves on after the second answer.                      *)
Quit(x) ==
    /\ cpc[x] = "loop"
    /\ spc = "quit"
    /\ cpc' = [cpc EXCEPT ![x] = "exit"]
    /\ wg' = wg - 1
    /\ quits' = quits + 1
    /\ spc' = IF quits + 1 = 2 THEN "close" ELSE "quit"
    /\ UNCHANGED <<listener, ticks, charts, conns, rpc, wpc, msgq, doneClosed,
                   connClosed, peerGone>>

-----------------------------------------------------------------------------
\* The listener accepts a connection and the server calls apiHandler.
Accept(c) ==
    /\ listener = "open"
    /\ rpc[c] = "absent"
    /\ rpc' = [rpc EXCEPT ![c] = "spawn"]
    /\ UNCHANGED <<listener, spc, quits, cpc, ticks, charts, conns, wpc, msgq,
                   doneClosed, connClosed, peerGone, wg>>

\* db.wg.Add(1) and `go func()`: the writer starts.
Spawn(c) ==
    /\ rpc[c] = "spawn"
    /\ rpc' = [rpc EXCEPT ![c] = "greet"]
    /\ wpc' = [wpc EXCEPT ![c] = "loop"]
    /\ wg' = wg + 1
    /\ UNCHANGED <<listener, spc, quits, cpc, ticks, charts, conns, msgq,
                   doneClosed, connClosed, peerGone>>

\* client.msg <- the general and home message (blocks on a full buffer).
Greet(c) ==
    /\ rpc[c] = "greet"
    /\ msgq[c] < MsgCap
    /\ msgq' = [msgq EXCEPT ![c] = @ + 1]
    /\ rpc' = [rpc EXCEPT ![c] = "register"]
    /\ UNCHANGED <<listener, spc, quits, cpc, ticks, charts, conns, wpc,
                   doneClosed, connClosed, peerGone, wg>>

\* db.conns[id] = client, under the lock.
Register(c) ==
    /\ rpc[c] = "register"
    /\ conns' = conns \cup {c}
    /\ rpc' = [rpc EXCEPT ![c] = "read"]
    /\ UNCHANGED <<listener, spc, quits, cpc, ticks, charts, wpc, msgq,
                   doneClosed, connClosed, peerGone, wg>>

\* The read loop ends without close(done).
ReadFailNoDone(c) ==
    /\ rpc[c] = "read"
    /\ connClosed[c] \/ peerGone[c]
    /\ rpc' = [rpc EXCEPT ![c] = "unregister"]
    /\ UNCHANGED <<listener, spc, quits, cpc, ticks, charts, conns, wpc, msgq,
                   doneClosed, connClosed, peerGone, wg>>

\* conn.Read fails once the connection is closed or the peer is gone: close(done).
ReadFail(c) ==
    /\ rpc[c] = "read"
    /\ connClosed[c] \/ peerGone[c]
    /\ doneClosed' = [doneClosed EXCEPT ![c] = TRUE]
    /\ rpc' = [rpc EXCEPT ![c] = "unregister"]
    /\ UNCHANGED <<listener, spc, quits, cpc, ticks, charts, conns, wpc, msgq,
                   connClosed, peerGone, wg>>

\* The deferred delete(db.conns, id), under the lock.
Unregister(c) ==
    /\ rpc[c] = "unregister"
    /\ conns' = conns \ {c}
    /\ rpc' = [rpc EXCEPT ![c] = "exit"]
    /\ UNCHANGED <<listener, spc, quits, cpc, ticks, charts, wpc, msgq,
                   doneClosed, connClosed, peerGone, wg>>

\* Writer: `case <-done: return` (wg.Done).
WriterDone(c) ==
    /\ wpc[c] = "loop"
    /\ doneClosed[c]
    /\ wpc' = [wpc EXCEPT ![c] = "exit"]
    /\ wg' = wg - 1
    /\ UNCHANGED <<listener, spc, quits, cpc, ticks, charts, conns, rpc, msgq,
                   doneClosed, connClosed, peerGone>>

\* The failed send closes the connection but returns past the deferred wg.Done.
WriterSendNoDone(c) ==
    /\ wpc[c] = "loop"
    /\ msgq[c] > 0
    /\ msgq' = [msgq EXCEPT ![c] = @ - 1]
    /\ \/ /\ ~connClosed[c]
          /\ UNCHANGED <<wpc, connClosed, wg>>
       \/ /\ connClosed[c] \/ peerGone[c]
          /\ connClosed' = [connClosed EXCEPT ![c] = TRUE]
          /\ wpc' = [wpc EXCEPT ![c] = "exit"]
          /\ UNCHANGED wg
    /\ UNCHANGED <<listener, spc, quits, cpc, ticks, charts, conns, rpc,
                   doneClosed, peerGone>>

(* Writer: `case msg := <-client.msg`: websocket.JSON.Send.  It fails on a *)
(* closed connection, may fail once the peer is gone, and on failure the   *)
(* writer closes the connection and returns.                               *)
WriterSend(c) ==
    /\ wpc[c] = "loop"
    /\ msgq[c] > 0
    /\ msgq' = [msgq EXCEPT ![c] = @ - 1]
    /\ \/ /\ ~connClosed[c]
          /\ UNCHANGED <<wpc, connClosed, wg>>
       \/ /\ connClosed[c] \/ peerGone[c]
          /\ connClosed' = [connClosed EXCEPT ![c] = TRUE]
          /\ wpc' = [wpc EXCEPT ![c] = "exit"]
          /\ wg' = wg - 1
    /\ UNCHANGED <<listener, spc, quits, cpc, ticks, charts, conns, rpc,
                   doneClosed, peerGone>>

\* The browser closes its end.
PeerLeave(c) ==
    /\ rpc[c] # "absent"
    /\ ~peerGone[c]
    /\ peerGone' = [peerGone EXCEPT ![c] = TRUE]
    /\ UNCHANGED <<listener, spc, quits, cpc, ticks, charts, conns, rpc, wpc, msgq,
                   doneClosed, connClosed, wg>>

-----------------------------------------------------------------------------
\* Stop: db.listener.Close(), then the quit handshakes.
StopCall ==
    /\ spc = "idle"
    /\ listener = "open"
    /\ listener' = "closed"
    /\ spc' = "quit"
    /\ UNCHANGED <<quits, cpc, ticks, charts, conns, rpc, wpc, msgq, doneClosed,
                   connClosed, peerGone, wg>>

\* Stop: close every registered connection, under the lock.
StopClose ==
    /\ spc = "close"
    /\ connClosed' = [c \in Clients |-> connClosed[c] \/ c \in conns]
    /\ spc' = "wait"
    /\ UNCHANGED <<listener, quits, cpc, ticks, charts, conns, rpc, wpc, msgq,
                   doneClosed, peerGone, wg>>

\* Stop: db.wg.Wait() returns once the counter is zero.
StopWait ==
    /\ spc = "wait"
    /\ wg = 0
    /\ spc' = "stopped"
    /\ UNCHANGED <<listener, quits, cpc, ticks, charts, conns, rpc, wpc, msgq,
                   doneClosed, connClosed, peerGone, wg>>

Client(c) ==
    \/ Spawn(c) \/ Greet(c) \/ Register(c) \/ ReadFail(c) \/ Unregister(c)
    \/ WriterDone(c) \/ WriterSend(c)

Next ==
    \/ \E x \in Collectors : Tick(x) \/ Quit(x)
    \/ \E c \in Clients : Accept(c) \/ Client(c) \/ PeerLeave(c)
    \/ Start \/ StopCall \/ StopClose \/ StopWait

(* Every goroutine that can run eventually does: the collectors, Stop      *)
(* and each client's reader and writer.  Connections, the browsers and the *)
(* caller of Stop are the environment and are never forced.                *)
Fairness ==
    /\ \A x \in Collectors : WF_vars(Quit(x))
    /\ \A c \in Clients : WF_vars(Client(c))
    /\ WF_vars(StopClose) /\ WF_vars(StopWait)

Spec == Init /\ [][Next]_vars /\ Fairness

-----------------------------------------------------------------------------
(* A client whose connection gets closed, by Stop, by sendToAll on a full  *)
(* buffer or by its own writer, eventually has both goroutines of          *)
(* apiHandler gone and is no longer in db.conns.                           *)
ClientsLeaveWhenClosed ==
    \A c \in Clients :
        connClosed[c] ~> (rpc[c] = "exit" /\ wpc[c] = "exit" /\ c \notin conns)

(* Stop returns: once called it eventually gets past db.wg.Wait().         *)
StopEnds ==
    spc = "quit" ~> spc = "stopped"

(* db.wg counts exactly the goroutines Stop must wait for: the collectors  *)
(* still in their loop and the writers of apiHandler still running.  Each  *)
(* way out of a collector or a writer (quit, close(done), a failed send)   *)
(* must call wg.Done once, or Stop's wg.Wait hangs or the counter goes     *)
(* negative.                                                               *)
WaitGroupCountsGoroutines ==
    wg = Cardinality({x \in Collectors : cpc[x] = "loop"})
         + Cardinality({c \in Clients : wpc[c] = "loop"})
=============================================================================

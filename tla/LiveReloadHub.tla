--------------------------- MODULE LiveReloadHub ---------------------------
(***************************************************************************)
(* The live reload hub of `huan dev` (internal/dev/livereload.go). Each    *)
(* browser connection has a reader (HandleConn itself), a writer goroutine *)
(* and a buffered channel between the broadcaster and the writer. One      *)
(* goroutine broadcasts: the callback of the rebuild queue. A broadcast    *)
(* copies the channels under the lock and sends outside of it.             *)
(***************************************************************************)
EXTENDS Naturals, Sequences

CONSTANTS
    Clients,       \* browser connections
    BufferSize,    \* perClientSendBufferSize
    MaxReloads,    \* bound: successful rebuilds in a behaviour
    MaxAlerts      \* bound: failed rebuilds in a behaviour

ASSUME LiveReloadAssumption ==
    /\ BufferSize \in Nat \ {0}
    /\ MaxReloads \in Nat /\ MaxAlerts \in Nat

VARIABLES
    clients,       \* h.clients
    send,          \* "reload" and "alert" in the channel of each connection
    closed,        \* connections whose channel is closed
    reader,        \* HandleConn: off, reading, waiting, removing or gone
    writer,        \* the writer goroutine: off, hello, loop or done
    conn,          \* connections that are up
    todo,          \* channels the running broadcast has yet to send to
    message,       \* what it sends
    panicked,      \* a send on a closed channel ended the process
    built,         \* number of reloads broadcast
    page,          \* the build each browser shows (history)
    alerts

vars == <<clients, send, closed, reader, writer, conn, todo, message,
          panicked, built, page, alerts>>

hub == <<todo, message, panicked, built, alerts>>

Init ==
    /\ clients = {} /\ closed = {} /\ conn = {} /\ todo = {}
    /\ send = [c \in Clients |-> <<>>]
    /\ reader = [c \in Clients |-> "off"]
    /\ writer = [c \in Clients |-> "off"]
    /\ message = "reload" /\ panicked = FALSE
    /\ built = 0 /\ alerts = 0
    /\ page = [c \in Clients |-> 0]

-----------------------------------------------------------------------------
(* The connection. *)

(* HandleConn registers the channel and starts the writer. *)
HandleConn(c) ==
    /\ reader[c] = "off"
    /\ clients' = clients \cup {c}
    /\ conn' = conn \cup {c}
    /\ reader' = [reader EXCEPT ![c] = "reading"]
    /\ writer' = [writer EXCEPT ![c] = "hello"]
    /\ page' = [page EXCEPT ![c] = built]
    /\ UNCHANGED <<send, closed, hub>>

(* The browser leaves, or its network does. *)
Disconnect(c) ==
    /\ c \in conn
    /\ conn' = conn \ {c}
    /\ UNCHANGED <<clients, send, closed, reader, writer, page, hub>>

(* The read loop ends: close(send). *)
ReadFails(c) ==
    /\ reader[c] = "reading" /\ c \notin conn
    /\ closed' = closed \cup {c}
    /\ reader' = [reader EXCEPT ![c] = "waiting"]
    /\ UNCHANGED <<clients, send, writer, conn, page, hub>>

(* <-writerDone *)
WriterJoined(c) ==
    /\ reader[c] = "waiting" /\ writer[c] = "done"
    /\ reader' = [reader EXCEPT ![c] = "removing"]
    /\ UNCHANGED <<clients, send, closed, writer, conn, page, hub>>

(* The deferred remove; closeSafe finds the channel closed. *)
Remove(c) ==
    /\ reader[c] = "removing"
    /\ clients' = clients \ {c}
    /\ reader' = [reader EXCEPT ![c] = "gone"]
    /\ UNCHANGED <<send, closed, writer, conn, page, hub>>

Reader(c) == ReadFails(c) \/ WriterJoined(c) \/ Remove(c)

-----------------------------------------------------------------------------
(* The writer. *)

(* A write that fails, or takes longer than writeTimeout, drops the        *)
(* connection and ends the writer.                                         *)
WriteFails(c) ==
    /\ writer[c] = "hello" \/ (writer[c] = "loop" /\ send[c] # <<>>)
    /\ conn' = conn \ {c}
    /\ writer' = [writer EXCEPT ![c] = "done"]
    /\ UNCHANGED <<clients, send, closed, reader, page, hub>>

WriteHello(c) ==
    /\ writer[c] = "hello" /\ c \in conn
    /\ writer' = [writer EXCEPT ![c] = "loop"]
    /\ UNCHANGED <<clients, send, closed, reader, conn, page, hub>>

(* Variant for the checks: the writer leaves what it takes unwritten. *)
WriteSkipping(c) ==
    /\ writer[c] = "loop" /\ send[c] # <<>> /\ c \in conn
    /\ send' = [send EXCEPT ![c] = <<>>]
    /\ page' = [page EXCEPT ![c] = IF Head(send[c]) = "reload" THEN built ELSE @]
    /\ UNCHANGED <<clients, closed, reader, writer, conn, hub>>

(* The browser reloads the page when a reload reaches it. *)
Write(c) ==
    /\ writer[c] = "loop" /\ send[c] # <<>> /\ c \in conn
    /\ send' = [send EXCEPT ![c] = Tail(@)]
    /\ page' = [page EXCEPT ![c] = IF Head(send[c]) = "reload" THEN built ELSE @]
    /\ UNCHANGED <<clients, closed, reader, writer, conn, hub>>

(* Variant for the checks: closing the channel does not end the writer. *)
WriterEndsWithHello(c) ==
    /\ writer[c] = "hello" /\ c \in closed
    /\ writer' = [writer EXCEPT ![c] = "done"]
    /\ UNCHANGED <<clients, send, closed, reader, conn, page, hub>>

(* The channel is closed and drained. *)
WriterEnds(c) ==
    /\ writer[c] = "loop" /\ send[c] = <<>> /\ c \in closed
    /\ writer' = [writer EXCEPT ![c] = "done"]
    /\ UNCHANGED <<clients, send, closed, reader, conn, page, hub>>

Writer(c) == WriteFails(c) \/ WriteHello(c) \/ Write(c) \/ WriterEnds(c)

-----------------------------------------------------------------------------
(* The broadcaster. *)

BroadcastReload ==
    /\ todo = {} /\ built < MaxReloads
    /\ todo' = clients
    /\ message' = "reload"
    /\ built' = built + 1
    /\ UNCHANGED <<clients, send, closed, reader, writer, conn, page, panicked, alerts>>

BroadcastAlert ==
    /\ todo = {} /\ alerts < MaxAlerts
    /\ todo' = clients
    /\ message' = "alert"
    /\ alerts' = alerts + 1
    /\ UNCHANGED <<clients, send, closed, reader, writer, conn, page, panicked, built>>

(* Variant for the checks: the broadcaster waits for room. *)
SendBlocking(c) ==
    /\ c \in todo
    /\ c \in closed \/ Len(send[c]) < BufferSize
    /\ todo' = todo \ {c}
    /\ panicked' = (c \in closed)
    /\ send' = [send EXCEPT ![c] = IF c \in closed THEN @ ELSE Append(@, message)]
    /\ UNCHANGED <<clients, closed, reader, writer, conn, page, message, built, alerts>>

(* A full channel drops the message; a closed one panics. *)
Send(c) ==
    /\ c \in todo
    /\ todo' = todo \ {c}
    /\ panicked' = (c \in closed)
    /\ send' = [send EXCEPT ![c] =
                   IF c \in closed \/ Len(@) = BufferSize THEN @ ELSE Append(@, message)]
    /\ UNCHANGED <<clients, closed, reader, writer, conn, page, message, built, alerts>>

Next ==
    /\ ~panicked
    /\ \/ \E c \in Clients : \/ HandleConn(c) \/ Disconnect(c)
                             \/ Reader(c) \/ Writer(c) \/ Send(c)
       \/ BroadcastReload \/ BroadcastAlert

Spec == Init /\ [][Next]_vars

(* The reader of a connection and the broadcaster run. A write may never   *)
(* return: a property that needs it to says so.                            *)
FairSpec ==
    /\ Spec
    /\ \A c \in Clients : WF_vars(~panicked /\ Reader(c)) /\ WF_vars(~panicked /\ Send(c))

(* A write takes at most writeTimeout. *)
WritesReturn == \A c \in Clients : WF_vars(~panicked /\ Writer(c))

-----------------------------------------------------------------------------
(* Properties. *)

(* "Broadcasts are fan-out to per-client send channels, so slow clients    *)
(* don't block other clients or the broadcaster": a broadcast ends even if *)
(* no write ever does.                                                     *)
BroadcastEnds == todo # {} ~> todo = {} \/ panicked

(* When writes return, a browser behind the last build reloads, or its     *)
(* connection drops, even when its channel was full: an unread reload is   *)
(* in it as long as fewer alerts than BufferSize were sent.                *)
PagesCatchUp ==
    WritesReturn =>
        \A c \in Clients : page[c] < built /\ c \in clients /\ c \in conn
                               ~> page[c] = built \/ c \notin conn \/ panicked

(* A connection that drops leaves the hub, whatever its writer was doing   *)
(* when it did.                                                            *)
LeaversForgotten ==
    WritesReturn =>
        \A c \in Clients : c \in clients \ conn ~> c \notin clients \/ panicked
=============================================================================

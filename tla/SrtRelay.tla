------------------------------- MODULE SrtRelay -------------------------------
(***************************************************************************)
(* One SRT connection of ingestd-srt.  The srt thread (srt.rs listen)      *)
(* accepts it and moves its packets into the shared Mutex<Packets>         *)
(* (shared.rs) in process_socket.  On the smol thread, gpac::listen takes   *)
(* the new connection from new_connections, looks the stream up in the     *)
(* database and spawns handle_gpac.  That task starts gpac, runs           *)
(* handle_gpac_sender, which pipes the packets into gpac's socket, and     *)
(* supervises the child through its pidfd and the kill timers.  The two   *)
(* threads meet in two mutexes and two AtomicWakers.  Each action is one  *)
(* critical section or one poll, so every interleaving of the two threads *)
(* is explored.                                                            *)
(***************************************************************************)
EXTENDS Integers, Sequences

CONSTANTS
    PacketMax,      \* bound on the packets the peer sends
    BacklogMax,     \* 1024: the cap process_socket puts on Packets.packets
    DbFaults        \* may the streams query of gpac::listen fail?

ASSUME SrtConstantsAssumption ==
    /\ PacketMax \in Nat
    /\ BacklogMax \in Nat \ {0}
    /\ DbFaults \in BOOLEAN

VARIABLES
    peer,           \* the SRT client: still streaming, or closed
    sent,           \* packets the client has sent so far (1 .. sent)
    conn,           \* the srt thread's `connections` entry for the socket
    sock_closed,    \* srt_close has been called on the socket
    recvd,          \* packets process_socket has taken from the socket
    packets,        \* Packets.packets: received, not yet taken by the sender
    closed,         \* Packets.closed
    new_conn,       \* the connection waits in new_connections
    lpc,            \* where gpac::listen is
    lwaker,         \* the listener's gpac_waker holds its waker
    lnotified,      \* the listener was woken in the middle of a poll
    spc,            \* where handle_gpac_sender is
    gwaker,         \* connection.gpac_waker holds the sender's waker
    snotified,      \* the sender was woken in the middle of a poll
    batch,          \* the sender's local `packets` vector
    delivered,      \* history: packets written into gpac's socket
    gproc,          \* the gpac child process
    hpc,            \* where handle_gpac is
    kill            \* the last signal kill_gpac sent

peerVars == <<peer, sent>>
srtVars == <<conn, sock_closed, recvd>>
sharedVars == <<packets, closed, new_conn>>
listenVars == <<lpc, lwaker, lnotified>>
senderVars == <<spc, gwaker, snotified, batch, delivered>>
gpacVars == <<gproc, hpc, kill>>
vars == <<peerVars, srtVars, sharedVars, listenVars, senderVars, gpacVars>>

SenderStates == {"Idle", "Poll", "Check", "Parked", "Sending",
                 "Ok", "Err", "Cancelled"}

MinOf(a, b) == IF a < b THEN a ELSE b

Init ==
    /\ peer = "Streaming"
    /\ sent = 0
    /\ conn = "Listening"
    /\ sock_closed = FALSE
    /\ recvd = 0
    /\ packets = <<>>
    /\ closed = FALSE
    /\ new_conn = FALSE
    /\ lpc = "Poll"
    /\ lwaker = FALSE
    /\ lnotified = FALSE
    /\ spc = "Idle"
    /\ gwaker = FALSE
    /\ snotified = FALSE
    /\ batch = <<>>
    /\ delivered = <<>>
    /\ gproc = "None"
    /\ hpc = "None"
    /\ kill = "None"

-----------------------------------------------------------------------------
(* The client: sends packets and, perhaps, closes.                         *)
PeerSend ==
    /\ peer = "Streaming"
    /\ sent < PacketMax
    /\ sent' = sent + 1
    /\ UNCHANGED <<peer, srtVars, sharedVars, listenVars, senderVars, gpacVars>>

PeerClose ==
    /\ peer = "Streaming"
    /\ peer' = "Closed"
    /\ UNCHANGED <<sent, srtVars, sharedVars, listenVars, senderVars, gpacVars>>

(* The gpac child exits: on its own, on EOF or on a signal.                *)
GpacExit ==
    /\ gproc = "Running"
    /\ gproc' = "Exited"
    /\ UNCHANGED <<peerVars, srtVars, sharedVars, listenVars, senderVars,
                   hpc, kill>>

-----------------------------------------------------------------------------
(* Mutant: the waker is taken but its task is not scheduled again.        *)
WokenNever(pc) == pc

(* AtomicWaker::wake on a waker: it takes the stored waker and wakes its   *)
(* task.  A parked task is polled again.  A task in the middle of its poll *)
(* is polled once more after that poll returns.                            *)
Woken(pc) == IF pc = "Parked" THEN "Poll" ELSE pc

WakeSender ==
    IF gwaker
    THEN /\ gwaker' = FALSE
         /\ spc' = Woken(spc)
         /\ snotified' = (snotified \/ spc = "Check")
    ELSE UNCHANGED <<gwaker, spc, snotified>>

WakeListener ==
    IF lwaker
    THEN /\ lwaker' = FALSE
         /\ lpc' = Woken(lpc)
         /\ lnotified' = (lnotified \/ lpc = "Check")
    ELSE UNCHANGED <<lwaker, lpc, lnotified>>

-----------------------------------------------------------------------------
(* The srt thread.  srt_accept on the listener: the socket joins the epoll *)
(* set and `connections`, goes into new_connections, and gpac::listen is   *)
(* woken.                                                                  *)
Accept ==
    /\ conn = "Listening"
    /\ conn' = "Open"
    /\ new_conn' = TRUE
    /\ WakeListener
    /\ UNCHANGED <<peerVars, sock_closed, recvd, packets, closed, senderVars,
                   gpacVars>>

(* srt_epoll_wait reports the socket: data is waiting or the peer is gone. *)
Readable ==
    /\ conn = "Open"
    /\ recvd < sent \/ peer = "Closed"

(* Mutant: remove_connection leaves Packets.closed unset.                  *)
RemoveConnectionKeepOpen ==
    /\ conn' = "Removed"
    /\ closed' = closed
    /\ WakeSender

(* remove_connection: out of epoll and `connections`, closed, sender woken. *)
RemoveConnection ==
    /\ conn' = "Removed"
    /\ closed' = TRUE
    /\ WakeSender

(* srt_getsockstate says SRTS_BROKEN: the connection is removed at once,    *)
(* whatever the socket still buffers, and srt_close is never called.        *)
RemoveBroken ==
    /\ Readable
    /\ peer = "Closed"
    /\ RemoveConnection
    /\ UNCHANGED <<peerVars, sock_closed, recvd, packets, new_conn,
                   listenVars, batch, delivered, gpacVars>>

(* process_socket's loop runs 1024 - packets.len() times.                  *)
Room == BacklogMax - Len(packets)

(* Mutant: the count of the loop's iterations is taken as the count of   *)
(* packets received, EASYNCRCV ones included.                             *)
ReceivedIterations == Room

(* srt_recvmsg2 yields one buffered packet per iteration until the room   *)
(* or the socket's buffer runs out.                                        *)
Received == MinOf(Room, sent - recvd)

(* Mutant: a successful process_socket does not wake the sender.           *)
ProcessedNoWake == UNCHANGED <<gwaker, spc, snotified>>

(* process_socket returned true: connection.gpac_waker.wake().             *)
ProcessedWake == WakeSender

(* process_socket under the Packets lock, then the caller's reaction.  An  *)
(* already closed connection returns false.  Otherwise srt_recvmsg2 moves   *)
(* up to Room packets, one each; EASYNCRCV (nothing buffered) continues,    *)
(* and the error of a closed peer returns false.  On true the sender is     *)
(* woken.  On false the connection is removed and srt_close'd.              *)
ProcessSocket ==
    /\ Readable
    /\ IF closed
       THEN /\ RemoveConnection
            /\ sock_closed' = TRUE
            /\ UNCHANGED <<recvd, packets>>
       ELSE LET k == Received IN
            /\ recvd' = recvd + k
            /\ packets' = packets \o [i \in 1 .. k |-> recvd + i]
            /\ IF k < Room /\ peer = "Closed"
               THEN RemoveConnection /\ sock_closed' = TRUE
               ELSE /\ ProcessedWake
                    /\ UNCHANGED <<conn, closed, sock_closed>>
    /\ UNCHANGED <<peerVars, new_conn, listenVars, batch, delivered, gpacVars>>

SrtThread == Accept \/ RemoveBroken \/ ProcessSocket

-----------------------------------------------------------------------------
(* gpac::listen, the poll_fn: register the waker, then take the vector.    *)
ListenRegister ==
    /\ lpc = "Poll"
    /\ lpc' = "Check"
    /\ lwaker' = TRUE
    /\ UNCHANGED <<peerVars, srtVars, sharedVars, lnotified, senderVars, gpacVars>>

ListenTake ==
    /\ lpc = "Check"
    /\ lnotified' = FALSE
    /\ IF new_conn
       THEN /\ new_conn' = FALSE
            /\ lpc' = "Query"
       ELSE /\ lpc' = IF lnotified THEN "Poll" ELSE "Parked"
            /\ UNCHANGED new_conn
    /\ UNCHANGED <<peerVars, srtVars, packets, closed, lwaker, senderVars,
                   gpacVars>>

(* The streams query returns.  A row spawns handle_gpac, which starts gpac *)
(* and the sender task.  An error (no row: the stream was deleted after   *)
(* the last SIGUSR1 refresh of the id bitmap) only marks the connection   *)
(* closed.  The stream-id checks before the query are the ones auth made  *)
(* at the handshake, so an accepted connection passes them.               *)
ListenQueryDone(ok) ==
    /\ lpc = "Query"
    /\ ok \in IF DbFaults THEN BOOLEAN ELSE {TRUE}
    /\ lpc' = "Poll"
    /\ IF ok
       THEN /\ gproc' = "Running"
            /\ hpc' = "Select"
            /\ spc' = "Poll"
            /\ UNCHANGED closed
       ELSE /\ closed' = TRUE
            /\ UNCHANGED <<gproc, hpc, spc>>
    /\ UNCHANGED <<peerVars, srtVars, packets, new_conn, lwaker, lnotified,
                   gwaker, snotified, batch, delivered, kill>>

ListenTask == ListenRegister \/ ListenTake \/ \E ok \in BOOLEAN : ListenQueryDone(ok)

-----------------------------------------------------------------------------
(* handle_gpac_sender, the poll_fn: register the waker, then look at the   *)
(* packets under the lock.                                                 *)
SenderRegister ==
    /\ spc = "Poll"
    /\ spc' = "Check"
    /\ gwaker' = TRUE
    /\ UNCHANGED <<peerVars, srtVars, sharedVars, listenVars, snotified, batch,
                   delivered, gpacVars>>

(* Mutant: the packets are copied out instead of swapped out.              *)
SenderCheckCopy ==
    /\ spc = "Check"
    /\ snotified' = FALSE
    /\ IF packets = <<>> /\ ~closed
       THEN /\ spc' = IF snotified THEN "Poll" ELSE "Parked"
            /\ UNCHANGED <<packets, batch>>
       ELSE /\ spc' = IF closed THEN "Ok" ELSE "Sending"
            /\ batch' = IF closed THEN <<>> ELSE packets
            /\ UNCHANGED packets
    /\ UNCHANGED <<peerVars, srtVars, closed, new_conn, listenVars, gwaker,
                   delivered, gpacVars>>

(* Nothing to do: Pending.  Otherwise the vectors are swapped and Ready(closed). *)
(* On closed the function returns Ok and the swapped-out packets are dropped.    *)
SenderCheck ==
    /\ spc = "Check"
    /\ snotified' = FALSE
    /\ IF packets = <<>> /\ ~closed
       THEN /\ spc' = IF snotified THEN "Poll" ELSE "Parked"
            /\ UNCHANGED <<packets, batch>>
       ELSE /\ spc' = IF closed THEN "Ok" ELSE "Sending"
            /\ batch' = IF closed THEN <<>> ELSE packets
            /\ packets' = batch
    /\ UNCHANGED <<peerVars, srtVars, closed, new_conn, listenVars, gwaker,
                   delivered, gpacVars>>

(* write_all of the next packet.  After the last one the loop polls again. *)
(* Once gpac has exited the write fails with EPIPE and `?` returns Err.    *)
SenderWrite ==
    /\ spc = "Sending"
    /\ IF gproc = "Running"
       THEN /\ delivered' = Append(delivered, Head(batch))
            /\ batch' = Tail(batch)
            /\ spc' = IF Len(batch) = 1 THEN "Poll" ELSE "Sending"
       ELSE /\ spc' = "Err"
            /\ batch' = <<>>
            /\ UNCHANGED delivered
    /\ UNCHANGED <<peerVars, srtVars, sharedVars, listenVars, gwaker, snotified,
                   gpacVars>>

SenderTask == SenderRegister \/ SenderCheck \/ SenderWrite

-----------------------------------------------------------------------------
(* handle_gpac's outer select!: the sender task ends first.  The connection *)
(* is marked closed and kill_gpac races pidfd_wait.                         *)
SenderFinished ==
    /\ hpc = "Select"
    /\ spc \in {"Ok", "Err"}
    /\ hpc' = "Killing"
    /\ closed' = TRUE
    /\ UNCHANGED <<peerVars, srtVars, packets, new_conn, listenVars, senderVars,
                   gproc, kill>>

(* ... or pidfd_wait fires first: closed, and the sender task is dropped.  *)
PidfdFired ==
    /\ hpc = "Select"
    /\ gproc = "Exited"
    /\ hpc' = "Offline"
    /\ closed' = TRUE
    /\ spc' = IF spc \in {"Ok", "Err"} THEN spc ELSE "Cancelled"
    /\ batch' = <<>>
    /\ UNCHANGED <<peerVars, srtVars, packets, new_conn, listenVars, gwaker,
                   snotified, delivered, gproc, kill>>

(* kill_gpac: after 5 s SIGTERM, after 10 s more SIGKILL, then wait.       *)
KillTimer ==
    /\ hpc = "Killing"
    /\ \/ kill = "None" /\ kill' = "Term" /\ UNCHANGED hpc
       \/ kill = "Term" /\ kill' = "Kill" /\ hpc' = "Reap"
    /\ UNCHANGED <<peerVars, srtVars, sharedVars, listenVars, senderVars, gproc>>

(* Mutant: after kill_gpac the task goes on without awaiting pidfd_wait.  *)
ReapedNoWait ==
    /\ hpc \in {"Killing", "Reap"}
    /\ hpc' = "Offline"
    /\ UNCHANGED <<peerVars, srtVars, sharedVars, listenVars, senderVars,
                   gproc, kill>>

(* pidfd_wait resolves inside the inner select! or after kill_gpac.        *)
Reaped ==
    /\ hpc \in {"Killing", "Reap"}
    /\ gproc = "Exited"
    /\ hpc' = "Offline"
    /\ UNCHANGED <<peerVars, srtVars, sharedVars, listenVars, senderVars,
                   gproc, kill>>

(* notify_task.await, notify_offline, and the task returns.                *)
GoOffline ==
    /\ hpc = "Offline"
    /\ hpc' = "Finished"
    /\ UNCHANGED <<peerVars, srtVars, sharedVars, listenVars, senderVars,
                   gproc, kill>>

Supervisor == SenderFinished \/ PidfdFired \/ KillTimer \/ Reaped \/ GoOffline

-----------------------------------------------------------------------------
Next ==
    \/ PeerSend \/ PeerClose \/ GpacExit
    \/ SrtThread
    \/ ListenTask
    \/ SenderTask
    \/ Supervisor

(* The srt thread handles every event epoll reports, and smol polls every  *)
(* woken task.  A SIGKILLed gpac exits.  The client is never obliged to     *)
(* send or to close, and gpac may run for as long as it is not killed.      *)
Fairness ==
    /\ WF_vars(SrtThread)
    /\ WF_vars(ListenTask)
    /\ WF_vars(SenderTask)
    /\ WF_vars(Supervisor)
    /\ WF_vars(kill = "Kill" /\ GpacExit)

Spec == Init /\ [][Next]_vars /\ Fairness

-----------------------------------------------------------------------------
(* Every variable has the type the code gives it.                          *)
TypeOK ==
    /\ peer \in {"Streaming", "Closed"}
    /\ sent \in 0 .. PacketMax
    /\ conn \in {"Listening", "Open", "Removed"}
    /\ sock_closed \in BOOLEAN
    /\ recvd \in 0 .. PacketMax
    /\ packets \in Seq(1 .. PacketMax)
    /\ closed \in BOOLEAN
    /\ new_conn \in BOOLEAN
    /\ lpc \in {"Poll", "Check", "Parked", "Query"}
    /\ lwaker \in BOOLEAN
    /\ lnotified \in BOOLEAN
    /\ spc \in SenderStates
    /\ gwaker \in BOOLEAN
    /\ snotified \in BOOLEAN
    /\ batch \in Seq(1 .. PacketMax)
    /\ delivered \in Seq(1 .. PacketMax)
    /\ gproc \in {"None", "Running", "Exited"}
    /\ hpc \in {"None", "Select", "Killing", "Reap", "Offline", "Finished"}
    /\ kill \in {"None", "Term", "Kill"}

(* gpac receives the stream in order, with no packet twice and none        *)
(* skipped.  While the connection is open and its sender runs, every packet *)
(* taken from the socket is either written to gpac, in the sender's hands,  *)
(* or queued, in that order: the swap in handle_gpac_sender and the pushes  *)
(* of process_socket on the other thread never lose or reorder one.         *)
PipelineExact ==
    /\ \A i \in 1 .. Len(delivered) : delivered[i] = i
    /\ ~closed /\ spc \notin {"Err", "Cancelled"} =>
           delivered \o batch \o packets = [i \in 1 .. recvd |-> i]

(* No wakeup is lost: a sender task parked in its poll_fn has nothing      *)
(* waiting for it.  Whenever Packets holds a packet or is marked closed,    *)
(* the sender is running, registered to be polled again, or gone.  This    *)
(* rests on the poll_fn registering its waker before it takes the lock, and *)
(* on the srt thread waking the sender after every push and every removal,  *)
(* the empty push of a full backlog included.                              *)
NoLostWakeup == spc = "Parked" => packets = <<>> /\ ~closed

(* A packet taken from the socket is eventually written to gpac, unless     *)
(* the connection is closed first: the sender's waker is never lost between *)
(* its registration and the srt thread's push (gpac.rs poll_fn, srt.rs      *)
(* wake after process_socket).                                              *)
PacketsForwarded ==
    \A i \in 1 .. PacketMax : recvd >= i ~> (Len(delivered) >= i \/ closed)

(* Nothing of the connection is left once the client has gone: the socket   *)
(* is out of `connections`, the sender task has ended, gpac has exited and  *)
(* handle_gpac has returned.                                                *)
TornDown ==
    /\ conn = "Removed"
    /\ ~new_conn
    /\ lpc # "Query"
    /\ spc \in {"Idle", "Ok", "Err", "Cancelled"}
    /\ gproc # "Running"
    /\ hpc \in {"None", "Finished"}

ConnectionTornDown == peer = "Closed" ~> TornDown

(* The sender task's state as SrtStream sees it: not yet spawned, in its  *)
(* loop, or returned (Ok on closed, Err from write_all, or dropped by     *)
(* handle_gpac's select!).                                                *)
RelayOf(s) ==
    CASE s = "Idle" -> "Waiting"
      [] s \in {"Ok", "Err", "Cancelled"} -> "Stopped"
      [] OTHER -> "Relaying"

Stream == INSTANCE SrtStream
    WITH relay <- RelayOf(spc), gpac <- gproc, offline <- (hpc = "Finished")

(* The connection keeps the promise of SrtStream: every step of the srt    *)
(* thread, gpac::listen, the sender and handle_gpac is a step of the       *)
(* contract or leaves what it sees alone.  gpac gets 1, 2, ... in order,   *)
(* only while it runs and its sender lives, and notify_offline comes only  *)
(* after the sender has returned and pidfd_wait has seen gpac exit.        *)
StreamRefined == Stream!SafeSpec
=============================================================================

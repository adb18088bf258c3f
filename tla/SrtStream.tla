------------------------------- MODULE SrtStream ------------------------------
(***************************************************************************)
(* What one SRT connection of ingestd-srt promises, with the srt thread,   *)
(* the shared packet queue, the wakers and the kill timers hidden: gpac is *)
(* started once for the stream and fed the client's packets in order, each *)
(* once, only while it runs and its sender task lives; the stream is       *)
(* reported offline once, after the sender has stopped and gpac has        *)
(* exited.  SrtRelay implements this module (SrtRelay!StreamRefined).      *)
(***************************************************************************)
EXTENDS Naturals, Sequences

CONSTANTS
    PacketMax       \* bound on the packets the client sends

VARIABLES
    peer,           \* the SRT client: still streaming, or closed
    sent,           \* packets the client has sent so far (1 .. sent)
    delivered,      \* packets written into gpac's socket
    relay,          \* handle_gpac_sender: not yet spawned, running, returned
    gpac,           \* the gpac child process
    offline         \* notify_offline has been called

streamVars == <<peer, sent, delivered, relay, gpac, offline>>

Init ==
    /\ peer = "Streaming"
    /\ sent = 0
    /\ delivered = <<>>
    /\ relay = "Waiting"
    /\ gpac = "None"
    /\ offline = FALSE

(* The client sends the next packet, or closes.                            *)
Send ==
    /\ peer = "Streaming"
    /\ sent < PacketMax
    /\ sent' = sent + 1
    /\ UNCHANGED <<peer, delivered, relay, gpac, offline>>

Close ==
    /\ peer = "Streaming"
    /\ peer' = "Closed"
    /\ UNCHANGED <<sent, delivered, relay, gpac, offline>>

(* gpac::listen found the stream: handle_gpac spawns gpac and the sender.  *)
Start ==
    /\ relay = "Waiting"
    /\ gpac = "None"
    /\ relay' = "Relaying"
    /\ gpac' = "Running"
    /\ UNCHANGED <<peer, sent, delivered, offline>>

(* handle_gpac_sender's write_all: the next packet the client sent.        *)
Forward ==
    /\ relay = "Relaying"
    /\ gpac = "Running"
    /\ Len(delivered) < sent
    /\ delivered' = Append(delivered, Len(delivered) + 1)
    /\ UNCHANGED <<peer, sent, relay, gpac, offline>>

(* The sender task ends: the connection closed, a write failed, or        *)
(* handle_gpac dropped it when gpac exited.                                *)
Stop ==
    /\ relay = "Relaying"
    /\ relay' = "Stopped"
    /\ UNCHANGED <<peer, sent, delivered, gpac, offline>>

(* gpac exits, on its own or on a signal.                                  *)
Exit ==
    /\ gpac = "Running"
    /\ gpac' = "Exited"
    /\ UNCHANGED <<peer, sent, delivered, relay, offline>>

(* handle_gpac's notify_offline, after pidfd_wait has returned.            *)
Offline ==
    /\ relay = "Stopped"
    /\ gpac = "Exited"
    /\ ~offline
    /\ offline' = TRUE
    /\ UNCHANGED <<peer, sent, delivered, relay, gpac>>

Next ==
    \/ Send \/ Close
    \/ Start \/ Forward \/ Stop
    \/ Exit \/ Offline

SafeSpec == Init /\ [][Next]_streamVars
=============================================================================

------------------------- MODULE SrtRefinementProofs -------------------------
(***************************************************************************)
(* Proof that one SRT connection implements its contract SrtStream under  *)
(* the mapping SrtRelay!Stream, for every PacketMax and BacklogMax.        *)
(***************************************************************************)
EXTENDS SrtRelayProofs

(* What the mapping needs beyond IInv: gpac runs from the spawn on, the    *)
(* supervisor goes past its select! only after the sender has returned     *)
(* or been dropped, notify_offline waits for gpac's exit, and the sender   *)
(* never holds more than process_socket has received, even once the        *)
(* connection is closed.                                                   *)
SCoupling ==
    /\ gproc = "None" <=> hpc = "None"
    /\ hpc \in {"Killing", "Reap", "Offline", "Finished"} =>
           spc \in {"Ok", "Err", "Cancelled"}
    /\ hpc \in {"Offline", "Finished"} => gproc = "Exited"
    /\ Len(delivered) + Len(batch) <= recvd

SInv == IInv /\ SCoupling
-----------------------------------------------------------------------------
(* A step that leaves the child, the supervisor, the sender and the        *)
(* received count alone keeps SCoupling.                                   *)
LEMMA CouplingFrame ==
    ASSUME SCoupling, UNCHANGED <<gproc, hpc, delivered, batch, recvd>>,
           spc' = spc \/ (spc = "Parked" /\ spc' = "Poll")
    PROVE  SCoupling'
BY DEF SCoupling

(* AtomicWaker::wake on the sender's waker only turns Parked into Poll.   *)
LEMMA WakeSenderSpc ==
    ASSUME WakeSender
    PROVE  spc' = spc \/ (spc = "Parked" /\ spc' = "Poll")
BY DEF WakeSender, Woken

(* Every step keeps SCoupling.                                             *)
LEMMA CouplingStep == IInv /\ SCoupling /\ [Next]_vars => SCoupling'
<1> SUFFICES ASSUME IInv, SCoupling, [Next]_vars PROVE SCoupling'
    OBVIOUS
<1> USE SrtConstantsAssumption
<1>0. /\ TypeCtl /\ TypeData
      /\ Len(delivered) \in Nat /\ Len(batch) \in Nat /\ Len(packets) \in Nat
    BY TypeSplit DEF IInv, TypeData
<1>1. CASE PeerSend \/ PeerClose \/ Accept \/ RemoveBroken
               \/ ListenRegister \/ ListenTake \/ ListenQueryDone(FALSE)
    <2>1. UNCHANGED <<gproc, hpc, delivered, batch, recvd>>
        BY <1>1 DEF PeerSend, PeerClose, Accept, RemoveBroken, ListenRegister,
                    ListenTake, ListenQueryDone, RemoveConnection, WakeSender,
                    WakeListener, peerVars, srtVars, sharedVars, listenVars,
                    senderVars, gpacVars
    <2>2. spc' = spc \/ (spc = "Parked" /\ spc' = "Poll")
        <3>1. CASE RemoveBroken
            BY <3>1, WakeSenderSpc DEF RemoveBroken, RemoveConnection
        <3>2. CASE ~RemoveBroken
            BY <1>1, <3>2 DEF PeerSend, PeerClose, Accept, ListenRegister,
                              ListenTake, ListenQueryDone, senderVars
        <3>. QED
            BY <3>1, <3>2
    <2>. QED
        BY <2>1, <2>2, CouplingFrame
<1>2. CASE ProcessSocket
    <2>1. UNCHANGED <<gproc, hpc, delivered, batch>>
        BY <1>2 DEF ProcessSocket, senderVars, gpacVars
    <2>3. spc' = spc \/ (spc = "Parked" /\ spc' = "Poll")
        BY <1>2, WakeSenderSpc DEF ProcessSocket, RemoveConnection, ProcessedWake
    <2>2. PICK k \in Nat : recvd' = recvd + k
        <3>1. CASE closed
            <4>1. recvd' = recvd + 0
                BY <1>0, <1>2, <3>1 DEF ProcessSocket, TypeData
            <4>. QED
                BY <4>1
        <3>2. CASE ~closed
            <4>1. recvd' = recvd + Received
                BY <1>2, <3>2 DEF ProcessSocket
            <4>2. Received \in Nat
                BY <1>0 DEF Received, MinOf, Room, IInv, BacklogBounded,
                            Numbered, TypeData
            <4>. QED
                BY <4>1, <4>2
        <3>. QED
            BY <3>1, <3>2
    <2>4. Len(delivered) + Len(batch) <= recvd + k
        BY <1>0, <2>2 DEF SCoupling, TypeData
    <2>. QED
        BY <2>1, <2>2, <2>3, <2>4 DEF SCoupling
<1>3. CASE GpacExit
    BY <1>3 DEF GpacExit, SCoupling, senderVars, srtVars
<1>4. CASE ListenQueryDone(TRUE)
    BY <1>4 DEF ListenQueryDone, SCoupling, srtVars
<1>5. CASE SenderRegister
    BY <1>5 DEF SenderRegister, SCoupling, gpacVars, srtVars
<1>6. CASE SenderCheck
    <2>1. /\ spc = "Check" /\ batch = <<>>
          /\ UNCHANGED <<gproc, hpc, delivered, recvd>>
        BY <1>6 DEF SenderCheck, IInv, BatchShape, srtVars, gpacVars
    <2>2. hpc \notin {"Killing", "Reap", "Offline", "Finished"}
        BY <2>1 DEF SCoupling
    <2>3. Len(delivered') + Len(batch') <= recvd'
        <3>1. CASE packets = <<>> /\ ~closed
            BY <1>6, <2>1, <3>1 DEF SenderCheck, SCoupling
        <3>2. CASE closed
            BY <1>0, <1>6, <2>1, <3>2, EmptySeq DEF SenderCheck, SCoupling
        <3>3. CASE packets # <<>> /\ ~closed
            <4>1. batch' = packets
                BY <1>6, <3>3 DEF SenderCheck
            <4>2. Len(delivered) + Len(packets) = recvd
                BY <1>0, <2>1, <3>3, EmptySeq DEF IInv, Numbered
            <4>. QED
                BY <2>1, <4>1, <4>2
        <3>. QED
            BY <3>1, <3>2, <3>3
    <2>. QED
        BY <2>1, <2>2, <2>3 DEF SCoupling
<1>7. CASE SenderWrite
    <2>1. /\ spc = "Sending" /\ batch # <<>>
          /\ UNCHANGED <<gproc, hpc, recvd>>
        BY <1>7 DEF SenderWrite, IInv, BatchShape, srtVars, gpacVars
    <2>2. hpc \notin {"Killing", "Reap", "Offline", "Finished"}
        BY <2>1 DEF SCoupling
    <2>3. Len(delivered') + Len(batch') <= recvd'
        <3>1. CASE gproc = "Running"
            <4>1. delivered' = Append(delivered, Head(batch))
                  /\ batch' = Tail(batch)
                BY <1>7, <3>1 DEF SenderWrite
            <4>2. Len(delivered') = Len(delivered) + 1
                  /\ Len(batch') = Len(batch) - 1
                BY <1>0, <2>1, <4>1, AppendProperties, HeadTailProperties
                DEF TypeData
            <4>. QED
                BY <1>0, <2>1, <4>2 DEF SCoupling
        <3>2. CASE gproc # "Running"
            <4>1. batch' = <<>> /\ delivered' = delivered
                BY <1>7, <3>2 DEF SenderWrite
            <4>2. Len(batch') = 0 /\ Len(delivered') = Len(delivered)
                BY <4>1, EmptySeq
            <4>3. Len(delivered) + 0 <= recvd
                BY <1>0 DEF SCoupling, TypeData
            <4>. QED
                BY <2>1, <4>2, <4>3, Zenon
        <3>. QED
            BY <3>1, <3>2
    <2>. QED
        BY <2>1, <2>2, <2>3 DEF SCoupling
<1>8. CASE SenderFinished \/ KillTimer \/ GoOffline
    <2>1. UNCHANGED <<gproc, spc, delivered, batch, recvd>>
        BY <1>8 DEF SenderFinished, KillTimer, GoOffline, senderVars, srtVars
    <2>. QED
        BY <1>8, <2>1 DEF SenderFinished, KillTimer, GoOffline, SCoupling
<1>9. CASE PidfdFired
    <2>1. /\ gproc = "Exited" /\ UNCHANGED <<gproc, delivered, recvd>>
          /\ hpc' = "Offline"
          /\ spc' \in {"Ok", "Err", "Cancelled"}
          /\ batch' = <<>>
        BY <1>9 DEF PidfdFired, srtVars
    <2>2. Len(batch') = 0 /\ Len(delivered') = Len(delivered)
        BY <2>1, EmptySeq
    <2>3. Len(delivered) + 0 <= recvd
        BY <1>0 DEF SCoupling, TypeData
    <2>4. Len(delivered') + Len(batch') <= recvd'
        BY <2>1, <2>2, <2>3, Zenon
    <2>. QED
        BY <2>1, <2>4 DEF SCoupling
<1>10. CASE Reaped
    <2>1. /\ gproc = "Exited" /\ hpc \in {"Killing", "Reap"}
          /\ UNCHANGED <<gproc, spc, delivered, batch, recvd>>
          /\ hpc' = "Offline"
        BY <1>10 DEF Reaped, senderVars, srtVars
    <2>. QED
        BY <2>1 DEF SCoupling
<1>. QED
    <2>1. CASE \E ok \in BOOLEAN : ListenQueryDone(ok)
        BY <1>1, <1>4, <2>1
    <2>2. CASE UNCHANGED vars
        BY <2>2, CouplingFrame DEF vars, srtVars, senderVars, gpacVars
    <2>. QED
        BY <1>1, <1>2, <1>3, <1>5, <1>6, <1>7, <1>8, <1>9, <1>10, <2>1, <2>2
        DEF Next, SrtThread, ListenTask, SenderTask, Supervisor
-----------------------------------------------------------------------------
(* SInv holds initially and is kept by every step.                         *)
LEMMA InitSInv == Init => SInv
<1>1. Init => SCoupling
    BY EmptySeq DEF Init, SCoupling
<1>. QED
    BY <1>1, InitIInv DEF SInv

LEMMA NextSInv == SInv /\ [Next]_vars => SInv'
BY NextIInv, CouplingStep DEF SInv

-----------------------------------------------------------------------------
(* The initial state is the contract's: no packet, no sender, no gpac.     *)
LEMMA InitMaps == Init => Stream!Init
BY DEF Init, Stream!Init, RelayOf

(* A step that moves none of what the contract sees is a stutter of it.   *)
LEMMA MapStutter ==
    ASSUME UNCHANGED <<peer, sent, delivered, gproc>>,
           RelayOf(spc') = RelayOf(spc),
           (hpc' = "Finished") = (hpc = "Finished")
    PROVE  [Stream!Next]_Stream!streamVars
BY DEF Stream!streamVars

(* The sender's states inside its loop are all Relaying.                  *)
LEMMA RelayingStates ==
    ASSUME NEW s \in {"Poll", "Check", "Parked", "Sending"}
    PROVE  RelayOf(s) = "Relaying"
BY DEF RelayOf

(* The sender's returned states are all Stopped.                           *)
LEMMA StoppedStates ==
    ASSUME NEW s \in {"Ok", "Err", "Cancelled"}
    PROVE  RelayOf(s) = "Stopped"
BY DEF RelayOf

(* The listener's query returns a row: handle_gpac spawns gpac and the    *)
(* sender, which is Start.                                                *)
LEMMA MapStart ==
    ASSUME SInv, ListenQueryDone(TRUE)
    PROVE  Stream!Start
<1>1. /\ lpc = "Query" /\ spc = "Idle" /\ hpc = "None" /\ gproc = "None"
    BY DEF ListenQueryDone, SInv, IInv, Handoff, SCoupling
<1>2. /\ spc' = "Poll" /\ gproc' = "Running" /\ hpc' = "Select"
      /\ UNCHANGED <<peer, sent, delivered>>
    BY DEF ListenQueryDone, peerVars
<1>3. RelayOf(spc) = "Waiting" /\ RelayOf(spc') = "Relaying"
    BY <1>1, <1>2 DEF RelayOf
<1>. QED
    BY <1>1, <1>2, <1>3 DEF Stream!Start

(* A write_all to a running gpac is Forward: the next packet in order,    *)
(* one the client has sent.                                               *)
LEMMA MapForward ==
    ASSUME SInv, SenderWrite, gproc = "Running"
    PROVE  Stream!Forward
<1>1. /\ spc = "Sending" /\ batch # <<>>
      /\ delivered' = Append(delivered, Head(batch))
      /\ spc' \in {"Poll", "Sending"}
      /\ UNCHANGED <<peer, sent, gproc, hpc>>
    BY DEF SenderWrite, SInv, IInv, BatchShape, peerVars, gpacVars
<1>2. /\ batch \in Seq(1 .. PacketMax) /\ delivered \in Seq(1 .. PacketMax)
      /\ Len(batch) \in Nat \ {0} /\ Head(batch) = batch[1]
      /\ sent \in Nat /\ recvd \in Nat
    BY <1>1, EmptySeq, HeadTailProperties DEF SInv, IInv, TypeOK
<1>3. Head(batch) = Len(delivered) + 1
    BY <1>2 DEF SInv, IInv, Numbered
<1>4. Len(delivered) < sent
    BY <1>2 DEF SInv, IInv, Numbered, SCoupling
<1>5. RelayOf(spc) = "Relaying" /\ RelayOf(spc') = "Relaying"
    BY <1>1, RelayingStates
<1>. QED
    BY <1>1, <1>3, <1>4, <1>5 DEF Stream!Forward
(* A failed write_all, a closed Packets seen by the sender, or pidfd_wait  *)
(* dropping a running sender: the relay stops.                            *)
LEMMA MapStop ==
    ASSUME SInv,
           \/ SenderWrite /\ gproc # "Running"
           \/ SenderCheck /\ closed
           \/ PidfdFired /\ spc \notin {"Ok", "Err", "Cancelled"}
    PROVE  Stream!Stop
<1>1. /\ spc \in {"Poll", "Check", "Parked", "Sending"}
      /\ spc' \in {"Ok", "Err", "Cancelled"}
      /\ UNCHANGED <<peer, sent, delivered, gproc, hpc>> \/ hpc' = "Offline"
      /\ UNCHANGED <<peer, sent, delivered, gproc>>
    BY DEF SenderWrite, SenderCheck, PidfdFired, SInv, IInv, Handoff, TypeOK,
           SenderStates, peerVars, gpacVars, senderVars
<1>2. (hpc' = "Finished") = (hpc = "Finished")
    BY DEF SenderWrite, SenderCheck, PidfdFired, gpacVars
<1>. QED
    BY <1>1, <1>2, RelayingStates, StoppedStates DEF Stream!Stop

(* notify_offline: the sender has stopped and gpac has exited.             *)
LEMMA MapOffline ==
    ASSUME SInv, GoOffline
    PROVE  Stream!Offline
<1>1. /\ spc \in {"Ok", "Err", "Cancelled"} /\ gproc = "Exited"
      /\ hpc = "Offline" /\ hpc' = "Finished"
      /\ UNCHANGED <<peer, sent, delivered, spc, gproc>>
    BY DEF GoOffline, SInv, SCoupling, peerVars, senderVars
<1>. QED
    BY <1>1, StoppedStates DEF Stream!Offline

(* Every other step of the relay is invisible to the contract.             *)
LEMMA MapHidden ==
    ASSUME SInv,
           \/ Accept \/ RemoveBroken \/ ProcessSocket
           \/ ListenRegister \/ ListenTake \/ ListenQueryDone(FALSE)
           \/ SenderRegister \/ (SenderCheck /\ ~closed)
           \/ SenderFinished \/ KillTimer \/ Reaped
           \/ PidfdFired /\ spc \in {"Ok", "Err", "Cancelled"}
    PROVE  [Stream!Next]_Stream!streamVars
<1>1. UNCHANGED <<peer, sent, delivered, gproc>>
    BY DEF Accept, RemoveBroken, ProcessSocket, ListenRegister, ListenTake,
           ListenQueryDone, SenderRegister, SenderCheck, SenderFinished,
           KillTimer, Reaped, PidfdFired, peerVars, senderVars, gpacVars
<1>2. (hpc' # "Finished" /\ hpc # "Finished") \/ hpc' = hpc
    BY DEF Accept, RemoveBroken, ProcessSocket, ListenRegister, ListenTake,
           ListenQueryDone, SenderRegister, SenderCheck, SenderFinished,
           KillTimer, Reaped, PidfdFired, gpacVars
<1>3. RelayOf(spc') = RelayOf(spc)
    <2>1. CASE RemoveBroken \/ ProcessSocket
        <3>1. spc' = spc \/ (spc = "Parked" /\ spc' = "Poll")
            BY <2>1, WakeSenderSpc DEF RemoveBroken, ProcessSocket,
                                       RemoveConnection, ProcessedWake
        <3>. QED
            BY <3>1 DEF RelayOf
    <2>2. CASE SenderRegister \/ (SenderCheck /\ ~closed)
        <3>1. spc \in {"Poll", "Check"}
              /\ spc' \in {"Poll", "Check", "Parked", "Sending"}
            BY <2>2 DEF SenderRegister, SenderCheck
        <3>. QED
            BY <3>1, RelayingStates
    <2>3. CASE ~(RemoveBroken \/ ProcessSocket)
               /\ ~(SenderRegister \/ (SenderCheck /\ ~closed))
        BY <2>3 DEF Accept, ListenRegister, ListenTake, ListenQueryDone,
                    SenderFinished, KillTimer, Reaped, PidfdFired, senderVars
    <2>. QED
        BY <2>1, <2>2, <2>3
<1>. QED
    BY <1>1, <1>2, <1>3, MapStutter

(* Every step of the relay is a step of the contract or a stutter of it.  *)
LEMMA StepMaps ==
    ASSUME SInv, [Next]_vars
    PROVE  [Stream!Next]_Stream!streamVars
<1>1. CASE PeerSend
    BY <1>1 DEF PeerSend, Stream!Next, Stream!Send, senderVars, gpacVars
<1>2. CASE PeerClose
    BY <1>2 DEF PeerClose, Stream!Next, Stream!Close, senderVars, gpacVars
<1>3. CASE GpacExit
    BY <1>3 DEF GpacExit, Stream!Next, Stream!Exit, peerVars, senderVars
<1>4. CASE ListenQueryDone(TRUE)
    BY <1>4, MapStart DEF Stream!Next
<1>5. CASE SenderWrite
    <2>1. CASE gproc = "Running"
        BY <1>5, <2>1, MapForward DEF Stream!Next
    <2>2. CASE gproc # "Running"
        BY <1>5, <2>2, MapStop DEF Stream!Next
    <2>. QED
        BY <2>1, <2>2
<1>6. CASE SenderCheck
    <2>1. CASE closed
        BY <1>6, <2>1, MapStop DEF Stream!Next
    <2>2. CASE ~closed
        BY <1>6, <2>2, MapHidden
    <2>. QED
        BY <2>1, <2>2
<1>7. CASE PidfdFired
    <2>1. CASE spc \in {"Ok", "Err", "Cancelled"}
        BY <1>7, <2>1, MapHidden
    <2>2. CASE spc \notin {"Ok", "Err", "Cancelled"}
        BY <1>7, <2>2, MapStop DEF Stream!Next
    <2>. QED
        BY <2>1, <2>2
<1>8. CASE GoOffline
    BY <1>8, MapOffline DEF Stream!Next
<1>9. CASE Accept \/ RemoveBroken \/ ProcessSocket \/ ListenRegister
           \/ ListenTake \/ ListenQueryDone(FALSE) \/ SenderRegister
           \/ SenderFinished \/ KillTimer \/ Reaped
    BY <1>9, MapHidden
<1>10. CASE UNCHANGED vars
    BY <1>10 DEF vars, peerVars, senderVars, gpacVars, Stream!streamVars
<1>. QED
    BY <1>1, <1>2, <1>3, <1>4, <1>5, <1>6, <1>7, <1>8, <1>9, <1>10
       DEF Next, SrtThread, ListenTask, SenderTask, Supervisor

-----------------------------------------------------------------------------
(* The relay of one connection implements its contract: packets reach     *)
(* gpac in the order the client sent them and only after handle_gpac      *)
(* spawned it, the sender stops before notify_offline, and notify_offline *)
(* is called once, after pidfd_wait saw gpac exit.                        *)
THEOREM StreamRefinement == Spec => StreamRefined
<1>1. Init => SInv /\ Stream!Init
    BY InitSInv, InitMaps
<1>2. SInv /\ [Next]_vars => SInv' /\ [Stream!Next]_Stream!streamVars
    BY NextSInv, StepMaps
<1>. QED
    BY <1>1, <1>2, PTL DEF Spec, StreamRefined, Stream!SafeSpec
====

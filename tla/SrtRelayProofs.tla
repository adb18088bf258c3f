---------------------------- MODULE SrtRelayProofs ----------------------------
(***************************************************************************)
(* Proofs about SrtRelay for every PacketMax and BacklogMax: the type      *)
(* invariant, that gpac is fed the stream in order, and that no wakeup of  *)
(* the sender task is lost.                                                *)
(***************************************************************************)
EXTENDS SrtRelay, SequenceTheorems, TLAPS

(* The sender holds packets only between its swap and its last write.      *)
BatchShape ==
    /\ spc \in {"Idle", "Poll", "Check", "Parked"} => batch = <<>>
    /\ spc = "Sending" => batch # <<>>

(* One connection: it is handed to gpac::listen once, and only then does   *)
(* a sender task exist.                                                    *)
Handoff ==
    /\ conn = "Listening" => ~new_conn /\ lpc # "Query"
    /\ lpc = "Query" => ~new_conn
    /\ new_conn \/ lpc = "Query" \/ conn = "Listening" => spc = "Idle"
    /\ spc = "Idle" <=> hpc = "None"

(* The pipeline, position by position: delivered, then the batch, then the *)
(* queue hold 1, 2, ... in order, and while the connection is open and its *)
(* sender runs they add up to everything received.                         *)
Numbered ==
    /\ recvd <= sent
    /\ \A i \in 1 .. Len(delivered) : delivered[i] = i
    /\ \A i \in 1 .. Len(batch) : batch[i] = Len(delivered) + i
    /\ ~closed /\ spc \notin {"Err", "Cancelled"} =>
           /\ Len(delivered) + Len(batch) + Len(packets) = recvd
           /\ \A i \in 1 .. Len(packets) :
                  packets[i] = Len(delivered) + Len(batch) + i

(* process_socket never lets the backlog in Packets grow past 1024: the    *)
(* loop bound the inductive invariant needs.                               *)
BacklogBounded == Len(packets) <= BacklogMax

IInv == TypeOK /\ BacklogBounded /\ BatchShape /\ Handoff /\ Numbered

-----------------------------------------------------------------------------
(* The run of packet numbers process_socket appends is a sequence.         *)
LEMMA RunIsSeq ==
    ASSUME NEW lo \in Nat, NEW k \in Nat, NEW hi \in Nat, lo + k <= hi
    PROVE  [i \in 1 .. k |-> lo + i] \in Seq(1 .. hi)
BY SeqDef

(* The empty vector, as the provers need it.                              *)
LEMMA EmptyPackets == <<>> \in Seq(1 .. PacketMax) /\ Len(<<>>) = 0
BY EmptySeq

LEMMA InitIInv == Init => IInv
<1> SUFFICES ASSUME Init PROVE IInv
    OBVIOUS
<1>1. TypeOK
    <2>1. sent \in 0 .. PacketMax /\ recvd \in 0 .. PacketMax
        BY SrtConstantsAssumption DEF Init
    <2>2. packets \in Seq(1 .. PacketMax) /\ batch \in Seq(1 .. PacketMax)
          /\ delivered \in Seq(1 .. PacketMax)
        BY EmptyPackets DEF Init
    <2>3. QED
        BY <2>1, <2>2 DEF Init, TypeOK, SenderStates
<1>2. BacklogBounded /\ BatchShape /\ Handoff /\ Numbered
    BY EmptyPackets, SrtConstantsAssumption
    DEF Init, BacklogBounded, BatchShape, Handoff, Numbered
<1>3. QED
    BY <1>1, <1>2 DEF IInv

(* A step that moves neither the packets nor the sender's state keeps the  *)
(* data half of the invariant.                                             *)
LEMMA DataFrame ==
    ASSUME IInv,
           UNCHANGED <<sent, recvd, packets, batch, delivered, closed, spc>>
    PROVE  (BacklogBounded /\ BatchShape /\ Numbered)'
BY DEF IInv, BacklogBounded, BatchShape, Numbered

(* TypeOK in two halves: the control variables, and the counters and     *)
(* vectors.                                                                *)
TypeCtl ==
    /\ peer \in {"Streaming", "Closed"}
    /\ conn \in {"Listening", "Open", "Removed"}
    /\ sock_closed \in BOOLEAN
    /\ closed \in BOOLEAN
    /\ new_conn \in BOOLEAN
    /\ lpc \in {"Poll", "Check", "Parked", "Query"}
    /\ lwaker \in BOOLEAN
    /\ lnotified \in BOOLEAN
    /\ spc \in SenderStates
    /\ gwaker \in BOOLEAN
    /\ snotified \in BOOLEAN
    /\ gproc \in {"None", "Running", "Exited"}
    /\ hpc \in {"None", "Select", "Killing", "Reap", "Offline", "Finished"}
    /\ kill \in {"None", "Term", "Kill"}

TypeData ==
    /\ sent \in 0 .. PacketMax
    /\ recvd \in 0 .. PacketMax
    /\ packets \in Seq(1 .. PacketMax)
    /\ batch \in Seq(1 .. PacketMax)
    /\ delivered \in Seq(1 .. PacketMax)

LEMMA TypeSplit == TypeOK <=> TypeCtl /\ TypeData
BY DEF TypeOK, TypeCtl, TypeData

(* TypeCtl in the next state, one variable at a time.                      *)
LEMMA TypeCtlStep ==
    ASSUME peer' \in {"Streaming", "Closed"},
           conn' \in {"Listening", "Open", "Removed"},
           sock_closed' \in BOOLEAN, closed' \in BOOLEAN, new_conn' \in BOOLEAN,
           lpc' \in {"Poll", "Check", "Parked", "Query"},
           lwaker' \in BOOLEAN, lnotified' \in BOOLEAN,
           spc' \in SenderStates, gwaker' \in BOOLEAN, snotified' \in BOOLEAN,
           gproc' \in {"None", "Running", "Exited"},
           hpc' \in {"None", "Select", "Killing", "Reap", "Offline", "Finished"},
           kill' \in {"None", "Term", "Kill"}
    PROVE  TypeCtl'
BY DEF TypeCtl

(* The two halves of TypeOK give it back in the next state.               *)
LEMMA TypeJoin == TypeCtl' /\ TypeData' => TypeOK'
BY DEF TypeOK, TypeCtl, TypeData

(* Three pieces numbered on from each other, r positions in all.          *)
NumberedOn(d, b, p, r) ==
    /\ \A i \in 1 .. Len(d) : d[i] = i
    /\ \A i \in 1 .. Len(b) : b[i] = Len(d) + i
    /\ \A i \in 1 .. Len(p) : p[i] = Len(d) + Len(b) + i
    /\ Len(d) + Len(b) + Len(p) = r

(* Such pieces concatenate to 1 .. r.                                      *)
LEMMA NumberedRun ==
    ASSUME NEW S, NEW d \in Seq(S), NEW b \in Seq(S), NEW p \in Seq(S), NEW r \in Nat,
           NumberedOn(d, b, p, r)
    PROVE  d \o b \o p = [i \in 1 .. r |-> i]
<1> USE DEF NumberedOn
<1>1. /\ d \o b \in Seq(S)
      /\ Len(d \o b) = Len(d) + Len(b)
      /\ \A i \in 1 .. Len(d) + Len(b) :
             (d \o b)[i] = IF i <= Len(d) THEN d[i] ELSE b[i - Len(d)]
    BY ConcatProperties
<1>2. \A i \in 1 .. Len(d \o b) : (d \o b)[i] = i
    BY <1>1
<1>3. /\ (d \o b) \o p \in Seq(S)
      /\ Len((d \o b) \o p) = r
      /\ \A i \in 1 .. r :
             ((d \o b) \o p)[i] =
                 IF i <= Len(d \o b) THEN (d \o b)[i] ELSE p[i - Len(d \o b)]
    BY <1>1, ConcatProperties
<1>4. \A i \in 1 .. r : ((d \o b) \o p)[i] = i
    BY <1>1, <1>2, <1>3
<1>5. (d \o b) \o p \in [1 .. r -> S]
    <2>1. (d \o b) \o p \in [1 .. Len((d \o b) \o p) -> S]
        BY <1>3, LenProperties
    <2>2. QED
        BY <1>3, <2>1
<1>6. QED
    BY <1>4, <1>5, Zenon

LEMMA NextIInv == IInv /\ [Next]_vars => IInv'
<1> SUFFICES ASSUME IInv, [Next]_vars PROVE IInv'
    OBVIOUS
<1> USE SrtConstantsAssumption, EmptyPackets
<1>0. TypeCtl /\ TypeData
    BY TypeSplit DEF IInv
<1>1. CASE PeerSend
    <2>1. UNCHANGED <<recvd, packets, batch, delivered, closed, spc>>
        BY <1>1 DEF PeerSend, peerVars, srtVars, sharedVars, listenVars, senderVars, gpacVars
    <2>2. TypeCtl'
        <3>1. /\ peer' = peer /\ conn' = conn /\ sock_closed' = sock_closed /\ closed' = closed
              /\ new_conn' = new_conn /\ lpc' = lpc /\ lwaker' = lwaker /\ lnotified' = lnotified
              /\ spc' = spc /\ gwaker' = gwaker /\ snotified' = snotified /\ gproc' = gproc
              /\ hpc' = hpc /\ kill' = kill
            BY <1>1 DEF PeerSend, peerVars, srtVars, sharedVars, listenVars, senderVars, gpacVars
        <3>2. /\ peer' \in {"Streaming", "Closed"}
              /\ conn' \in {"Listening", "Open", "Removed"}
              /\ sock_closed' \in BOOLEAN
              /\ closed' \in BOOLEAN
            BY <3>1, <1>0 DEF TypeCtl
        <3>3. /\ new_conn' \in BOOLEAN
              /\ lpc' \in {"Poll", "Check", "Parked", "Query"}
              /\ lwaker' \in BOOLEAN
              /\ lnotified' \in BOOLEAN
            BY <3>1, <1>0 DEF TypeCtl
        <3>4. /\ spc' \in SenderStates
              /\ gwaker' \in BOOLEAN
              /\ snotified' \in BOOLEAN
              /\ gproc' \in {"None", "Running", "Exited"}
            BY <3>1, <1>0 DEF TypeCtl
        <3>5. /\ hpc' \in {"None", "Select", "Killing", "Reap", "Offline", "Finished"}
              /\ kill' \in {"None", "Term", "Kill"}
            BY <3>1, <1>0 DEF TypeCtl
        <3>6. QED
            BY <3>2, <3>3, <3>4, <3>5, TypeCtlStep
    <2>3. Handoff' /\ BacklogBounded' /\ BatchShape'
        BY <1>1, <2>1 DEF PeerSend, peerVars, srtVars, sharedVars, listenVars, senderVars, gpacVars, IInv, Handoff, BacklogBounded, BatchShape
    <2>4. TypeData' /\ Numbered'
        BY <1>1, <2>1, <1>0 DEF PeerSend, TypeData, IInv, Numbered
    <2>5. QED
        BY <2>2, <2>3, <2>4, TypeJoin DEF IInv
<1>2. CASE PeerClose
    <2>1. UNCHANGED <<sent, recvd, packets, batch, delivered, closed, spc>>
        BY <1>2 DEF PeerClose, peerVars, srtVars, sharedVars, listenVars, senderVars, gpacVars
    <2>2. TypeCtl'
        <3>1. /\ conn' = conn /\ sock_closed' = sock_closed /\ closed' = closed /\ new_conn' = new_conn
              /\ lpc' = lpc /\ lwaker' = lwaker /\ lnotified' = lnotified /\ spc' = spc
              /\ gwaker' = gwaker /\ snotified' = snotified /\ gproc' = gproc /\ hpc' = hpc
              /\ kill' = kill
            BY <1>2 DEF PeerClose, peerVars, srtVars, sharedVars, listenVars, senderVars, gpacVars
        <3>2. peer' \in {"Streaming", "Closed"}
            BY <1>2, <1>0 DEF PeerClose, TypeCtl
        <3>3. /\ conn' \in {"Listening", "Open", "Removed"}
              /\ sock_closed' \in BOOLEAN
              /\ closed' \in BOOLEAN
              /\ new_conn' \in BOOLEAN
            BY <3>1, <1>0 DEF TypeCtl
        <3>4. /\ lpc' \in {"Poll", "Check", "Parked", "Query"}
              /\ lwaker' \in BOOLEAN
              /\ lnotified' \in BOOLEAN
              /\ spc' \in SenderStates
            BY <3>1, <1>0 DEF TypeCtl
        <3>5. /\ gwaker' \in BOOLEAN
              /\ snotified' \in BOOLEAN
              /\ gproc' \in {"None", "Running", "Exited"}
              /\ hpc' \in {"None", "Select", "Killing", "Reap", "Offline", "Finished"}
            BY <3>1, <1>0 DEF TypeCtl
        <3>6. /\ kill' \in {"None", "Term", "Kill"}
            BY <3>1, <1>0 DEF TypeCtl
        <3>7. QED
            BY <3>2, <3>3, <3>4, <3>5, <3>6, TypeCtlStep
    <2>3. Handoff'
        BY <1>2, <2>1, <1>0 DEF PeerClose, peerVars, srtVars, sharedVars, listenVars, senderVars, gpacVars, IInv, Handoff
    <2>4. TypeData'
        BY <2>1, <1>0 DEF TypeData
    <2>5. QED
        BY <2>1, <2>2, <2>3, <2>4, DataFrame, TypeJoin DEF IInv
<1>3. CASE GpacExit
    <2>1. UNCHANGED <<sent, recvd, packets, batch, delivered, closed, spc>>
        BY <1>3 DEF GpacExit, peerVars, srtVars, sharedVars, listenVars, senderVars, gpacVars
    <2>2. TypeCtl'
        <3>1. /\ peer' = peer /\ conn' = conn /\ sock_closed' = sock_closed /\ closed' = closed
              /\ new_conn' = new_conn /\ lpc' = lpc /\ lwaker' = lwaker /\ lnotified' = lnotified
              /\ spc' = spc /\ gwaker' = gwaker /\ snotified' = snotified /\ hpc' = hpc
              /\ kill' = kill
            BY <1>3 DEF GpacExit, peerVars, srtVars, sharedVars, listenVars, senderVars, gpacVars
        <3>2. gproc' \in {"None", "Running", "Exited"}
            BY <1>3, <1>0 DEF GpacExit, TypeCtl
        <3>3. /\ peer' \in {"Streaming", "Closed"}
              /\ conn' \in {"Listening", "Open", "Removed"}
              /\ sock_closed' \in BOOLEAN
              /\ closed' \in BOOLEAN
            BY <3>1, <1>0 DEF TypeCtl
        <3>4. /\ new_conn' \in BOOLEAN
              /\ lpc' \in {"Poll", "Check", "Parked", "Query"}
              /\ lwaker' \in BOOLEAN
              /\ lnotified' \in BOOLEAN
            BY <3>1, <1>0 DEF TypeCtl
        <3>5. /\ spc' \in SenderStates
              /\ gwaker' \in BOOLEAN
              /\ snotified' \in BOOLEAN
              /\ hpc' \in {"None", "Select", "Killing", "Reap", "Offline", "Finished"}
            BY <3>1, <1>0 DEF TypeCtl
        <3>6. /\ kill' \in {"None", "Term", "Kill"}
            BY <3>1, <1>0 DEF TypeCtl
        <3>7. QED
            BY <3>2, <3>3, <3>4, <3>5, <3>6, TypeCtlStep
    <2>3. Handoff'
        BY <1>3, <2>1, <1>0 DEF GpacExit, peerVars, srtVars, sharedVars, listenVars, senderVars, gpacVars, IInv, Handoff
    <2>4. TypeData'
        BY <2>1, <1>0 DEF TypeData
    <2>5. QED
        BY <2>1, <2>2, <2>3, <2>4, DataFrame, TypeJoin DEF IInv
<1>4. CASE Accept
    <2>1. UNCHANGED <<sent, recvd, packets, batch, delivered, closed, spc>>
        BY <1>4 DEF Accept, WakeListener, Woken, peerVars, srtVars, sharedVars, listenVars, senderVars, gpacVars
    <2>2. TypeCtl'
        <3>1. /\ peer' = peer /\ sock_closed' = sock_closed /\ closed' = closed /\ spc' = spc
              /\ gwaker' = gwaker /\ snotified' = snotified /\ gproc' = gproc /\ hpc' = hpc
              /\ kill' = kill
            BY <1>4 DEF Accept, WakeListener, Woken, peerVars, srtVars, sharedVars, listenVars, senderVars, gpacVars
        <3>2. conn' \in {"Listening", "Open", "Removed"}
            BY <1>4, <1>0 DEF Accept, WakeListener, Woken, TypeCtl
        <3>3. new_conn' \in BOOLEAN
            BY <1>4, <1>0 DEF Accept, WakeListener, Woken, TypeCtl
        <3>4. lpc' \in {"Poll", "Check", "Parked", "Query"}
            BY <1>4, <1>0 DEF Accept, WakeListener, Woken, TypeCtl
        <3>5. lwaker' \in BOOLEAN
            BY <1>4, <1>0 DEF Accept, WakeListener, Woken, TypeCtl
        <3>6. lnotified' \in BOOLEAN
            BY <1>4, <1>0 DEF Accept, WakeListener, Woken, TypeCtl
        <3>7. /\ peer' \in {"Streaming", "Closed"}
              /\ sock_closed' \in BOOLEAN
              /\ closed' \in BOOLEAN
              /\ spc' \in SenderStates
            BY <3>1, <1>0 DEF TypeCtl
        <3>8. /\ gwaker' \in BOOLEAN
              /\ snotified' \in BOOLEAN
              /\ gproc' \in {"None", "Running", "Exited"}
              /\ hpc' \in {"None", "Select", "Killing", "Reap", "Offline", "Finished"}
            BY <3>1, <1>0 DEF TypeCtl
        <3>9. /\ kill' \in {"None", "Term", "Kill"}
            BY <3>1, <1>0 DEF TypeCtl
        <3>10. QED
            BY <3>2, <3>3, <3>4, <3>5, <3>6, <3>7, <3>8, <3>9, TypeCtlStep
    <2>3. Handoff'
        BY <1>4, <2>1, <1>0 DEF Accept, WakeListener, Woken, peerVars, srtVars, sharedVars, listenVars, senderVars, gpacVars, IInv, Handoff
    <2>4. TypeData'
        BY <2>1, <1>0 DEF TypeData
    <2>5. QED
        BY <2>1, <2>2, <2>3, <2>4, DataFrame, TypeJoin DEF IInv
<1>7. CASE ListenRegister
    <2>1. UNCHANGED <<sent, recvd, packets, batch, delivered, closed, spc>>
        BY <1>7 DEF ListenRegister, peerVars, srtVars, sharedVars, listenVars, senderVars, gpacVars
    <2>2. TypeCtl'
        <3>1. /\ peer' = peer /\ conn' = conn /\ sock_closed' = sock_closed /\ closed' = closed
              /\ new_conn' = new_conn /\ lnotified' = lnotified /\ spc' = spc /\ gwaker' = gwaker
              /\ snotified' = snotified /\ gproc' = gproc /\ hpc' = hpc /\ kill' = kill
            BY <1>7 DEF ListenRegister, peerVars, srtVars, sharedVars, listenVars, senderVars, gpacVars
        <3>2. lpc' \in {"Poll", "Check", "Parked", "Query"}
            BY <1>7, <1>0 DEF ListenRegister, TypeCtl
        <3>3. lwaker' \in BOOLEAN
            BY <1>7, <1>0 DEF ListenRegister, TypeCtl
        <3>4. /\ peer' \in {"Streaming", "Closed"}
              /\ conn' \in {"Listening", "Open", "Removed"}
              /\ sock_closed' \in BOOLEAN
              /\ closed' \in BOOLEAN
            BY <3>1, <1>0 DEF TypeCtl
        <3>5. /\ new_conn' \in BOOLEAN
              /\ lnotified' \in BOOLEAN
              /\ spc' \in SenderStates
              /\ gwaker' \in BOOLEAN
            BY <3>1, <1>0 DEF TypeCtl
        <3>6. /\ snotified' \in BOOLEAN
              /\ gproc' \in {"None", "Running", "Exited"}
              /\ hpc' \in {"None", "Select", "Killing", "Reap", "Offline", "Finished"}
              /\ kill' \in {"None", "Term", "Kill"}
            BY <3>1, <1>0 DEF TypeCtl
        <3>7. QED
            BY <3>2, <3>3, <3>4, <3>5, <3>6, TypeCtlStep
    <2>3. Handoff'
        BY <1>7, <2>1, <1>0 DEF ListenRegister, peerVars, srtVars, sharedVars, listenVars, senderVars, gpacVars, IInv, Handoff
    <2>4. TypeData'
        BY <2>1, <1>0 DEF TypeData
    <2>5. QED
        BY <2>1, <2>2, <2>3, <2>4, DataFrame, TypeJoin DEF IInv
<1>8. CASE ListenTake
    <2>1. UNCHANGED <<sent, recvd, packets, batch, delivered, closed, spc>>
        BY <1>8 DEF ListenTake, peerVars, srtVars, sharedVars, listenVars, senderVars, gpacVars
    <2>2. TypeCtl'
        <3>1. /\ peer' = peer /\ conn' = conn /\ sock_closed' = sock_closed /\ closed' = closed
              /\ lwaker' = lwaker /\ spc' = spc /\ gwaker' = gwaker /\ snotified' = snotified
              /\ gproc' = gproc /\ hpc' = hpc /\ kill' = kill
            BY <1>8 DEF ListenTake, peerVars, srtVars, sharedVars, listenVars, senderVars, gpacVars
        <3>2. lpc' \in {"Poll", "Check", "Parked", "Query"}
            BY <1>8, <1>0 DEF ListenTake, TypeCtl
        <3>3. lnotified' \in BOOLEAN
            BY <1>8, <1>0 DEF ListenTake, TypeCtl
        <3>4. new_conn' \in BOOLEAN
            BY <1>8, <1>0 DEF ListenTake, TypeCtl
        <3>5. /\ peer' \in {"Streaming", "Closed"}
              /\ conn' \in {"Listening", "Open", "Removed"}
              /\ sock_closed' \in BOOLEAN
              /\ closed' \in BOOLEAN
            BY <3>1, <1>0 DEF TypeCtl
        <3>6. /\ lwaker' \in BOOLEAN
              /\ spc' \in SenderStates
              /\ gwaker' \in BOOLEAN
              /\ snotified' \in BOOLEAN
            BY <3>1, <1>0 DEF TypeCtl
        <3>7. /\ gproc' \in {"None", "Running", "Exited"}
              /\ hpc' \in {"None", "Select", "Killing", "Reap", "Offline", "Finished"}
              /\ kill' \in {"None", "Term", "Kill"}
            BY <3>1, <1>0 DEF TypeCtl
        <3>8. QED
            BY <3>2, <3>3, <3>4, <3>5, <3>6, <3>7, TypeCtlStep
    <2>3. Handoff'
        BY <1>8, <2>1, <1>0 DEF ListenTake, peerVars, srtVars, sharedVars, listenVars, senderVars, gpacVars, IInv, Handoff
    <2>4. TypeData'
        BY <2>1, <1>0 DEF TypeData
    <2>5. QED
        BY <2>1, <2>2, <2>3, <2>4, DataFrame, TypeJoin DEF IInv
<1>11. CASE SenderCheck
    <2>1. /\ UNCHANGED <<sent, recvd, delivered, closed, conn, new_conn, lpc, hpc, gproc>>
          /\ spc = "Check"
        BY <1>11 DEF SenderCheck, peerVars, srtVars, sharedVars, listenVars, senderVars, gpacVars
    <2>0. batch = <<>> /\ Len(batch) = 0
        BY <2>1, EmptyPackets DEF IInv, BatchShape
    <2>2. TypeCtl'
        <3>1. /\ peer' = peer /\ conn' = conn /\ sock_closed' = sock_closed /\ closed' = closed
              /\ new_conn' = new_conn /\ lpc' = lpc /\ lwaker' = lwaker /\ lnotified' = lnotified
              /\ gwaker' = gwaker /\ gproc' = gproc /\ hpc' = hpc /\ kill' = kill
            BY <1>11 DEF SenderCheck, peerVars, srtVars, sharedVars, listenVars, senderVars, gpacVars
        <3>2. spc' \in SenderStates
            BY <1>11, <1>0 DEF SenderCheck, TypeCtl, SenderStates
        <3>3. snotified' \in BOOLEAN
            BY <1>11, <1>0 DEF SenderCheck, TypeCtl
        <3>4. /\ peer' \in {"Streaming", "Closed"}
              /\ conn' \in {"Listening", "Open", "Removed"}
              /\ sock_closed' \in BOOLEAN
              /\ closed' \in BOOLEAN
            BY <3>1, <1>0 DEF TypeCtl
        <3>5. /\ new_conn' \in BOOLEAN
              /\ lpc' \in {"Poll", "Check", "Parked", "Query"}
              /\ lwaker' \in BOOLEAN
              /\ lnotified' \in BOOLEAN
            BY <3>1, <1>0 DEF TypeCtl
        <3>6. /\ gwaker' \in BOOLEAN
              /\ gproc' \in {"None", "Running", "Exited"}
              /\ hpc' \in {"None", "Select", "Killing", "Reap", "Offline", "Finished"}
              /\ kill' \in {"None", "Term", "Kill"}
            BY <3>1, <1>0 DEF TypeCtl
        <3>7. QED
            BY <3>2, <3>3, <3>4, <3>5, <3>6, TypeCtlStep
    <2>3. CASE packets = <<>> /\ ~closed
        <3>1. UNCHANGED <<packets, batch>> /\ spc' \in {"Poll", "Parked"}
            BY <1>11, <2>3 DEF SenderCheck
        <3>2. TypeData' /\ BacklogBounded' /\ Numbered'
            BY <2>1, <3>1, <1>0 DEF IInv, TypeData, BacklogBounded, Numbered
        <3>3. BatchShape' /\ Handoff'
            BY <2>0, <2>1, <3>1 DEF IInv, BatchShape, Handoff
        <3>4. QED
            BY <2>2, <3>2, <3>3, TypeJoin DEF IInv
    <2>4. CASE closed
        <3>1. spc' = "Ok" /\ batch' = <<>> /\ packets' = <<>>
            BY <1>11, <2>0, <2>4 DEF SenderCheck
        <3>2. TypeData' /\ BacklogBounded'
            BY <2>1, <3>1, <1>0, EmptyPackets, SrtConstantsAssumption
            DEF TypeData, BacklogBounded
        <3>3. Numbered'
            BY <2>1, <2>4, <3>1, EmptyPackets DEF IInv, Numbered
        <3>4. BatchShape' /\ Handoff'
            BY <2>1, <3>1 DEF IInv, BatchShape, Handoff
        <3>5. QED
            BY <2>2, <3>2, <3>3, <3>4, TypeJoin DEF IInv
    <2>5. CASE ~closed /\ packets # <<>>
        <3>1. spc' = "Sending" /\ batch' = packets /\ packets' = <<>>
            BY <1>11, <2>0, <2>5 DEF SenderCheck
        <3>2. /\ Len(delivered) + Len(batch) + Len(packets) = recvd
              /\ \A i \in 1 .. Len(packets) :
                     packets[i] = Len(delivered) + Len(batch) + i
            BY <2>1, <2>5 DEF IInv, Numbered
        <3>3. TypeData' /\ BacklogBounded'
            BY <2>1, <3>1, <1>0, EmptyPackets, SrtConstantsAssumption
            DEF TypeData, BacklogBounded
        <3>10. \A i \in 1 .. Len(packets) : packets[i] = Len(delivered) + i
            BY <2>0, <3>2
        <3>4. \A i \in 1 .. Len(batch') : batch'[i] = Len(delivered') + i
            BY <2>1, <3>1, <3>10
        <3>5. Len(delivered') + Len(batch') + Len(packets') = recvd'
            BY <2>0, <2>1, <3>1, <3>2, EmptyPackets
        <3>6. /\ recvd' <= sent'
              /\ \A i \in 1 .. Len(delivered') : delivered'[i] = i
            BY <2>1 DEF IInv, Numbered
        <3>7. Numbered'
            BY <3>1, <3>4, <3>5, <3>6, EmptyPackets DEF Numbered
        <3>8. BatchShape' /\ Handoff'
            BY <2>1, <2>5, <3>1 DEF IInv, BatchShape, Handoff
        <3>9. QED
            BY <2>2, <3>3, <3>7, <3>8, TypeJoin DEF IInv
    <2>6. QED
        BY <2>3, <2>4, <2>5
<1>12. CASE SenderWrite
    <2>1. /\ UNCHANGED <<sent, recvd, packets, closed, conn, new_conn, lpc, hpc, gproc>>
          /\ spc = "Sending"
        BY <1>12 DEF SenderWrite, peerVars, srtVars, sharedVars, listenVars, senderVars, gpacVars
    <2>0. /\ batch # <<>>
          /\ batch \in Seq(1 .. PacketMax) /\ delivered \in Seq(1 .. PacketMax)
          /\ Len(batch) \in Nat \ {0} /\ Len(delivered) \in Nat
        BY <2>1, <1>0, EmptySeq DEF IInv, BatchShape, TypeData
    <2>2. TypeCtl'
        <3>1. /\ peer' = peer /\ conn' = conn /\ sock_closed' = sock_closed /\ closed' = closed
              /\ new_conn' = new_conn /\ lpc' = lpc /\ lwaker' = lwaker /\ lnotified' = lnotified
              /\ gwaker' = gwaker /\ snotified' = snotified /\ gproc' = gproc /\ hpc' = hpc
              /\ kill' = kill
            BY <1>12 DEF SenderWrite, peerVars, srtVars, sharedVars, listenVars, senderVars, gpacVars
        <3>2. spc' \in SenderStates
            BY <1>12, <1>0 DEF SenderWrite, TypeCtl, SenderStates
        <3>3. /\ peer' \in {"Streaming", "Closed"}
              /\ conn' \in {"Listening", "Open", "Removed"}
              /\ sock_closed' \in BOOLEAN
              /\ closed' \in BOOLEAN
            BY <3>1, <1>0 DEF TypeCtl
        <3>4. /\ new_conn' \in BOOLEAN
              /\ lpc' \in {"Poll", "Check", "Parked", "Query"}
              /\ lwaker' \in BOOLEAN
              /\ lnotified' \in BOOLEAN
            BY <3>1, <1>0 DEF TypeCtl
        <3>5. /\ gwaker' \in BOOLEAN
              /\ snotified' \in BOOLEAN
              /\ gproc' \in {"None", "Running", "Exited"}
              /\ hpc' \in {"None", "Select", "Killing", "Reap", "Offline", "Finished"}
            BY <3>1, <1>0 DEF TypeCtl
        <3>6. /\ kill' \in {"None", "Term", "Kill"}
            BY <3>1, <1>0 DEF TypeCtl
        <3>7. QED
            BY <3>2, <3>3, <3>4, <3>5, <3>6, TypeCtlStep
    <2>3. CASE gproc = "Running"
        <3>1. /\ delivered' = Append(delivered, Head(batch))
              /\ batch' = Tail(batch)
              /\ spc' = IF Len(batch) = 1 THEN "Poll" ELSE "Sending"
            BY <1>12, <2>3 DEF SenderWrite
        <3>2. /\ Head(batch) \in 1 .. PacketMax
              /\ Tail(batch) \in Seq(1 .. PacketMax)
              /\ Len(Tail(batch)) = Len(batch) - 1
              /\ \A i \in 1 .. Len(Tail(batch)) : Tail(batch)[i] = batch[i + 1]
            BY <2>0, HeadTailProperties
        <3>3. /\ Append(delivered, Head(batch)) \in Seq(1 .. PacketMax)
              /\ Len(Append(delivered, Head(batch))) = Len(delivered) + 1
              /\ \A i \in 1 .. Len(delivered) :
                     Append(delivered, Head(batch))[i] = delivered[i]
              /\ Append(delivered, Head(batch))[Len(delivered) + 1] = Head(batch)
            BY <2>0, <3>2, AppendProperties
        <3>4. /\ \A i \in 1 .. Len(delivered) : delivered[i] = i
              /\ \A i \in 1 .. Len(batch) : batch[i] = Len(delivered) + i
            BY DEF IInv, Numbered
        <3>5. Head(batch) = Len(delivered) + 1
            BY <2>0, <3>4
        <3>6. TypeData' /\ BacklogBounded'
            BY <2>1, <3>1, <3>2, <3>3, <1>0 DEF IInv, TypeData, BacklogBounded
        <3>7. \A i \in 1 .. Len(delivered') : delivered'[i] = i
            BY <2>0, <3>1, <3>3, <3>4, <3>5
        <3>8. \A i \in 1 .. Len(batch') : batch'[i] = Len(delivered') + i
            BY <2>0, <3>1, <3>2, <3>3, <3>4
        <3>9. ~closed' /\ spc' \notin {"Err", "Cancelled"} =>
                  /\ Len(delivered') + Len(batch') + Len(packets') = recvd'
                  /\ \A i \in 1 .. Len(packets') :
                         packets'[i] = Len(delivered') + Len(batch') + i
            <4>1. SUFFICES ASSUME ~closed'
                           PROVE  /\ Len(delivered') + Len(batch') + Len(packets') = recvd'
                                  /\ \A i \in 1 .. Len(packets') :
                                         packets'[i] = Len(delivered') + Len(batch') + i
                OBVIOUS
            <4>2. /\ Len(delivered) + Len(batch) + Len(packets) = recvd
                  /\ \A i \in 1 .. Len(packets) :
                         packets[i] = Len(delivered) + Len(batch) + i
                BY <2>1, <4>1 DEF IInv, Numbered
            <4>3. Len(packets) \in Nat
                BY <1>0 DEF TypeData
            <4>4. QED
                BY <2>0, <2>1, <3>1, <3>2, <3>3, <4>2, <4>3
        <3>10. Numbered'
            <4>1. recvd' <= sent'
                BY <2>1 DEF IInv, Numbered
            <4>2. QED
                BY <4>1, <3>7, <3>8, <3>9 DEF Numbered
        <3>11. spc' = "Poll" => batch' = <<>>
            <4>1. \A sq \in Seq(1 .. PacketMax) : sq # <<>> => Len(sq) \in Nat \ {0}
                BY EmptySeq
            <4>2. spc' = "Poll" => Len(batch) = 1
                BY <3>1
            <4>3. Tail(batch) # <<>> => Len(Tail(batch)) \in Nat \ {0}
                BY <3>2, <4>1
            <4>4. Len(batch) = 1 => Tail(batch) = <<>>
                BY <3>2, <4>3
            <4>5. QED
                BY <3>1, <4>2, <4>4
        <3>12. spc' = "Sending" => batch' # <<>>
            <4>1. spc' = "Sending" => Len(batch) # 1
                BY <3>1
            <4>2. Len(batch) # 1 => Len(Tail(batch)) # 0
                BY <2>0, <3>2
            <4>3. Len(batch) # 1 => Tail(batch) # <<>>
                BY <4>2, EmptyPackets
            <4>4. QED
                BY <3>1, <4>1, <4>3
        <3>13. BatchShape' /\ Handoff'
            BY <2>1, <3>1, <3>11, <3>12 DEF IInv, BatchShape, Handoff
        <3>14. QED
            BY <2>2, <3>6, <3>10, <3>13, TypeJoin DEF IInv
    <2>4. CASE gproc # "Running"
        <3>1. spc' = "Err" /\ batch' = <<>> /\ delivered' = delivered
            BY <1>12, <2>4 DEF SenderWrite
        <3>2. TypeData' /\ BacklogBounded'
            BY <2>1, <3>1, <1>0, EmptyPackets DEF IInv, TypeData, BacklogBounded
        <3>3. Numbered'
            BY <2>1, <3>1, EmptyPackets DEF IInv, Numbered
        <3>4. BatchShape' /\ Handoff'
            BY <2>1, <3>1 DEF IInv, BatchShape, Handoff
        <3>5. QED
            BY <2>2, <3>2, <3>3, <3>4, TypeJoin DEF IInv
    <2>5. QED
        BY <2>3, <2>4
<1>13. CASE SenderFinished
    <2>1. /\ UNCHANGED <<sent, recvd, packets, batch, delivered, spc, conn, new_conn, lpc>>
          /\ spc \in {"Ok", "Err"} /\ closed' = TRUE /\ hpc' = "Killing"
        BY <1>13 DEF SenderFinished, peerVars, srtVars, sharedVars, listenVars, senderVars, gpacVars
    <2>2. TypeCtl'
        <3>1. /\ peer' = peer /\ conn' = conn /\ sock_closed' = sock_closed /\ new_conn' = new_conn
              /\ lpc' = lpc /\ lwaker' = lwaker /\ lnotified' = lnotified /\ spc' = spc
              /\ gwaker' = gwaker /\ snotified' = snotified /\ gproc' = gproc /\ kill' = kill
            BY <1>13 DEF SenderFinished, peerVars, srtVars, sharedVars, listenVars, senderVars, gpacVars
        <3>2. closed' \in BOOLEAN
            BY <1>13, <1>0 DEF SenderFinished, TypeCtl
        <3>3. hpc' \in {"None", "Select", "Killing", "Reap", "Offline", "Finished"}
            BY <1>13, <1>0 DEF SenderFinished, TypeCtl
        <3>4. /\ peer' \in {"Streaming", "Closed"}
              /\ conn' \in {"Listening", "Open", "Removed"}
              /\ sock_closed' \in BOOLEAN
              /\ new_conn' \in BOOLEAN
            BY <3>1, <1>0 DEF TypeCtl
        <3>5. /\ lpc' \in {"Poll", "Check", "Parked", "Query"}
              /\ lwaker' \in BOOLEAN
              /\ lnotified' \in BOOLEAN
              /\ spc' \in SenderStates
            BY <3>1, <1>0 DEF TypeCtl
        <3>6. /\ gwaker' \in BOOLEAN
              /\ snotified' \in BOOLEAN
              /\ gproc' \in {"None", "Running", "Exited"}
              /\ kill' \in {"None", "Term", "Kill"}
            BY <3>1, <1>0 DEF TypeCtl
        <3>7. QED
            BY <3>2, <3>3, <3>4, <3>5, <3>6, TypeCtlStep
    <2>3. TypeData' /\ BacklogBounded' /\ BatchShape'
        BY <2>1, <1>0 DEF IInv, TypeData, BacklogBounded, BatchShape
    <2>4. Numbered'
        BY <2>1 DEF IInv, Numbered
    <2>5. Handoff'
        BY <2>1 DEF IInv, Handoff
    <2>6. QED
        BY <2>2, <2>3, <2>4, <2>5, TypeJoin DEF IInv
<1>14. CASE PidfdFired
    <2>1. /\ UNCHANGED <<sent, recvd, packets, delivered, conn, new_conn, lpc>>
          /\ hpc = "Select" /\ closed' = TRUE /\ hpc' = "Offline" /\ batch' = <<>>
          /\ spc' \in {"Ok", "Err", "Cancelled"}
        BY <1>14 DEF PidfdFired, peerVars, srtVars, sharedVars, listenVars, senderVars, gpacVars
    <2>2. TypeCtl'
        <3>1. /\ peer' = peer /\ conn' = conn /\ sock_closed' = sock_closed /\ new_conn' = new_conn
              /\ lpc' = lpc /\ lwaker' = lwaker /\ lnotified' = lnotified /\ gwaker' = gwaker
              /\ snotified' = snotified /\ gproc' = gproc /\ kill' = kill
            BY <1>14 DEF PidfdFired, peerVars, srtVars, sharedVars, listenVars, senderVars, gpacVars
        <3>2. closed' \in BOOLEAN
            BY <1>14, <1>0 DEF PidfdFired, TypeCtl
        <3>3. spc' \in SenderStates
            BY <1>14, <1>0 DEF PidfdFired, TypeCtl, SenderStates
        <3>4. hpc' \in {"None", "Select", "Killing", "Reap", "Offline", "Finished"}
            BY <1>14, <1>0 DEF PidfdFired, TypeCtl
        <3>5. /\ peer' \in {"Streaming", "Closed"}
              /\ conn' \in {"Listening", "Open", "Removed"}
              /\ sock_closed' \in BOOLEAN
              /\ new_conn' \in BOOLEAN
            BY <3>1, <1>0 DEF TypeCtl
        <3>6. /\ lpc' \in {"Poll", "Check", "Parked", "Query"}
              /\ lwaker' \in BOOLEAN
              /\ lnotified' \in BOOLEAN
              /\ gwaker' \in BOOLEAN
            BY <3>1, <1>0 DEF TypeCtl
        <3>7. /\ snotified' \in BOOLEAN
              /\ gproc' \in {"None", "Running", "Exited"}
              /\ kill' \in {"None", "Term", "Kill"}
            BY <3>1, <1>0 DEF TypeCtl
        <3>8. QED
            BY <3>2, <3>3, <3>4, <3>5, <3>6, <3>7, TypeCtlStep
    <2>3. TypeData' /\ BacklogBounded'
        BY <2>1, <1>0, EmptyPackets DEF IInv, TypeData, BacklogBounded
    <2>4. BatchShape' /\ Numbered'
        BY <2>1, EmptyPackets DEF IInv, BatchShape, Numbered
    <2>5. Handoff'
        BY <2>1 DEF IInv, Handoff
    <2>6. QED
        BY <2>2, <2>3, <2>4, <2>5, TypeJoin DEF IInv
<1>15. CASE KillTimer
    <2>1. UNCHANGED <<sent, recvd, packets, batch, delivered, closed, spc>>
        BY <1>15 DEF KillTimer, peerVars, srtVars, sharedVars, listenVars, senderVars, gpacVars
    <2>2. TypeCtl'
        <3>1. /\ peer' = peer /\ conn' = conn /\ sock_closed' = sock_closed /\ closed' = closed
              /\ new_conn' = new_conn /\ lpc' = lpc /\ lwaker' = lwaker /\ lnotified' = lnotified
              /\ spc' = spc /\ gwaker' = gwaker /\ snotified' = snotified /\ gproc' = gproc
            BY <1>15 DEF KillTimer, peerVars, srtVars, sharedVars, listenVars, senderVars, gpacVars
        <3>2. kill' \in {"None", "Term", "Kill"}
            BY <1>15, <1>0 DEF KillTimer, TypeCtl
        <3>3. hpc' \in {"None", "Select", "Killing", "Reap", "Offline", "Finished"}
            BY <1>15, <1>0 DEF KillTimer, TypeCtl
        <3>4. /\ peer' \in {"Streaming", "Closed"}
              /\ conn' \in {"Listening", "Open", "Removed"}
              /\ sock_closed' \in BOOLEAN
              /\ closed' \in BOOLEAN
            BY <3>1, <1>0 DEF TypeCtl
        <3>5. /\ new_conn' \in BOOLEAN
              /\ lpc' \in {"Poll", "Check", "Parked", "Query"}
              /\ lwaker' \in BOOLEAN
              /\ lnotified' \in BOOLEAN
            BY <3>1, <1>0 DEF TypeCtl
        <3>6. /\ spc' \in SenderStates
              /\ gwaker' \in BOOLEAN
              /\ snotified' \in BOOLEAN
              /\ gproc' \in {"None", "Running", "Exited"}
            BY <3>1, <1>0 DEF TypeCtl
        <3>7. QED
            BY <3>2, <3>3, <3>4, <3>5, <3>6, TypeCtlStep
    <2>3. Handoff'
        BY <1>15, <2>1, <1>0 DEF KillTimer, peerVars, srtVars, sharedVars, listenVars, senderVars, gpacVars, IInv, Handoff
    <2>4. TypeData'
        BY <2>1, <1>0 DEF TypeData
    <2>5. QED
        BY <2>1, <2>2, <2>3, <2>4, DataFrame, TypeJoin DEF IInv
<1>16. CASE Reaped
    <2>1. UNCHANGED <<sent, recvd, packets, batch, delivered, closed, spc>>
        BY <1>16 DEF Reaped, peerVars, srtVars, sharedVars, listenVars, senderVars, gpacVars
    <2>2. TypeCtl'
        <3>1. /\ peer' = peer /\ conn' = conn /\ sock_closed' = sock_closed /\ closed' = closed
              /\ new_conn' = new_conn /\ lpc' = lpc /\ lwaker' = lwaker /\ lnotified' = lnotified
              /\ spc' = spc /\ gwaker' = gwaker /\ snotified' = snotified /\ gproc' = gproc
              /\ kill' = kill
            BY <1>16 DEF Reaped, peerVars, srtVars, sharedVars, listenVars, senderVars, gpacVars
        <3>2. hpc' \in {"None", "Select", "Killing", "Reap", "Offline", "Finished"}
            BY <1>16, <1>0 DEF Reaped, TypeCtl
        <3>3. /\ peer' \in {"Streaming", "Closed"}
              /\ conn' \in {"Listening", "Open", "Removed"}
              /\ sock_closed' \in BOOLEAN
              /\ closed' \in BOOLEAN
            BY <3>1, <1>0 DEF TypeCtl
        <3>4. /\ new_conn' \in BOOLEAN
              /\ lpc' \in {"Poll", "Check", "Parked", "Query"}
              /\ lwaker' \in BOOLEAN
              /\ lnotified' \in BOOLEAN
            BY <3>1, <1>0 DEF TypeCtl
        <3>5. /\ spc' \in SenderStates
              /\ gwaker' \in BOOLEAN
              /\ snotified' \in BOOLEAN
              /\ gproc' \in {"None", "Running", "Exited"}
            BY <3>1, <1>0 DEF TypeCtl
        <3>6. /\ kill' \in {"None", "Term", "Kill"}
            BY <3>1, <1>0 DEF TypeCtl
        <3>7. QED
            BY <3>2, <3>3, <3>4, <3>5, <3>6, TypeCtlStep
    <2>3. Handoff'
        BY <1>16, <2>1, <1>0 DEF Reaped, peerVars, srtVars, sharedVars, listenVars, senderVars, gpacVars, IInv, Handoff
    <2>4. TypeData'
        BY <2>1, <1>0 DEF TypeData
    <2>5. QED
        BY <2>1, <2>2, <2>3, <2>4, DataFrame, TypeJoin DEF IInv
<1>17. CASE GoOffline
    <2>1. UNCHANGED <<sent, recvd, packets, batch, delivered, closed, spc>>
        BY <1>17 DEF GoOffline, peerVars, srtVars, sharedVars, listenVars, senderVars, gpacVars
    <2>2. TypeCtl'
        <3>1. /\ peer' = peer /\ conn' = conn /\ sock_closed' = sock_closed /\ closed' = closed
              /\ new_conn' = new_conn /\ lpc' = lpc /\ lwaker' = lwaker /\ lnotified' = lnotified
              /\ spc' = spc /\ gwaker' = gwaker /\ snotified' = snotified /\ gproc' = gproc
              /\ kill' = kill
            BY <1>17 DEF GoOffline, peerVars, srtVars, sharedVars, listenVars, senderVars, gpacVars
        <3>2. hpc' \in {"None", "Select", "Killing", "Reap", "Offline", "Finished"}
            BY <1>17, <1>0 DEF GoOffline, TypeCtl
        <3>3. /\ peer' \in {"Streaming", "Closed"}
              /\ conn' \in {"Listening", "Open", "Removed"}
              /\ sock_closed' \in BOOLEAN
              /\ closed' \in BOOLEAN
            BY <3>1, <1>0 DEF TypeCtl
        <3>4. /\ new_conn' \in BOOLEAN
              /\ lpc' \in {"Poll", "Check", "Parked", "Query"}
              /\ lwaker' \in BOOLEAN
              /\ lnotified' \in BOOLEAN
            BY <3>1, <1>0 DEF TypeCtl
        <3>5. /\ spc' \in SenderStates
              /\ gwaker' \in BOOLEAN
              /\ snotified' \in BOOLEAN
              /\ gproc' \in {"None", "Running", "Exited"}
            BY <3>1, <1>0 DEF TypeCtl
        <3>6. /\ kill' \in {"None", "Term", "Kill"}
            BY <3>1, <1>0 DEF TypeCtl
        <3>7. QED
            BY <3>2, <3>3, <3>4, <3>5, <3>6, TypeCtlStep
    <2>3. Handoff'
        BY <1>17, <2>1, <1>0 DEF GoOffline, peerVars, srtVars, sharedVars, listenVars, senderVars, gpacVars, IInv, Handoff
    <2>4. TypeData'
        BY <2>1, <1>0 DEF TypeData
    <2>5. QED
        BY <2>1, <2>2, <2>3, <2>4, DataFrame, TypeJoin DEF IInv
<1>5. CASE RemoveBroken
    <2>1. UNCHANGED <<sent, recvd, packets, batch, delivered, new_conn, lpc, hpc>>
        BY <1>5 DEF RemoveBroken, peerVars, srtVars, sharedVars, listenVars, senderVars, gpacVars
    <2>2. closed' = TRUE /\ conn' = "Removed"
        BY <1>5 DEF RemoveBroken, RemoveConnection
    <2>3. spc' = spc \/ (spc = "Parked" /\ spc' = "Poll")
        BY <1>5 DEF RemoveBroken, RemoveConnection, WakeSender, Woken
    <2>4. TypeCtl'
        <3>1. /\ peer' = peer /\ sock_closed' = sock_closed /\ new_conn' = new_conn /\ lpc' = lpc
              /\ lwaker' = lwaker /\ lnotified' = lnotified /\ gproc' = gproc /\ hpc' = hpc
              /\ kill' = kill
            BY <1>5 DEF RemoveBroken, RemoveConnection, WakeSender, Woken, peerVars, srtVars, sharedVars, listenVars, senderVars, gpacVars
        <3>2. conn' \in {"Listening", "Open", "Removed"}
            BY <1>5, <1>0 DEF RemoveBroken, RemoveConnection, WakeSender, Woken, TypeCtl
        <3>3. closed' \in BOOLEAN
            BY <1>5, <1>0 DEF RemoveBroken, RemoveConnection, WakeSender, Woken, TypeCtl
        <3>4. gwaker' \in BOOLEAN
            BY <1>5, <1>0 DEF RemoveBroken, RemoveConnection, WakeSender, Woken, TypeCtl
        <3>5. spc' \in SenderStates
            BY <1>5, <1>0 DEF RemoveBroken, RemoveConnection, WakeSender, Woken, TypeCtl, SenderStates
        <3>6. snotified' \in BOOLEAN
            BY <1>5, <1>0 DEF RemoveBroken, RemoveConnection, WakeSender, Woken, TypeCtl
        <3>7. /\ peer' \in {"Streaming", "Closed"}
              /\ sock_closed' \in BOOLEAN
              /\ new_conn' \in BOOLEAN
              /\ lpc' \in {"Poll", "Check", "Parked", "Query"}
            BY <3>1, <1>0 DEF TypeCtl
        <3>8. /\ lwaker' \in BOOLEAN
              /\ lnotified' \in BOOLEAN
              /\ gproc' \in {"None", "Running", "Exited"}
              /\ hpc' \in {"None", "Select", "Killing", "Reap", "Offline", "Finished"}
            BY <3>1, <1>0 DEF TypeCtl
        <3>9. /\ kill' \in {"None", "Term", "Kill"}
            BY <3>1, <1>0 DEF TypeCtl
        <3>10. QED
            BY <3>2, <3>3, <3>4, <3>5, <3>6, <3>7, <3>8, <3>9, TypeCtlStep
    <2>5. TypeData' /\ BacklogBounded' /\ Numbered'
        BY <2>1, <2>2, <1>0 DEF IInv, TypeData, BacklogBounded, Numbered
    <2>6. BatchShape' /\ Handoff'
        BY <2>1, <2>2, <2>3 DEF IInv, BatchShape, Handoff
    <2>7. QED
        BY <2>4, <2>5, <2>6, TypeJoin DEF IInv
<1>6. CASE ProcessSocket
    <2>1. UNCHANGED <<sent, batch, delivered, new_conn, lpc, hpc>> /\ conn = "Open"
        BY <1>6 DEF ProcessSocket, Readable, peerVars, srtVars, sharedVars, listenVars, senderVars, gpacVars
    <2>2. CASE closed
        <3>1. /\ UNCHANGED <<recvd, packets>>
              /\ closed' = TRUE /\ conn' = "Removed" /\ sock_closed' = TRUE
              /\ spc' = spc \/ (spc = "Parked" /\ spc' = "Poll")
            BY <1>6, <2>2 DEF ProcessSocket, RemoveConnection, WakeSender, Woken
        <3>2. TypeCtl'
            <4>1. /\ peer' = peer /\ new_conn' = new_conn /\ lpc' = lpc /\ lwaker' = lwaker
                  /\ lnotified' = lnotified /\ gproc' = gproc /\ hpc' = hpc /\ kill' = kill
                BY <1>6, <2>2 DEF ProcessSocket, RemoveConnection, WakeSender, Woken, peerVars, srtVars, sharedVars, listenVars, senderVars, gpacVars
            <4>2. conn' \in {"Listening", "Open", "Removed"}
                BY <1>6, <2>2, <1>0 DEF ProcessSocket, RemoveConnection, WakeSender, Woken, TypeCtl
            <4>3. sock_closed' \in BOOLEAN
                BY <1>6, <2>2, <1>0 DEF ProcessSocket, RemoveConnection, WakeSender, Woken, TypeCtl
            <4>4. closed' \in BOOLEAN
                BY <1>6, <2>2, <1>0 DEF ProcessSocket, RemoveConnection, WakeSender, Woken, TypeCtl
            <4>5. gwaker' \in BOOLEAN
                BY <1>6, <2>2, <1>0 DEF ProcessSocket, RemoveConnection, WakeSender, Woken, TypeCtl
            <4>6. spc' \in SenderStates
                BY <1>6, <2>2, <1>0 DEF ProcessSocket, RemoveConnection, WakeSender, Woken, TypeCtl, SenderStates
            <4>7. snotified' \in BOOLEAN
                BY <1>6, <2>2, <1>0 DEF ProcessSocket, RemoveConnection, WakeSender, Woken, TypeCtl
            <4>8. /\ peer' \in {"Streaming", "Closed"}
                  /\ new_conn' \in BOOLEAN
                  /\ lpc' \in {"Poll", "Check", "Parked", "Query"}
                  /\ lwaker' \in BOOLEAN
                BY <4>1, <1>0 DEF TypeCtl
            <4>9. /\ lnotified' \in BOOLEAN
                  /\ gproc' \in {"None", "Running", "Exited"}
                  /\ hpc' \in {"None", "Select", "Killing", "Reap", "Offline", "Finished"}
                  /\ kill' \in {"None", "Term", "Kill"}
                BY <4>1, <1>0 DEF TypeCtl
            <4>10. QED
                BY <4>2, <4>3, <4>4, <4>5, <4>6, <4>7, <4>8, <4>9, TypeCtlStep
        <3>3. TypeData' /\ BacklogBounded' /\ Numbered' /\ BatchShape' /\ Handoff'
            BY <2>1, <3>1, <1>0 DEF IInv, TypeData, BacklogBounded, Numbered,
                                   BatchShape, Handoff
        <3>4. QED
            BY <3>2, <3>3, TypeJoin DEF IInv
    <2>3. CASE ~closed
        <3> DEFINE k == Received
        <3>1. k \in 0 .. BacklogMax - Len(packets) /\ recvd + k <= sent
            BY <1>0 DEF k, Received, Room, MinOf, IInv, BacklogBounded, Numbered,
                        TypeData
        <3>2. recvd' = recvd + k /\ packets' = packets \o [i \in 1 .. k |-> recvd + i]
            BY <1>6, <2>3 DEF ProcessSocket, k
        <3>3. [i \in 1 .. k |-> recvd + i] \in Seq(1 .. PacketMax)
            BY <3>1, <1>0, RunIsSeq DEF TypeData
        <3>4. /\ packets' \in Seq(1 .. PacketMax)
              /\ Len(packets') = Len(packets) + k
              /\ \A i \in 1 .. Len(packets') :
                     packets'[i] = IF i <= Len(packets) THEN packets[i]
                                   ELSE recvd + (i - Len(packets))
            BY <3>1, <3>2, <3>3, <1>0, ConcatProperties DEF TypeData
        <3>5. TypeData' /\ BacklogBounded'
            BY <2>1, <3>1, <3>2, <3>4, <1>0 DEF IInv, TypeData, BacklogBounded
        <3>6. CASE k < Room /\ peer = "Closed"
            <4>1. /\ closed' = TRUE /\ conn' = "Removed" /\ sock_closed' = TRUE
                  /\ spc' = spc \/ (spc = "Parked" /\ spc' = "Poll")
                BY <1>6, <2>3, <3>6 DEF ProcessSocket, RemoveConnection, WakeSender,
                                        Woken, k
            <4>2. TypeCtl'
                <5>1. /\ peer' = peer /\ new_conn' = new_conn /\ lpc' = lpc /\ lwaker' = lwaker
                      /\ lnotified' = lnotified /\ gproc' = gproc /\ hpc' = hpc /\ kill' = kill
                    BY <1>6, <2>3, <3>6 DEF ProcessSocket, RemoveConnection, WakeSender, Woken, k, peerVars, srtVars, sharedVars, listenVars, senderVars, gpacVars
                <5>2. conn' \in {"Listening", "Open", "Removed"}
                    BY <1>6, <2>3, <3>6, <1>0 DEF ProcessSocket, RemoveConnection, WakeSender, Woken, k, TypeCtl
                <5>3. sock_closed' \in BOOLEAN
                    BY <1>6, <2>3, <3>6, <1>0 DEF ProcessSocket, RemoveConnection, WakeSender, Woken, k, TypeCtl
                <5>4. closed' \in BOOLEAN
                    BY <1>6, <2>3, <3>6, <1>0 DEF ProcessSocket, RemoveConnection, WakeSender, Woken, k, TypeCtl
                <5>5. gwaker' \in BOOLEAN
                    BY <1>6, <2>3, <3>6, <1>0 DEF ProcessSocket, RemoveConnection, WakeSender, Woken, k, TypeCtl
                <5>6. spc' \in SenderStates
                    BY <1>6, <2>3, <3>6, <1>0 DEF ProcessSocket, RemoveConnection, WakeSender, Woken, k, TypeCtl, SenderStates
                <5>7. snotified' \in BOOLEAN
                    BY <1>6, <2>3, <3>6, <1>0 DEF ProcessSocket, RemoveConnection, WakeSender, Woken, k, TypeCtl
                <5>8. /\ peer' \in {"Streaming", "Closed"}
                      /\ new_conn' \in BOOLEAN
                      /\ lpc' \in {"Poll", "Check", "Parked", "Query"}
                      /\ lwaker' \in BOOLEAN
                    BY <5>1, <1>0 DEF TypeCtl
                <5>9. /\ lnotified' \in BOOLEAN
                      /\ gproc' \in {"None", "Running", "Exited"}
                      /\ hpc' \in {"None", "Select", "Killing", "Reap", "Offline", "Finished"}
                      /\ kill' \in {"None", "Term", "Kill"}
                    BY <5>1, <1>0 DEF TypeCtl
                <5>10. QED
                    BY <5>2, <5>3, <5>4, <5>5, <5>6, <5>7, <5>8, <5>9, TypeCtlStep
            <4>3. Numbered' /\ BatchShape' /\ Handoff'
                BY <2>1, <3>1, <3>2, <4>1 DEF IInv, Numbered, BatchShape, Handoff
            <4>4. QED
                BY <3>5, <4>2, <4>3, TypeJoin DEF IInv
        <3>7. CASE ~(k < Room /\ peer = "Closed")
            <4>1. /\ UNCHANGED <<conn, closed, sock_closed>>
                  /\ spc' = spc \/ (spc = "Parked" /\ spc' = "Poll")
                BY <1>6, <2>3, <3>7 DEF ProcessSocket, ProcessedWake, WakeSender,
                                        Woken, k
            <4>2. TypeCtl'
                <5>1. /\ peer' = peer /\ conn' = conn /\ sock_closed' = sock_closed /\ closed' = closed
                      /\ new_conn' = new_conn /\ lpc' = lpc /\ lwaker' = lwaker /\ lnotified' = lnotified
                      /\ gproc' = gproc /\ hpc' = hpc /\ kill' = kill
                    BY <1>6, <2>3, <3>7 DEF ProcessSocket, ProcessedWake, WakeSender, Woken, k, peerVars, srtVars, sharedVars, listenVars, senderVars, gpacVars
                <5>2. gwaker' \in BOOLEAN
                    BY <1>6, <2>3, <3>7, <1>0 DEF ProcessSocket, ProcessedWake, WakeSender, Woken, k, TypeCtl
                <5>3. spc' \in SenderStates
                    BY <1>6, <2>3, <3>7, <1>0 DEF ProcessSocket, ProcessedWake, WakeSender, Woken, k, TypeCtl, SenderStates
                <5>4. snotified' \in BOOLEAN
                    BY <1>6, <2>3, <3>7, <1>0 DEF ProcessSocket, ProcessedWake, WakeSender, Woken, k, TypeCtl
                <5>5. /\ peer' \in {"Streaming", "Closed"}
                      /\ conn' \in {"Listening", "Open", "Removed"}
                      /\ sock_closed' \in BOOLEAN
                      /\ closed' \in BOOLEAN
                    BY <5>1, <1>0 DEF TypeCtl
                <5>6. /\ new_conn' \in BOOLEAN
                      /\ lpc' \in {"Poll", "Check", "Parked", "Query"}
                      /\ lwaker' \in BOOLEAN
                      /\ lnotified' \in BOOLEAN
                    BY <5>1, <1>0 DEF TypeCtl
                <5>7. /\ gproc' \in {"None", "Running", "Exited"}
                      /\ hpc' \in {"None", "Select", "Killing", "Reap", "Offline", "Finished"}
                      /\ kill' \in {"None", "Term", "Kill"}
                    BY <5>1, <1>0 DEF TypeCtl
                <5>8. QED
                    BY <5>2, <5>3, <5>4, <5>5, <5>6, <5>7, TypeCtlStep
            <4>3. BatchShape' /\ Handoff'
                BY <2>1, <4>1 DEF IInv, BatchShape, Handoff
            <4>4. recvd' <= sent
                BY <2>1, <3>1, <3>2, <1>0 DEF TypeData
            <4>5. /\ \A i \in 1 .. Len(delivered') : delivered'[i] = i
                  /\ \A i \in 1 .. Len(batch') : batch'[i] = Len(delivered') + i
                BY <2>1 DEF IInv, Numbered
            <4>6. ~closed' /\ spc' \notin {"Err", "Cancelled"} =>
                      /\ Len(delivered') + Len(batch') + Len(packets') = recvd'
                      /\ \A i \in 1 .. Len(packets') :
                             packets'[i] = Len(delivered') + Len(batch') + i
                <5>1. SUFFICES ASSUME ~closed', spc' \notin {"Err", "Cancelled"}
                               PROVE  /\ Len(delivered') + Len(batch') + Len(packets') = recvd'
                                      /\ \A i \in 1 .. Len(packets') :
                                             packets'[i] = Len(delivered') + Len(batch') + i
                    OBVIOUS
                <5>2. ~closed /\ spc \notin {"Err", "Cancelled"}
                    BY <4>1, <5>1
                <5>3. /\ Len(delivered) + Len(batch) + Len(packets) = recvd
                      /\ \A i \in 1 .. Len(packets) :
                             packets[i] = Len(delivered) + Len(batch) + i
                    BY <5>2 DEF IInv, Numbered
                <5>0. /\ Len(delivered) \in Nat /\ Len(batch) \in Nat /\ Len(packets) \in Nat
                      /\ k \in Nat /\ recvd \in Nat
                    BY <3>1, <1>0 DEF TypeData
                <5>7. delivered' = delivered /\ batch' = batch
                    BY <2>1
                <5>8. Len(packets') = Len(packets) + k /\ recvd' = recvd + k
                    BY <3>2, <3>4
                <5>9. Len(delivered') = Len(delivered) /\ Len(batch') = Len(batch)
                    BY <5>7
                <5>10. Len(delivered) + Len(batch) + Len(packets) + k = recvd + k
                    BY <5>0, <5>3
                <5>4. Len(delivered') + Len(batch') + Len(packets') = recvd'
                    BY <5>8, <5>9, <5>10, <5>0
                <5>5. \A i \in 1 .. Len(packets') :
                          packets'[i] = Len(delivered') + Len(batch') + i
                    <6>1. TAKE i \in 1 .. Len(packets')
                    <6>5. /\ i \in Nat /\ 1 <= i /\ i <= Len(packets) + k
                          /\ packets'[i] = IF i <= Len(packets) THEN packets[i]
                                           ELSE recvd + (i - Len(packets))
                        BY <3>4, <5>0
                    <6>2. CASE i <= Len(packets)
                        <7>1. packets[i] = Len(delivered) + Len(batch) + i
                            BY <5>3, <6>2, <6>5
                        <7>2. QED
                            BY <7>1, <5>9, <6>2, <6>5
                    <6>3. CASE ~(i <= Len(packets))
                        BY <5>0, <5>3, <5>9, <6>3, <6>5
                    <6>4. QED
                        BY <6>2, <6>3
                <5>6. QED
                    BY <5>4, <5>5
            <4>7. TypeOK'
                BY <3>5, <4>2, TypeJoin
            <4>8. Numbered'
                <5>1. recvd' <= sent'
                    BY <2>1, <4>4
                <5>2. QED
                    BY <5>1, <4>5, <4>6 DEF Numbered
            <4>9. QED
                BY <3>5, <4>3, <4>7, <4>8 DEF IInv
        <3>8. QED
            BY <3>6, <3>7
    <2>4. QED
        BY <2>2, <2>3
<1>9. CASE \E ok \in BOOLEAN : ListenQueryDone(ok)
    <2>1. PICK ok \in BOOLEAN : ListenQueryDone(ok)
        BY <1>9
    <2>2. lpc = "Query" /\ spc = "Idle" /\ batch = <<>> /\ ~new_conn /\ conn # "Listening"
        BY <2>1 DEF ListenQueryDone, IInv, Handoff, BatchShape
    <2>3. UNCHANGED <<sent, recvd, packets, batch, delivered, new_conn, conn>> /\ lpc' = "Poll"
        BY <2>1 DEF ListenQueryDone, peerVars, srtVars, sharedVars, listenVars, senderVars, gpacVars
    <2>4. CASE ok
        <3>1. spc' = "Poll" /\ hpc' = "Select" /\ closed' = closed
            BY <2>1, <2>4 DEF ListenQueryDone
        <3>2. TypeCtl'
            <4>1. /\ peer' = peer /\ conn' = conn /\ sock_closed' = sock_closed /\ closed' = closed
                  /\ new_conn' = new_conn /\ lwaker' = lwaker /\ lnotified' = lnotified /\ gwaker' = gwaker
                  /\ snotified' = snotified /\ kill' = kill
                BY <2>1, <2>4 DEF ListenQueryDone, peerVars, srtVars, sharedVars, listenVars, senderVars, gpacVars
            <4>2. lpc' \in {"Poll", "Check", "Parked", "Query"}
                BY <2>1, <2>4, <1>0 DEF ListenQueryDone, TypeCtl
            <4>3. gproc' \in {"None", "Running", "Exited"}
                BY <2>1, <2>4, <1>0 DEF ListenQueryDone, TypeCtl
            <4>4. hpc' \in {"None", "Select", "Killing", "Reap", "Offline", "Finished"}
                BY <2>1, <2>4, <1>0 DEF ListenQueryDone, TypeCtl
            <4>5. spc' \in SenderStates
                BY <2>1, <2>4, <1>0 DEF ListenQueryDone, TypeCtl, SenderStates
            <4>6. /\ peer' \in {"Streaming", "Closed"}
                  /\ conn' \in {"Listening", "Open", "Removed"}
                  /\ sock_closed' \in BOOLEAN
                  /\ closed' \in BOOLEAN
                BY <4>1, <1>0 DEF TypeCtl
            <4>7. /\ new_conn' \in BOOLEAN
                  /\ lwaker' \in BOOLEAN
                  /\ lnotified' \in BOOLEAN
                  /\ gwaker' \in BOOLEAN
                BY <4>1, <1>0 DEF TypeCtl
            <4>8. /\ snotified' \in BOOLEAN
                  /\ kill' \in {"None", "Term", "Kill"}
                BY <4>1, <1>0 DEF TypeCtl
            <4>9. QED
                BY <4>2, <4>3, <4>4, <4>5, <4>6, <4>7, <4>8, TypeCtlStep
        <3>3. TypeData' /\ BacklogBounded' /\ Numbered' /\ BatchShape' /\ Handoff'
            BY <2>2, <2>3, <3>1, <1>0 DEF IInv, TypeData, BacklogBounded, Numbered,
                                         BatchShape, Handoff
        <3>4. QED
            BY <3>2, <3>3, TypeJoin DEF IInv
    <2>5. CASE ~ok
        <3>1. closed' = TRUE /\ spc' = spc /\ hpc' = hpc
            BY <2>1, <2>5 DEF ListenQueryDone
        <3>2. TypeCtl'
            <4>1. /\ peer' = peer /\ conn' = conn /\ sock_closed' = sock_closed /\ new_conn' = new_conn
                  /\ lwaker' = lwaker /\ lnotified' = lnotified /\ spc' = spc /\ gwaker' = gwaker
                  /\ snotified' = snotified /\ gproc' = gproc /\ hpc' = hpc /\ kill' = kill
                BY <2>1, <2>5 DEF ListenQueryDone, peerVars, srtVars, sharedVars, listenVars, senderVars, gpacVars
            <4>2. lpc' \in {"Poll", "Check", "Parked", "Query"}
                BY <2>1, <2>5, <1>0 DEF ListenQueryDone, TypeCtl
            <4>3. closed' \in BOOLEAN
                BY <2>1, <2>5, <1>0 DEF ListenQueryDone, TypeCtl
            <4>4. /\ peer' \in {"Streaming", "Closed"}
                  /\ conn' \in {"Listening", "Open", "Removed"}
                  /\ sock_closed' \in BOOLEAN
                  /\ new_conn' \in BOOLEAN
                BY <4>1, <1>0 DEF TypeCtl
            <4>5. /\ lwaker' \in BOOLEAN
                  /\ lnotified' \in BOOLEAN
                  /\ spc' \in SenderStates
                  /\ gwaker' \in BOOLEAN
                BY <4>1, <1>0 DEF TypeCtl
            <4>6. /\ snotified' \in BOOLEAN
                  /\ gproc' \in {"None", "Running", "Exited"}
                  /\ hpc' \in {"None", "Select", "Killing", "Reap", "Offline", "Finished"}
                  /\ kill' \in {"None", "Term", "Kill"}
                BY <4>1, <1>0 DEF TypeCtl
            <4>7. QED
                BY <4>2, <4>3, <4>4, <4>5, <4>6, TypeCtlStep
        <3>3. TypeData' /\ BacklogBounded' /\ Numbered' /\ BatchShape' /\ Handoff'
            BY <2>2, <2>3, <3>1, <1>0 DEF IInv, TypeData, BacklogBounded, Numbered,
                                         BatchShape, Handoff
        <3>4. QED
            BY <3>2, <3>3, TypeJoin DEF IInv
    <2>6. QED
        BY <2>4, <2>5
<1>10. CASE SenderRegister
    <2>1. UNCHANGED <<sent, recvd, packets, batch, delivered, closed, new_conn, lpc,
                      conn, hpc>>
        BY <1>10 DEF SenderRegister, peerVars, srtVars, sharedVars, listenVars, senderVars, gpacVars
    <2>2. spc = "Poll" /\ spc' = "Check"
        BY <1>10 DEF SenderRegister
    <2>3. TypeCtl'
        <3>1. /\ peer' = peer /\ conn' = conn /\ sock_closed' = sock_closed /\ closed' = closed
              /\ new_conn' = new_conn /\ lpc' = lpc /\ lwaker' = lwaker /\ lnotified' = lnotified
              /\ snotified' = snotified /\ gproc' = gproc /\ hpc' = hpc /\ kill' = kill
            BY <1>10 DEF SenderRegister, peerVars, srtVars, sharedVars, listenVars, senderVars, gpacVars
        <3>2. spc' \in SenderStates
            BY <1>10, <1>0 DEF SenderRegister, TypeCtl, SenderStates
        <3>3. gwaker' \in BOOLEAN
            BY <1>10, <1>0 DEF SenderRegister, TypeCtl
        <3>4. /\ peer' \in {"Streaming", "Closed"}
              /\ conn' \in {"Listening", "Open", "Removed"}
              /\ sock_closed' \in BOOLEAN
              /\ closed' \in BOOLEAN
            BY <3>1, <1>0 DEF TypeCtl
        <3>5. /\ new_conn' \in BOOLEAN
              /\ lpc' \in {"Poll", "Check", "Parked", "Query"}
              /\ lwaker' \in BOOLEAN
              /\ lnotified' \in BOOLEAN
            BY <3>1, <1>0 DEF TypeCtl
        <3>6. /\ snotified' \in BOOLEAN
              /\ gproc' \in {"None", "Running", "Exited"}
              /\ hpc' \in {"None", "Select", "Killing", "Reap", "Offline", "Finished"}
              /\ kill' \in {"None", "Term", "Kill"}
            BY <3>1, <1>0 DEF TypeCtl
        <3>7. QED
            BY <3>2, <3>3, <3>4, <3>5, <3>6, TypeCtlStep
    <2>4. TypeData' /\ BacklogBounded' /\ Numbered' /\ BatchShape' /\ Handoff'
        BY <2>1, <2>2, <1>0 DEF IInv, TypeData, BacklogBounded, Numbered,
                               BatchShape, Handoff
    <2>5. QED
        BY <2>3, <2>4, TypeJoin DEF IInv
<1>18. CASE UNCHANGED vars
    BY <1>18 DEF vars, peerVars, srtVars, sharedVars, listenVars, senderVars, gpacVars, IInv, TypeOK, BacklogBounded, BatchShape, Handoff,
                 Numbered
<1>19. QED
    BY <1>1, <1>2, <1>3, <1>4, <1>5, <1>6, <1>7, <1>8, <1>9, <1>10, <1>11, <1>12,
       <1>13, <1>14, <1>15, <1>16, <1>17, <1>18
    DEF Next, SrtThread, ListenTask, SenderTask, Supervisor

-----------------------------------------------------------------------------
(* IInv holds in every reachable state.                                     *)
LEMMA IInvHolds == Spec => []IInv
<1>1. Init => IInv
    BY InitIInv
<1>2. IInv /\ [Next]_vars => IInv'
    BY NextIInv
<1>3. QED
    BY <1>1, <1>2, PTL DEF Spec

(* Every variable keeps its type through every interleaving of the srt     *)
(* thread, the gpac::listen task, handle_gpac_sender and the supervisor in  *)
(* handle_gpac, whatever PacketMax and BacklogMax are.                      *)
THEOREM SrtTypeCorrect == Spec => []TypeOK
<1>1. IInv => TypeOK
    BY DEF IInv
<1>2. QED
    BY <1>1, IInvHolds, PTL

(* gpac is fed the stream in order, and while the connection is open and   *)
(* its sender runs, what was written, the sender's batch and the queue are  *)
(* exactly the packets received: the swap in handle_gpac_sender and the     *)
(* pushes of process_socket never lose, repeat or reorder one.              *)
THEOREM StreamInOrder == Spec => []PipelineExact
<1>1. IInv => PipelineExact
    <2> SUFFICES ASSUME IInv PROVE PipelineExact
        OBVIOUS
    <2>1. \A i \in 1 .. Len(delivered) : delivered[i] = i
        BY DEF IInv, Numbered
    <2>2. ASSUME ~closed, spc \notin {"Err", "Cancelled"}
          PROVE  delivered \o batch \o packets = [i \in 1 .. recvd |-> i]
        <3>1. /\ Len(delivered) + Len(batch) + Len(packets) = recvd
              /\ \A i \in 1 .. Len(packets) :
                     packets[i] = Len(delivered) + Len(batch) + i
              /\ \A i \in 1 .. Len(batch) : batch[i] = Len(delivered) + i
            BY <2>2 DEF IInv, Numbered
        <3>2. /\ delivered \in Seq(1 .. PacketMax) /\ batch \in Seq(1 .. PacketMax)
              /\ packets \in Seq(1 .. PacketMax) /\ recvd \in Nat
            BY DEF IInv, TypeOK
        <3>3. NumberedOn(delivered, batch, packets, recvd)
            BY <2>1, <3>1 DEF NumberedOn
        <3>4. QED
            BY <3>2, <3>3, NumberedRun
    <2>3. QED
        BY <2>1, <2>2 DEF PipelineExact
<1>2. QED
    BY <1>1, IInvHolds, PTL
-----------------------------------------------------------------------------
(* NoLostWakeup is not inductive: a parked sender must also still hold its *)
(* registered waker, and a sender between its register and its check must  *)
(* hold it or have been notified.                                          *)
Wakeup ==
    /\ spc = "Parked" => gwaker /\ packets = <<>> /\ ~closed
    /\ spc = "Check" => gwaker \/ snotified

(* AtomicWaker::wake on the sender's waker never leaves it parked, and     *)
(* leaves a sender in its check either registered or notified.             *)
LEMMA WakeClears ==
    ASSUME Wakeup, WakeSender
    PROVE  /\ spc' # "Parked"
           /\ spc' = "Check" => gwaker' \/ snotified'
BY DEF Wakeup, WakeSender, Woken

(* Every step keeps Wakeup.                                                *)
LEMMA WakeupStep == IInv /\ Wakeup /\ [Next]_vars => Wakeup'
<1> SUFFICES ASSUME IInv, Wakeup, [Next]_vars PROVE Wakeup'
    OBVIOUS
<1>1. CASE PeerSend \/ PeerClose \/ GpacExit \/ Accept \/ ListenRegister
           \/ ListenTake \/ KillTimer \/ Reaped \/ GoOffline
    <2>1. UNCHANGED <<spc, gwaker, snotified, packets, closed>>
        BY <1>1 DEF PeerSend, PeerClose, GpacExit, Accept, ListenRegister,
                    ListenTake, KillTimer, Reaped, GoOffline, WakeListener,
                    sharedVars, senderVars
    <2>. QED
        BY <2>1 DEF Wakeup
<1>2. CASE RemoveBroken \/ ProcessSocket
    <2>1. WakeSender
        BY <1>2 DEF RemoveBroken, ProcessSocket, RemoveConnection, ProcessedWake
    <2>. QED
        BY <2>1, WakeClears DEF Wakeup
<1>3. CASE \E ok \in BOOLEAN : ListenQueryDone(ok)
    <2>1. spc = "Idle"
        BY <1>3 DEF ListenQueryDone, IInv, Handoff
    <2>2. spc' \in {"Idle", "Poll"}
        BY <1>3, <2>1 DEF ListenQueryDone
    <2>. QED
        BY <2>2 DEF Wakeup
<1>4. CASE SenderRegister
    BY <1>4 DEF SenderRegister, Wakeup
<1>5. CASE SenderCheck
    <2>1. CASE packets = <<>> /\ ~closed
        <3>2. /\ spc' = IF snotified THEN "Poll" ELSE "Parked"
              /\ UNCHANGED <<gwaker, packets, closed>>
            BY <1>5, <2>1 DEF SenderCheck
        <3>3. gwaker \/ snotified
            BY <1>5 DEF SenderCheck, Wakeup
        <3>. QED
            BY <2>1, <3>2, <3>3 DEF Wakeup
    <2>4. CASE ~(packets = <<>> /\ ~closed)
        BY <1>5, <2>4 DEF SenderCheck, Wakeup
    <2>. QED
        BY <2>1, <2>4
<1>6. CASE SenderWrite \/ PidfdFired
    <2>1. spc' \in {"Poll", "Sending", "Err", "Ok", "Cancelled"}
        BY <1>6 DEF SenderWrite, PidfdFired
    <2>. QED
        BY <2>1 DEF Wakeup
<1>7. CASE SenderFinished
    BY <1>7 DEF SenderFinished, senderVars, Wakeup
<1>8. CASE UNCHANGED vars
    BY <1>8 DEF vars, sharedVars, senderVars, Wakeup
<1>. QED
    BY <1>1, <1>2, <1>3, <1>4, <1>5, <1>6, <1>7, <1>8
       DEF Next, SrtThread, ListenTask, SenderTask, Supervisor

(* No wakeup of handle_gpac_sender is lost: whenever Packets holds a packet *)
(* or is marked closed, the sender task is not left parked, for every       *)
(* PacketMax and BacklogMax, however the srt thread's pushes and removals   *)
(* interleave with the sender's register, check and swap.                  *)
THEOREM SenderNeverStranded == Spec => []NoLostWakeup
<1>1. Init => Wakeup
    BY DEF Init, Wakeup
<1>2. IInv /\ Wakeup /\ [Next]_vars => IInv' /\ Wakeup'
    BY NextIInv, WakeupStep
<1>3. Wakeup => NoLostWakeup
    BY DEF Wakeup, NoLostWakeup
<1>. QED
    BY <1>1, <1>2, <1>3, InitIInv, PTL DEF Spec
=============================================================================

---------------------------- MODULE InFlightProofs ----------------------------
(***************************************************************************)
(* Proofs about InFlight for every set of requests and every bound on an  *)
(* upload: what the file of a running PUT holds.                          *)
(***************************************************************************)
EXTENDS InFlight, SequenceTheorems, Functions, TLAPS

(* The types the argument needs; file bytes are tagged with any position. *)
Typing ==
    /\ entry \in Puts \cup {NoPut}
    /\ nino \in Nat
    /\ content \in Seq(Seq(Puts \X Nat))
    /\ Len(content) = nino
    /\ ino \in 0 .. nino
    /\ produced \in Nat
    /\ phase \in {"Running", "ConsumerSettled", "Terminated"}
    /\ outcome \in {"None", "Ok", "Err"}

(* How the file of the running PUT follows its Ring: the consumer future  *)
(* is pending exactly while no outcome is known, an Ok outcome came only  *)
(* after the whole body was stored, and the PUT's inode holds the stored  *)
(* prefix of its own upload and nothing else.                             *)
FileCoupling ==
    /\ phase = "Running" <=> outcome = "None"
    /\ outcome = "Ok" => Len(stored) = produced
    /\ entry # NoPut =>
          /\ pino \in 1 .. nino
          /\ \E n \in 0 .. produced : /\ stored = Ring!Upload(n)
                                      /\ content[pino] = Written(entry, n)

IInv == Typing /\ FileCoupling

-----------------------------------------------------------------------------
(* The durable copy and the file bytes of an upload's first n bytes are   *)
(* sequences of length n.                                                  *)
LEMMA UploadLen ==
    ASSUME NEW n \in Nat
    PROVE  /\ Ring!Upload(n) \in Seq(Nat)
           /\ Len(Ring!Upload(n)) = n
<1>1. Ring!Upload(n) \in [1 .. n -> Nat]
    BY DEF Ring!Upload
<1>. QED
    BY <1>1, SeqDef DEF Ring!Upload

LEMMA WrittenLen ==
    ASSUME NEW p \in Puts, NEW n \in Nat
    PROVE  /\ Written(p, n) \in Seq(Puts \X Nat)
           /\ Len(Written(p, n)) = n
<1>1. Written(p, n) \in [1 .. n -> Puts \X Nat]
    BY DEF Written
<1>. QED
    BY <1>1, SeqDef DEF Written

(* A fresh or truncated file and a fresh Ring agree: both are empty.      *)
LEMMA EmptyPrefix ==
    ASSUME NEW p \in Puts
    PROVE  Ring!Upload(0) = <<>> /\ Written(p, 0) = <<>>
<1>1. Len(Ring!Upload(0)) = 0 /\ Len(Written(p, 0)) = 0
    BY UploadLen, WrittenLen
<1>. QED
    BY <1>1, UploadLen, WrittenLen, EmptySeq

(* write_from_ring's next write at offset n, of bytes up to k, turns the  *)
(* file holding the first n bytes into the file holding the first k.      *)
LEMMA WriteAtGrows ==
    ASSUME NEW p \in Puts, NEW n \in Nat, NEW k \in Nat, n < k
    PROVE  WriteAt(Written(p, n), p, k) = Written(p, k)
<1>1. Len(Written(p, n)) = n
    BY WrittenLen
<1>2. MaxOf(Len(Written(p, n)), k) = k
    BY <1>1 DEF MaxOf
<1>. QED
    BY <1>2 DEF WriteAt, Written

-----------------------------------------------------------------------------
(* The invariant holds initially.                                          *)
LEMMA InitIInv == Init => IInv
BY InFlightAssumption DEF Init, Ring!Init, IInv, Typing, FileCoupling

(* A step that leaves the PUT, the file system and the Ring's consumer    *)
(* alone keeps the invariant.                                             *)
LEMMA FrameIInv ==
    ASSUME IInv,
           UNCHANGED <<entry, ino, nino, content, pino,
                       phase, produced, stored, outcome>>
    PROVE  IInv'
BY DEF IInv, Typing, FileCoupling

(* The consumer future resolves with res: the phase leaves Running        *)
(* exactly as the outcome is set, and Ok only with the body all stored.   *)
LEMMA ConsumerDoneIInv ==
    ASSUME IInv, NEW res \in {"Ok", "Err"}, Ring!ConsumerDone(res),
           UNCHANGED <<entry, ino, nino, content, pino>>
    PROVE  IInv'
<1>1. /\ phase = "Running" /\ phase' # "Running"
      /\ phase' \in {"ConsumerSettled", "Terminated"}
      /\ outcome' = res
      /\ UNCHANGED <<produced, stored>>
      /\ res = "Ok" => Len(stored) = produced
    BY DEF Ring!ConsumerDone
<1>. QED
    BY <1>1 DEF IInv, Typing, FileCoupling

(* The file system's part of the types.                                   *)
FilesTyped ==
    /\ nino \in Nat
    /\ content \in Seq(Seq(Puts \X Nat))
    /\ Len(content) = nino
    /\ ino \in 0 .. nino

(* put.rs's open, with create and truncate, leaves the files typed and    *)
(* the opened inode empty, whether it made the inode or truncated it.     *)
LEMMA OpenPutFileEmpty ==
    ASSUME FilesTyped, OpenPutFile
    PROVE  /\ FilesTyped'
           /\ pino' \in 1 .. nino'
           /\ content'[pino'] = <<>>
<1>1. CASE ino = 0
    <2>1. /\ nino' = nino + 1 /\ ino' = nino + 1 /\ pino' = nino + 1
          /\ content' = Append(content, <<>>)
        BY <1>1 DEF OpenPutFile
    <2>2. /\ content' \in Seq(Seq(Puts \X Nat))
          /\ Len(content') = nino'
          /\ content'[pino'] = <<>>
        BY <2>1, AppendProperties, EmptySeq DEF FilesTyped
    <2>. QED
        BY <2>1, <2>2 DEF FilesTyped
<1>2. CASE ino # 0
    <2>1. /\ UNCHANGED <<ino, nino>> /\ pino' = ino
          /\ content' = [content EXCEPT ![ino] = <<>>]
        BY <1>2 DEF OpenPutFile, OpenForWrite
    <2>2. ino \in 1 .. Len(content) /\ <<>> \in Seq(Puts \X Nat)
        BY <1>2 DEF FilesTyped
    <2>3. /\ content' \in Seq(Seq(Puts \X Nat))
          /\ Len(content') = Len(content)
          /\ content'[ino] = <<>>
        BY <2>1, <2>2, ExceptSeq DEF FilesTyped
    <2>. QED
        BY <2>1, <2>3 DEF FilesTyped
<1>. QED
    BY <1>1, <1>2

(* Every step keeps the invariant.                                         *)
LEMMA NextIInv == IInv /\ [Next]_vars => IInv'
<1> SUFFICES ASSUME IInv, [Next]_vars PROVE IInv'
    OBVIOUS
<1> USE InFlightAssumption
<1>0. FilesTyped
    BY DEF IInv, Typing, FilesTyped
<1>1. ASSUME NEW p \in Puts, PutConflict(p) \/ PutOpenFail(p) PROVE IInv'
    BY <1>1, FrameIInv DEF PutConflict, PutOpenFail, fileVars, ringVars
<1>2. ASSUME NEW p \in Puts, PutStart(p) PROVE IInv'
    <2>1. /\ entry = NoPut /\ entry' = p
          /\ phase' = "Running" /\ outcome' = "None"
          /\ produced' = 0 /\ stored' = <<>>
          /\ OpenPutFile
        BY <1>2 DEF PutStart, RingStart
    <2>2. Ring!Upload(0) = <<>> /\ Written(p, 0) = <<>>
        BY EmptyPrefix
    <2>3. /\ FilesTyped'
          /\ pino' \in 1 .. nino'
          /\ content'[pino'] = <<>>
        BY <1>0, <2>1, OpenPutFileEmpty
    <2>. QED
        BY <2>1, <2>2, <2>3 DEF IInv, Typing, FileCoupling, FilesTyped
<1>12. ASSUME NEW p \in Puts, PutAllocFail(p) PROVE IInv'
    <2>1. /\ entry = NoPut /\ entry' = NoPut
          /\ UNCHANGED <<phase, produced, stored, outcome>>
          /\ OpenPutFile
        BY <1>12 DEF PutAllocFail, ringVars
    <2>2. FilesTyped'
        BY <1>0, <2>1, OpenPutFileEmpty
    <2>. QED
        BY <2>1, <2>2 DEF IInv, Typing, FileCoupling, FilesTyped
<1>13. CASE ServerPanic
    <2>1. /\ entry' = NoPut
          /\ UNCHANGED <<ino, nino, content, phase, produced, stored, outcome>>
        BY <1>13 DEF ServerPanic, fileVars, ringVars
    <2>. QED
        BY <2>1 DEF IInv, Typing, FileCoupling
<1>3. CASE PutTake
    BY <1>3, FrameIInv DEF PutTake, Ring!Attach, fileVars
<1>4. CASE PutResolve
    <2>1. /\ entry' = NoPut
          /\ UNCHANGED <<ino, nino, content, pino, produced, stored>>
        BY <1>4 DEF PutResolve, fileVars, Ring!ConsumerDone, Ring!Finish
    <2>2. /\ phase' # "Running"
          /\ outcome' # "None"
          /\ outcome' = "Ok" => Len(stored) = produced
        BY <1>4 DEF PutResolve, Ring!ConsumerDone, Ring!Finish,
                    IInv, FileCoupling
    <2>3. phase' \in {"Running", "ConsumerSettled", "Terminated"}
          /\ outcome' \in {"None", "Ok", "Err"}
        BY <1>4 DEF PutResolve, Ring!ConsumerDone, Ring!Finish, IInv, Typing
    <2>. QED
        BY <2>1, <2>2, <2>3 DEF IInv, Typing, FileCoupling
<1>5. CASE RingSource
    <2>1. CASE \E n \in 1 .. UploadMax : Ring!Accept(n)
        <3>1. PICK m \in 1 .. UploadMax : Ring!Accept(m)
            BY <2>1
        <3>2. /\ phase = "Running" /\ produced < m /\ produced' = m
              /\ UNCHANGED <<phase, stored, outcome>>
            BY <3>1 DEF Ring!Accept
        <3>3. UNCHANGED <<entry, ino, nino, content, pino>>
            BY <1>5 DEF RingSource, httpVars, fileVars
        <3>. QED
            BY <3>2, <3>3 DEF IInv, Typing, FileCoupling
    <2>2. CASE \E e \in {"Eof", "Err"} : Ring!Close(e)
        BY <1>5, <2>2, FrameIInv DEF RingSource, Ring!Close, httpVars, fileVars
    <2>. QED
        BY <1>5, <2>1, <2>2 DEF RingSource
<1>6. CASE RingStore
    <2>1. PICK k \in 1 .. UploadMax :
                 /\ Ring!Store(k)
                 /\ content' = [content EXCEPT ![pino] = WriteAt(@, entry, k)]
        BY <1>6 DEF RingStore
    <2>2. /\ entry # NoPut /\ phase = "Running"
          /\ Len(stored) < k /\ k <= produced
          /\ stored' = Ring!Upload(k)
          /\ UNCHANGED <<entry, ino, nino, pino, phase, produced, outcome>>
        BY <1>6, <2>1 DEF RingStore, Ring!Store, httpVars
    <2>3. PICK n \in 0 .. produced : /\ stored = Ring!Upload(n)
                                     /\ content[pino] = Written(entry, n)
        BY <2>2 DEF IInv, FileCoupling
    <2>4. n < k
        BY <2>2, <2>3, UploadLen
    <2>5. WriteAt(content[pino], entry, k) = Written(entry, k)
        BY <2>2, <2>3, <2>4, WriteAtGrows DEF IInv, Typing
    <2>6. /\ pino \in 1 .. Len(content)
          /\ content' = [content EXCEPT ![pino] = Written(entry, k)]
        BY <2>1, <2>2, <2>5 DEF IInv, Typing, FileCoupling
    <2>7. /\ content' \in Seq(Seq(Puts \X Nat))
          /\ Len(content') = Len(content)
          /\ content'[pino] = Written(entry, k)
        <3>1. entry \in Puts /\ k \in Nat
            BY <2>2 DEF IInv, Typing
        <3>2. Written(entry, k) \in Seq(Puts \X Nat)
            BY <3>1, WrittenLen
        <3>. QED
            BY <2>6, <3>2, ExceptSeq DEF IInv, Typing
    <2>. QED
        BY <2>2, <2>7 DEF IInv, Typing, FileCoupling
<1>7. CASE ConsumerSettles
    BY <1>7, ConsumerDoneIInv DEF ConsumerSettles, httpVars, fileVars
<1>8. ASSUME NEW g \in Gets, RingDeliver(g) \/ RingDetach(g) PROVE IInv'
    BY <1>8, FrameIInv DEF RingDeliver, RingDetach, Ring!Deliver,
                           Ring!Detach, httpVars, fileVars
<1>9. ASSUME NEW g \in Gets, GetQueue(g) \/ GetAtRest(g) \/ AtRestRead(g)
      PROVE  IInv'
    BY <1>9, FrameIInv DEF GetQueue, GetAtRest, AtRestRead, fileVars, ringVars
<1>10. ASSUME NEW d \in Deletes, Delete(d) PROVE IInv'
    <2>1. /\ ino' \in {0, ino}
          /\ UNCHANGED <<entry, nino, content, pino, phase, produced, stored,
                         outcome>>
        BY <1>10 DEF Delete, ringVars
    <2>. QED
        BY <2>1 DEF IInv, Typing, FileCoupling
<1>11. CASE AwaitConnections \/ UNCHANGED vars
    BY <1>11, FrameIInv DEF AwaitConnections, vars, httpVars, fileVars, ringVars
<1>. QED
    BY <1>1, <1>2, <1>3, <1>4, <1>5, <1>6, <1>7, <1>8, <1>9, <1>10, <1>11,
       <1>12, <1>13
    DEF Next

-----------------------------------------------------------------------------
(* Once write_file has written the 201, the PUT's file holds exactly its  *)
(* own upload, for every number of PUTs, GETs and DELETEs and every       *)
(* upload length: truncate(true) drops what an earlier upload left, the   *)
(* in_flight_files entry keeps other PUTs off the file, and Ok needs      *)
(* every byte written.                                                    *)
THEOREM CreatedFileExact == Spec => []CreatedExact
<1>1. IInv => CreatedExact
    <2> SUFFICES ASSUME IInv, entry # NoPut, outcome = "Ok"
                 PROVE  content[pino] = Written(entry, produced)
        BY DEF CreatedExact
    <2>1. PICK n \in 0 .. produced : /\ stored = Ring!Upload(n)
                                     /\ content[pino] = Written(entry, n)
        BY DEF IInv, FileCoupling
    <2>2. n = produced
        BY <2>1, UploadLen DEF IInv, Typing, FileCoupling
    <2>. QED
        BY <2>1, <2>2
<1>. QED
    BY <1>1, InitIInv, NextIInv, PTL DEF Spec
-----------------------------------------------------------------------------
(* Who holds the path's in_flight_files entry and its channel.            *)
PutStates == {"Idle", "Conflict", "Failed", "Loop", "Returned", "Reset"}

GetStates == {"Idle", "Queued", "Tail", "AtRest", "Served", "Failed",
              "NotFound", "Dropped", "Reset"}

TailStates == {"Detached", "Attached", "Finished", "Failed"}

OwnTyping ==
    /\ entry \in Puts \cup {NoPut}
    /\ chan \in Seq(Gets)
    /\ ppc \in [Puts -> PutStates]
    /\ gpc \in [Gets -> GetStates]
    /\ tails \in [Gets -> TailStates]
    /\ phase \in {"Running", "ConsumerSettled", "Terminated"}

(* What keeps EntryOwned inductive: no channel outlives its entry (the    *)
(* receiver is dropped with the guard, or the process dies), try_send     *)
(* queues a GET once (only from Idle), and a GET that is not yet pushed   *)
(* has no reader in the Ring, so a detach never concerns a queued GET.    *)
Queueing ==
    /\ entry = NoPut => chan = <<>>
    /\ IsInjective(chan)
    /\ \A g \in Gets : gpc[g] \in {"Idle", "Queued"} => tails[g] = "Detached"

OInv == OwnTyping /\ EntryOwned /\ Queueing

(* x waits in the channel s.                                               *)
InChan(s, x) == \E i \in 1 .. Len(s) : s[i] = x

(* The select loop takes the head of a channel that queues each GET once: *)
(* the rest still queues each once, and holds every GET but the head.     *)
LEMMA TakeHead ==
    ASSUME NEW S, NEW s \in Seq(S), s # <<>>, IsInjective(s)
    PROVE  /\ IsInjective(Tail(s))
           /\ \A x : InChan(Tail(s), x) <=> x # Head(s) /\ InChan(s, x)
<1>1. /\ Tail(s) \in Seq(S)
      /\ Len(Tail(s)) = Len(s) - 1
      /\ \A i \in 1 .. Len(Tail(s)) : Tail(s)[i] = s[i + 1]
      /\ Len(s) \in Nat \ {0}
      /\ Head(s) = s[1]
    BY HeadTailProperties, EmptySeq
<1>2. IsInjective(Tail(s))
    BY <1>1 DEF IsInjective
<1>3. ASSUME NEW x PROVE InChan(Tail(s), x) <=> x # Head(s) /\ InChan(s, x)
    <2>1. ASSUME NEW i \in 1 .. Len(Tail(s)), Tail(s)[i] = x
          PROVE  x # Head(s) /\ InChan(s, x)
        <3>1. i + 1 \in 1 .. Len(s) /\ i + 1 # 1 /\ s[i + 1] = x
            BY <1>1, <2>1
        <3>2. s[i + 1] # s[1]
            BY <1>1, <3>1 DEF IsInjective
        <3>. QED
            BY <1>1, <3>1, <3>2 DEF InChan
    <2>2. ASSUME NEW i \in 1 .. Len(s), s[i] = x, x # Head(s)
          PROVE  InChan(Tail(s), x)
        <3>1. i - 1 \in 1 .. Len(Tail(s)) /\ Tail(s)[i - 1] = x
            BY <1>1, <2>2
        <3>. QED
            BY <3>1 DEF InChan
    <2>. QED
        BY <2>1, <2>2 DEF InChan
<1>. QED
    BY <1>2, <1>3

(* try_send appends a GET the channel does not hold.                      *)
LEMMA QueueAppend ==
    ASSUME NEW S, NEW s \in Seq(S), IsInjective(s), NEW g \in S, ~InChan(s, g)
    PROVE  /\ IsInjective(Append(s, g))
           /\ \A x : InChan(Append(s, g), x) <=> x = g \/ InChan(s, x)
<1>1. /\ Append(s, g) \in Seq(S)
      /\ Len(Append(s, g)) = Len(s) + 1
      /\ \A i \in 1 .. Len(s) : Append(s, g)[i] = s[i]
      /\ Append(s, g)[Len(s) + 1] = g
      /\ Len(s) \in Nat
    BY AppendProperties
<1>2. IsInjective(Append(s, g))
    BY <1>1 DEF IsInjective, InChan
<1>3. ASSUME NEW x PROVE InChan(Append(s, g), x) <=> x = g \/ InChan(s, x)
    BY <1>1 DEF InChan
<1>. QED
    BY <1>2, <1>3

(* The invariant holds initially: no entry, an empty channel, every       *)
(* request idle and every reader detached.                                *)
LEMMA InitOInv == Init => OInv
<1> SUFFICES ASSUME Init PROVE OInv
    OBVIOUS
<1>1. /\ entry = NoPut /\ chan = <<>>
      /\ ppc = [p \in Puts |-> "Idle"] /\ gpc = [g \in Gets |-> "Idle"]
      /\ tails = [g \in Gets |-> "Detached"] /\ phase = "Running"
    BY DEF Init, Ring!Init
<1>2. IsInjective(chan) /\ \A g : ~InChan(chan, g)
    BY <1>1 DEF IsInjective, InChan
<1>. QED
    BY <1>1, <1>2, InFlightAssumption
    DEF OInv, OwnTyping, EntryOwned, Queueing, InChan, PutStates, GetStates,
        TailStates

(* EntryOwned, with InChan for the channel's membership.                  *)
LEMMA EntryOwnedChan ==
    EntryOwned <=>
        /\ entry # NoPut => ppc[entry] = "Loop" /\ phase # "Terminated"
        /\ \A p \in Puts : ppc[p] = "Loop" => entry = p
        /\ \A g \in Gets : gpc[g] = "Queued" <=> InChan(chan, g)
BY DEF EntryOwned, InChan


(* OInv with the channel's membership as InChan.                          *)
Owned ==
    /\ OwnTyping
    /\ Queueing
    /\ entry # NoPut => ppc[entry] = "Loop" /\ phase # "Terminated"
    /\ \A p \in Puts : ppc[p] = "Loop" => entry = p
    /\ \A g \in Gets : gpc[g] = "Queued" <=> InChan(chan, g)

LEMMA OwnedIsOInv == Owned <=> OInv
BY DEF Owned, OInv, EntryOwned, InChan

(* A step that leaves the entry, the channel, the requests and the Ring's *)
(* readers and phase alone keeps Owned.                                   *)
LEMMA FrameOwned ==
    ASSUME Owned, UNCHANGED <<entry, chan, ppc, gpc, tails, phase>>
    PROVE  Owned'
BY DEF Owned, OwnTyping, Queueing, InChan

(* Every step keeps Owned.                                                 *)
LEMMA NextOwned == Owned /\ [Next]_vars => Owned'
<1> SUFFICES ASSUME Owned, [Next]_vars PROVE Owned'
    OBVIOUS
<1> USE InFlightAssumption
<1>1. ASSUME NEW p \in Puts, PutConflict(p) \/ PutOpenFail(p) PROVE Owned'
    <2>1. /\ ppc[p] = "Idle"
          /\ \E v \in {"Conflict", "Failed"} : ppc' = [ppc EXCEPT ![p] = v]
          /\ UNCHANGED <<entry, chan, gpc, tails, phase>>
        BY <1>1 DEF PutConflict, PutOpenFail, ringVars
    <2>. QED
        BY <2>1 DEF Owned, OwnTyping, Queueing, PutStates
<1>2. ASSUME NEW p \in Puts, PutStart(p) PROVE Owned'
    <2>1. /\ entry = NoPut /\ entry' = p /\ chan' = <<>>
          /\ ppc[p] = "Idle" /\ ppc' = [ppc EXCEPT ![p] = "Loop"]
          /\ phase' = "Running" /\ tails' = [g \in Gets |-> "Detached"]
          /\ UNCHANGED gpc
        BY <1>2 DEF PutStart, RingStart
    <2>2. \A g \in Gets : gpc[g] # "Queued"
        <3>1. chan = <<>>
            BY <2>1 DEF Owned, Queueing
        <3>. QED
            BY <3>1 DEF Owned, InChan
    <2>3. \A q \in Puts : ppc[q] # "Loop"
        BY <2>1 DEF Owned
    <2>4. IsInjective(chan') /\ \A g : ~InChan(chan', g)
        BY <2>1 DEF IsInjective, InChan
    <2>. QED
        BY <2>1, <2>2, <2>3, <2>4
        DEF Owned, OwnTyping, Queueing, PutStates, TailStates
<1>3. ASSUME NEW p \in Puts, PutAllocFail(p) PROVE Owned'
    <2>1. /\ entry = NoPut /\ ppc[p] = "Idle"
          /\ ppc' = [ppc EXCEPT ![p] = "Reset"]
          /\ gpc' = ConnectionsReset(gpc, {"Queued", "Tail", "AtRest"})
          /\ UNCHANGED <<entry, chan, tails, phase>>
        BY <1>3 DEF PutAllocFail, ringVars
    <2>2. chan = <<>> /\ \A g : ~InChan(chan, g)
        BY <2>1 DEF Owned, Queueing, InChan
    <2>3. /\ gpc' \in [Gets -> GetStates]
          /\ \A g \in Gets : gpc'[g] # "Queued"
          /\ \A g \in Gets : gpc'[g] = "Idle" => gpc[g] = "Idle"
        BY <2>1 DEF ConnectionsReset, Owned, OwnTyping, GetStates
    <2>. QED
        BY <2>1, <2>2, <2>3 DEF Owned, OwnTyping, Queueing, PutStates
<1>4. CASE ServerPanic
    <2>1. /\ entry' = NoPut /\ chan' = <<>>
          /\ ppc' = ConnectionsReset(ppc, {"Loop"})
          /\ gpc' = ConnectionsReset(gpc, {"Queued", "Tail", "AtRest"})
          /\ UNCHANGED <<tails, phase>>
        BY <1>4 DEF ServerPanic, ringVars
    <2>2. IsInjective(chan') /\ \A g : ~InChan(chan', g)
        BY <2>1 DEF IsInjective, InChan
    <2>3. /\ ppc' \in [Puts -> PutStates]
          /\ \A q \in Puts : ppc'[q] # "Loop"
        BY <2>1 DEF ConnectionsReset, Owned, OwnTyping, PutStates
    <2>4. /\ gpc' \in [Gets -> GetStates]
          /\ \A g \in Gets : gpc'[g] # "Queued"
          /\ \A g \in Gets : gpc'[g] = "Idle" => gpc[g] = "Idle"
        BY <2>1 DEF ConnectionsReset, Owned, OwnTyping, GetStates
    <2>. QED
        BY <2>1, <2>2, <2>3, <2>4 DEF Owned, OwnTyping, Queueing
<1>5. CASE PutTake
    <2> DEFINE h == Head(chan)
    <2>1. /\ entry # NoPut /\ chan # <<>>
          /\ tails[h] = "Detached" /\ tails' = [tails EXCEPT ![h] = "Attached"]
          /\ chan' = Tail(chan) /\ gpc' = [gpc EXCEPT ![h] = "Tail"]
          /\ UNCHANGED <<entry, ppc, phase>>
        BY <1>5 DEF PutTake, Ring!Attach
    <2>2. /\ IsInjective(Tail(chan))
          /\ \A x : InChan(Tail(chan), x) <=> x # h /\ InChan(chan, x)
        BY <2>1, TakeHead DEF Owned, OwnTyping, Queueing
    <2>3. h \in Gets /\ Tail(chan) \in Seq(Gets)
        BY <2>1, HeadTailProperties DEF Owned, OwnTyping
    <2>4. \A g \in Gets : gpc'[g] = "Queued" <=> InChan(chan', g)
        BY <2>1, <2>2, <2>3 DEF Owned, OwnTyping
    <2>. QED
        BY <2>1, <2>2, <2>3, <2>4 DEF Owned, OwnTyping, Queueing, GetStates,
                                     TailStates
<1>6. CASE PutResolve
    <2>1. /\ entry # NoPut /\ entry' = NoPut /\ chan' = <<>>
          /\ ppc' = [ppc EXCEPT ![entry] = "Returned"]
          /\ gpc' = [g \in Gets |-> IF InChan(chan, g) THEN "Dropped" ELSE gpc[g]]
          /\ UNCHANGED tails
          /\ phase' \in {"Running", "ConsumerSettled", "Terminated"}
        BY <1>6 DEF PutResolve, Ring!ConsumerDone, Ring!Finish, InChan
    <2>2. IsInjective(chan') /\ \A g : ~InChan(chan', g)
        BY <2>1 DEF IsInjective, InChan
    <2>3. /\ ppc' \in [Puts -> PutStates]
          /\ \A q \in Puts : ppc'[q] # "Loop"
        BY <2>1 DEF Owned, OwnTyping, PutStates
    <2>4. /\ gpc' \in [Gets -> GetStates]
          /\ \A g \in Gets : gpc'[g] # "Queued"
          /\ \A g \in Gets : gpc'[g] \in {"Idle", "Queued"} => gpc'[g] = gpc[g]
        BY <2>1 DEF Owned, OwnTyping, GetStates
    <2>. QED
        BY <2>1, <2>2, <2>3, <2>4 DEF Owned, OwnTyping, Queueing
<1>7. CASE RingSource \/ RingStore \/ \E g \in Gets : RingDeliver(g)
    <2>1. UNCHANGED <<entry, chan, ppc, gpc, tails, phase>>
        BY <1>7 DEF RingSource, RingStore, RingDeliver, Ring!Accept,
                    Ring!Close, Ring!Store, Ring!Deliver, httpVars
    <2>. QED
        BY <2>1, FrameOwned
<1>8. CASE ConsumerSettles
    <2>1. /\ UNCHANGED <<entry, chan, ppc, gpc, tails>>
          /\ phase' = "ConsumerSettled"
        BY <1>8 DEF ConsumerSettles, Ring!ConsumerDone, httpVars
    <2>. QED
        BY <2>1 DEF Owned, OwnTyping, Queueing, InChan
<1>9. ASSUME NEW g \in Gets, RingDetach(g) PROVE Owned'
    <2>1. /\ tails[g] = "Attached"
          /\ \E how \in {"Finished", "Failed"} : tails' = [tails EXCEPT ![g] = how]
          /\ \E v \in {"Served", "Failed"} : gpc' = [gpc EXCEPT ![g] = v]
          /\ UNCHANGED <<entry, chan, ppc, phase>>
        BY <1>9 DEF RingDetach, Ring!Detach
    <2>2. ~InChan(chan, g)
        BY <2>1 DEF Owned, Queueing
    <2>. QED
        BY <2>1, <2>2 DEF Owned, OwnTyping, Queueing, GetStates, TailStates
<1>10. ASSUME NEW g \in Gets, GetQueue(g) PROVE Owned'
    <2>1. /\ gpc[g] = "Idle" /\ entry # NoPut
          /\ chan' = Append(chan, g) /\ gpc' = [gpc EXCEPT ![g] = "Queued"]
          /\ UNCHANGED <<entry, ppc, tails, phase>>
        BY <1>10 DEF GetQueue, ringVars
    <2>2. ~InChan(chan, g)
        BY <2>1 DEF Owned
    <2>3. /\ IsInjective(Append(chan, g))
          /\ \A x : InChan(Append(chan, g), x) <=> x = g \/ InChan(chan, x)
          /\ Append(chan, g) \in Seq(Gets)
        BY <2>2, QueueAppend, AppendProperties DEF Owned, OwnTyping, Queueing
    <2>. QED
        BY <2>1, <2>3 DEF Owned, OwnTyping, Queueing, GetStates
<1>11. ASSUME NEW g \in Gets, GetAtRest(g) \/ AtRestRead(g) PROVE Owned'
    <2>1. /\ gpc[g] \in {"Idle", "AtRest"}
          /\ \/ gpc' = gpc
             \/ \E v \in {"NotFound", "AtRest", "Served", "Failed"} :
                   gpc' = [gpc EXCEPT ![g] = v]
          /\ UNCHANGED <<entry, chan, ppc, tails, phase>>
        BY <1>11 DEF GetAtRest, AtRestRead, ringVars
    <2>2. ~InChan(chan, g)
        BY <2>1 DEF Owned
    <2>. QED
        BY <2>1, <2>2 DEF Owned, OwnTyping, Queueing, GetStates
<1>12. CASE \/ \E d \in Deletes : Delete(d)
            \/ AwaitConnections \/ UNCHANGED vars
    <2>1. UNCHANGED <<entry, chan, ppc, gpc, tails, phase>>
        BY <1>12 DEF Delete, AwaitConnections, vars, httpVars, ringVars
    <2>. QED
        BY <2>1, FrameOwned
<1>. QED
    BY <1>1, <1>2, <1>3, <1>4, <1>5, <1>6, <1>7, <1>8, <1>9, <1>10, <1>11,
       <1>12
    DEF Next


(* The path's in_flight_files entry belongs to the one PUT in its select  *)
(* loop, whose Ring has not returned, and its channel holds exactly the   *)
(* GETs that try_send queued and the loop has not yet pushed: for every   *)
(* number of PUTs, GETs and DELETEs, with panics, disk faults and every   *)
(* interleaving of the tasks on the smol thread.                          *)
THEOREM EntryOwnedHolds == Spec => []EntryOwned
<1>1. Init => Owned
    BY InitOInv, OwnedIsOInv
<1>2. Owned => EntryOwned
    BY OwnedIsOInv DEF OInv
<1>. QED
    BY <1>1, <1>2, NextOwned, PTL DEF Spec

=============================================================================

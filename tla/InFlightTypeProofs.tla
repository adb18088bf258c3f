-------------------------- MODULE InFlightTypeProofs --------------------------
(***************************************************************************)
(* The type of InFlight for every finite set of requests and every bound  *)
(* on an upload.  Its counters are inode numbers: a PUT creates at most   *)
(* one inode, when it leaves Idle and the path names none, so the inodes  *)
(* never outnumber the PUTs.                                              *)
(***************************************************************************)
EXTENDS InFlightProofs, FiniteSetTheorems

(* The PUT requests that have left Idle: each was answered or ran.        *)
Started == {p \in Puts : ppc[p] # "Idle"}

(* The file system's and the Ring's part of TypeOK, with every inode      *)
(* bounded by the inodes created so far, and a GET at rest holding a real *)
(* inode (File::open succeeded on the path).                              *)
Typed ==
    /\ dpc \in [Deletes -> {"Idle", "Deleted", "Failed"}]
    /\ nino \in Nat
    /\ ino \in 0 .. nino
    /\ pino \in 0 .. nino
    /\ content \in Seq(Seq(Puts \X Positions))
    /\ Len(content) = nino
    /\ opened \in [Gets -> 0 .. nino]
    /\ \A g \in Gets : gpc[g] = "AtRest" => opened[g] \in 1 .. nino
    /\ body \in [Gets -> Seq(Puts \X Positions)]
    /\ produced \in 0 .. UploadMax

(* Each created inode was created by a different PUT leaving Idle.       *)
Counted == nino <= Cardinality(Started)

(* TypeOK is not inductive: the inode counters are bounded by the number  *)
(* of PUTs only through Counted, and a GET at rest reads an inode that    *)
(* exists only through Typed.  The control part is Owned, the file part   *)
(* IInv (a running PUT's inode exists).                                   *)
TInv == IInv /\ Owned /\ Typed /\ Counted

-----------------------------------------------------------------------------
(* The PUTs that have left Idle are a finite set.                          *)
LEMMA StartedFinite ==
    /\ IsFiniteSet(Started) /\ Cardinality(Started) \in Nat
    /\ IsFiniteSet(Started') /\ Cardinality(Started') \in Nat
<1>1. Started \in SUBSET Puts /\ Started' \in SUBSET Puts
    BY DEF Started
<1>. QED
    BY <1>1, InFlightAssumption, FS_Subset, FS_CardinalityType

(* A step that starts no PUT and creates no inode keeps the count.        *)
LEMMA CountKeep ==
    ASSUME Counted, nino \in Nat, nino' = nino, Started \subseteq Started'
    PROVE  Counted'
<1>0. IsFiniteSet(Started') /\ Started \in SUBSET Started'
    BY StartedFinite
<1>1. Cardinality(Started) <= Cardinality(Started')
    BY <1>0, FS_Subset
<1>2. nino <= Cardinality(Started')
    BY <1>1, StartedFinite DEF Counted
<1>. QED
    BY <1>2, Zenon DEF Counted

(* A PUT leaving Idle creates at most one inode.                          *)
LEMMA CountGrow ==
    ASSUME Counted, nino \in Nat, Started \subseteq Started',
           NEW q, q \in Started', q \notin Started,
           nino' = nino \/ nino' = nino + 1
    PROVE  Counted'
<1>1. /\ IsFiniteSet(Started \cup {q})
      /\ Cardinality(Started \cup {q}) = Cardinality(Started) + 1
    BY StartedFinite, FS_AddElement
<1>2. Cardinality(Started \cup {q}) <= Cardinality(Started')
    <2>1. IsFiniteSet(Started') /\ Started \cup {q} \in SUBSET Started'
        BY StartedFinite
    <2>. QED
        BY <2>1, FS_Subset
<1>3. nino + 1 <= Cardinality(Started')
    BY <1>1, <1>2, StartedFinite DEF Counted
<1>4. nino <= Cardinality(Started')
    BY <1>3, StartedFinite
<1>. QED
    BY <1>3, <1>4, Zenon DEF Counted

(* A PUT request moves from Idle to an answer or its select loop.         *)
LEMMA StartPut ==
    ASSUME ppc \in [Puts -> PutStates], NEW q \in Puts,
           NEW v \in PutStates \ {"Idle"}, ppc' = [ppc EXCEPT ![q] = v]
    PROVE  Started \subseteq Started' /\ q \in Started'
BY DEF Started

(* The process exit resets the PUTs in their loop; none becomes Idle.     *)
LEMMA ResetPuts ==
    ASSUME ppc \in [Puts -> PutStates], ppc' = ConnectionsReset(ppc, {"Loop"})
    PROVE  Started' = Started
BY DEF Started, ConnectionsReset
-----------------------------------------------------------------------------
(* What a step may do to the files: create one inode, point the path or   *)
(* the running PUT at an existing one, and rewrite inodes' bytes.         *)
FilesGrow ==
    /\ nino' = nino \/ nino' = nino + 1
    /\ ino' \in 0 .. nino'
    /\ pino' \in 0 .. nino'
    /\ content' \in Seq(Seq(Puts \X Positions))
    /\ Len(content') = nino'

(* No GET gets a file open at rest in this step.                          *)
NoNewAtRest == \A g \in Gets : gpc'[g] = "AtRest" => gpc[g] = "AtRest"

(* A step that leaves the GETs at rest and the DELETEs alone, changes the *)
(* files only as FilesGrow allows and keeps the upload within UploadMax   *)
(* keeps Typed.                                                           *)
LEMMA TypedFrame ==
    ASSUME Typed, FilesGrow, NoNewAtRest, UNCHANGED <<dpc, opened, body>>,
           produced' \in 0 .. UploadMax
    PROVE  Typed'
<1>1. CASE nino' = nino
    BY <1>1 DEF Typed, FilesGrow, NoNewAtRest
<1>2. CASE nino' = nino + 1
    <2>1. /\ opened' \in [Gets -> 0 .. nino + 1]
          /\ \A g \in Gets : gpc'[g] = "AtRest" => opened'[g] \in 1 .. nino + 1
        BY DEF Typed, NoNewAtRest
    <2>2. /\ dpc' \in [Deletes -> {"Idle", "Deleted", "Failed"}]
          /\ body' \in [Gets -> Seq(Puts \X Positions)]
          /\ nino + 1 \in Nat
        BY DEF Typed
    <2>. QED
        BY <1>2, <2>1, <2>2, Zenon DEF Typed, FilesGrow
<1>. QED
    BY <1>1, <1>2 DEF FilesGrow

(* A step that leaves the files alone.                                    *)
LEMMA FilesKeep ==
    ASSUME Typed, UNCHANGED <<ino, nino, pino, content>>
    PROVE  FilesGrow
BY DEF Typed, FilesGrow

(* put.rs's open, with create and truncate, creates at most one inode.    *)
LEMMA OpenTyped ==
    ASSUME Typed, OpenPutFile
    PROVE  FilesGrow
<1>1. CASE ino = 0
    <2>1. /\ nino' = nino + 1 /\ ino' = nino + 1 /\ pino' = nino + 1
          /\ content' = Append(content, <<>>)
        BY <1>1 DEF OpenPutFile
    <2>2. /\ content' \in Seq(Seq(Puts \X Positions))
          /\ Len(content') = nino + 1
        BY <2>1, AppendProperties, EmptySeq DEF Typed
    <2>. QED
        BY <2>1, <2>2 DEF Typed, FilesGrow
<1>2. CASE ino # 0
    <2>1. /\ UNCHANGED <<ino, nino>> /\ pino' = ino
          /\ content' = [content EXCEPT ![ino] = <<>>]
        BY <1>2 DEF OpenPutFile, OpenForWrite
    <2>2. ino \in 1 .. Len(content) /\ <<>> \in Seq(Puts \X Positions)
        BY <1>2, EmptySeq DEF Typed
    <2>3. /\ content' \in Seq(Seq(Puts \X Positions))
          /\ Len(content') = Len(content)
        BY <2>1, <2>2, ExceptSeq DEF Typed
    <2>. QED
        BY <2>1, <2>3 DEF Typed, FilesGrow
<1>. QED
    BY <1>1, <1>2

(* pwrite of an upload's bytes [0, k), with k within the bound, leaves a  *)
(* file of bytes tagged with the upload's positions.                      *)
LEMMA WriteAtTyped ==
    ASSUME NEW c \in Seq(Puts \X Positions), NEW p \in Puts,
           NEW k \in 1 .. UploadMax
    PROVE  WriteAt(c, p, k) \in Seq(Puts \X Positions)
<1>1. MaxOf(Len(c), k) \in Nat
    BY DEF MaxOf
<1>2. \A i \in 1 .. MaxOf(Len(c), k) :
         (IF i <= k THEN <<p, i - 1>> ELSE c[i]) \in Puts \X Positions
    <2> SUFFICES ASSUME NEW i \in 1 .. MaxOf(Len(c), k)
                 PROVE  (IF i <= k THEN <<p, i - 1>> ELSE c[i])
                           \in Puts \X Positions
        OBVIOUS
    <2>1. CASE i <= k
        BY <2>1, InFlightAssumption DEF Positions
    <2>2. CASE ~(i <= k)
        <3>1. i \in 1 .. Len(c)
            BY <2>2 DEF MaxOf
        <3>. QED
            BY <2>2, <3>1
    <2>. QED
        BY <2>1, <2>2
<1>3. WriteAt(c, p, k) \in [1 .. MaxOf(Len(c), k) -> Puts \X Positions]
    BY <1>2 DEF WriteAt
<1>. QED
    BY <1>1, <1>3, SeqDef

-----------------------------------------------------------------------------
(* Every step keeps the count: only PutStart and PutAllocFail create an   *)
(* inode, each for the PUT that leaves Idle in that step, and no step     *)
(* makes a PUT Idle again.                                                 *)
LEMMA CountedStep == TInv /\ [Next]_vars => Counted'
<1> SUFFICES ASSUME TInv, [Next]_vars PROVE Counted'
    OBVIOUS
<1>0. /\ Counted /\ nino \in Nat /\ ppc \in [Puts -> PutStates]
      /\ entry \in Puts \cup {NoPut}
    BY DEF TInv, Typed, Owned, OwnTyping
<1>1. ASSUME NEW p \in Puts,
             PutConflict(p) \/ PutOpenFail(p) \/ PutStart(p) \/ PutAllocFail(p)
      PROVE  Counted'
    <2>1. /\ ppc[p] = "Idle"
          /\ \E v \in PutStates \ {"Idle"} : ppc' = [ppc EXCEPT ![p] = v]
        BY <1>1 DEF PutConflict, PutOpenFail, PutStart, PutAllocFail, PutStates
    <2>2. nino' = nino \/ nino' = nino + 1
        BY <1>1 DEF PutConflict, PutOpenFail, PutStart, PutAllocFail,
                    OpenPutFile, fileVars
    <2>3. Started \subseteq Started' /\ p \in Started' /\ p \notin Started
        BY <1>0, <2>1, StartPut DEF Started
    <2>. QED
        BY <1>0, <2>2, <2>3, CountGrow
<1>2. CASE ServerPanic
    <2>1. ppc' = ConnectionsReset(ppc, {"Loop"}) /\ nino' = nino
        BY <1>2 DEF ServerPanic, fileVars
    <2>. QED
        BY <1>0, <2>1, ResetPuts, CountKeep
<1>3. CASE PutResolve
    <2>1. /\ entry \in Puts
          /\ ppc' = [ppc EXCEPT ![entry] = "Returned"] /\ nino' = nino
        BY <1>0, <1>3 DEF PutResolve, fileVars
    <2>2. Started \subseteq Started'
        BY <1>0, <2>1, StartPut DEF PutStates
    <2>. QED
        BY <1>0, <2>1, <2>2, CountKeep
<1>4. CASE UNCHANGED <<ppc, nino>>
    BY <1>0, <1>4, CountKeep DEF Started
<1>. QED
    <2>1. CASE \/ PutTake \/ RingSource \/ RingStore \/ ConsumerSettles
               \/ \E g \in Gets : \/ RingDeliver(g) \/ RingDetach(g)
                                 \/ GetQueue(g) \/ GetAtRest(g) \/ AtRestRead(g)
               \/ \E d \in Deletes : Delete(d)
               \/ AwaitConnections \/ UNCHANGED vars
        <3>. UNCHANGED <<ppc, nino>>
            BY <2>1 DEF PutTake, RingSource, RingStore, ConsumerSettles,
                        RingDeliver, RingDetach, GetQueue, GetAtRest,
                        AtRestRead, Delete, AwaitConnections, vars, httpVars,
                        fileVars
        <3>. QED
            BY <1>4
    <2>. QED
        BY <1>1, <1>2, <1>3, <2>1 DEF Next
-----------------------------------------------------------------------------
(* Every step keeps Typed.                                                 *)
LEMMA TypedStep == TInv /\ [Next]_vars => Typed'
<1> SUFFICES ASSUME TInv, [Next]_vars PROVE Typed'
    OBVIOUS
<1> USE InFlightAssumption
<1>0. /\ Typed /\ gpc \in [Gets -> GetStates] /\ entry \in Puts \cup {NoPut}
      /\ chan \in Seq(Gets)
      /\ entry # NoPut => pino \in 1 .. nino
    BY DEF TInv, Owned, OwnTyping, IInv, FileCoupling, Typing, Typed
<1>1. ASSUME NEW p \in Puts, PutConflict(p) \/ PutOpenFail(p) PROVE Typed'
    BY <1>0, <1>1, FilesKeep, TypedFrame
    DEF PutConflict, PutOpenFail, fileVars, ringVars, NoNewAtRest, Typed
<1>2. ASSUME NEW p \in Puts, PutStart(p) PROVE Typed'
    <2>1. /\ OpenPutFile /\ produced' = 0 /\ UNCHANGED <<gpc, dpc, opened, body>>
        BY <1>2 DEF PutStart, RingStart
    <2>2. FilesGrow
        BY <1>0, <2>1, OpenTyped
    <2>3. NoNewAtRest
        BY <2>1 DEF NoNewAtRest
    <2>. QED
        BY <1>0, <2>1, <2>2, <2>3, TypedFrame
<1>3. ASSUME NEW p \in Puts, PutAllocFail(p) PROVE Typed'
    <2>1. /\ OpenPutFile /\ UNCHANGED <<dpc, opened, body, produced>>
          /\ gpc' = ConnectionsReset(gpc, {"Queued", "Tail", "AtRest"})
        BY <1>3 DEF PutAllocFail, ringVars
    <2>2. FilesGrow
        BY <1>0, <2>1, OpenTyped
    <2>3. NoNewAtRest
        BY <1>0, <2>1 DEF NoNewAtRest, ConnectionsReset
    <2>. QED
        BY <1>0, <2>1, <2>2, <2>3, TypedFrame DEF Typed
<1>4. CASE ServerPanic
    <2>1. /\ UNCHANGED <<dpc, ino, nino, pino, content, opened, body, produced>>
          /\ gpc' = ConnectionsReset(gpc, {"Queued", "Tail", "AtRest"})
        BY <1>4 DEF ServerPanic, fileVars, ringVars
    <2>2. NoNewAtRest
        BY <1>0, <2>1 DEF NoNewAtRest, ConnectionsReset
    <2>. QED
        BY <1>0, <2>1, <2>2, FilesKeep, TypedFrame DEF Typed
<1>5. CASE PutTake
    <2>1. /\ UNCHANGED <<dpc, ino, nino, pino, content, opened, body, produced>>
          /\ gpc' = [gpc EXCEPT ![Head(chan)] = "Tail"]
        BY <1>5 DEF PutTake, Ring!Attach, fileVars
    <2>2. NoNewAtRest
        BY <1>0, <2>1 DEF NoNewAtRest
    <2>. QED
        BY <1>0, <2>1, <2>2, FilesKeep, TypedFrame DEF Typed
<1>6. CASE PutResolve
    <2>1. /\ UNCHANGED <<dpc, ino, nino, pino, content, opened, body, produced>>
          /\ gpc' = [g \in Gets |-> IF \E i \in 1 .. Len(chan) : chan[i] = g
                                    THEN "Dropped" ELSE gpc[g]]
        BY <1>6 DEF PutResolve, fileVars, Ring!ConsumerDone, Ring!Finish
    <2>2. NoNewAtRest
        BY <2>1 DEF NoNewAtRest
    <2>. QED
        BY <1>0, <2>1, <2>2, FilesKeep, TypedFrame DEF Typed
<1>7. CASE RingSource
    <2>1. /\ UNCHANGED <<gpc, dpc, ino, nino, pino, content, opened, body>>
          /\ produced' \in 0 .. UploadMax
        BY <1>0, <1>7 DEF RingSource, Ring!Accept, Ring!Close, httpVars,
                          fileVars, Typed
    <2>2. NoNewAtRest
        BY <2>1 DEF NoNewAtRest
    <2>. QED
        BY <1>0, <2>1, <2>2, FilesKeep, TypedFrame
<1>8. CASE RingStore
    <2>1. PICK k \in 1 .. UploadMax :
                 /\ Ring!Store(k)
                 /\ content' = [content EXCEPT ![pino] = WriteAt(@, entry, k)]
        BY <1>8 DEF RingStore
    <2>2. /\ entry # NoPut
          /\ UNCHANGED <<gpc, dpc, ino, nino, pino, opened, body, produced>>
        BY <1>8, <2>1 DEF RingStore, Ring!Store, httpVars
    <2>3. /\ pino \in 1 .. Len(content)
          /\ content[pino] \in Seq(Puts \X Positions)
          /\ entry \in Puts
        BY <1>0, <2>2 DEF Typed
    <2>4. WriteAt(content[pino], entry, k) \in Seq(Puts \X Positions)
        BY <2>3, WriteAtTyped
    <2>5. /\ content' \in Seq(Seq(Puts \X Positions))
          /\ Len(content') = Len(content)
        BY <1>0, <2>1, <2>3, <2>4, ExceptSeq DEF Typed
    <2>6. FilesGrow
        BY <1>0, <2>2, <2>5 DEF Typed, FilesGrow
    <2>7. NoNewAtRest
        BY <2>2 DEF NoNewAtRest
    <2>. QED
        BY <1>0, <2>2, <2>6, <2>7, TypedFrame DEF Typed
<1>9. CASE ConsumerSettles
    <2>1. UNCHANGED <<gpc, dpc, ino, nino, pino, content, opened, body, produced>>
        BY <1>9 DEF ConsumerSettles, Ring!ConsumerDone, httpVars, fileVars
    <2>2. NoNewAtRest
        BY <2>1 DEF NoNewAtRest
    <2>. QED
        BY <1>0, <2>1, <2>2, FilesKeep, TypedFrame DEF Typed
<1>10. ASSUME NEW g \in Gets, RingDeliver(g) \/ RingDetach(g) \/ GetQueue(g)
       PROVE  Typed'
    <2>1. /\ UNCHANGED <<dpc, ino, nino, pino, content, opened, body, produced>>
          /\ \E v \in GetStates \ {"AtRest"} : gpc' = [gpc EXCEPT ![g] = v]
                                               \/ gpc' = gpc
        BY <1>10 DEF RingDeliver, RingDetach, GetQueue, Ring!Deliver,
                     Ring!Detach, httpVars, fileVars, ringVars, GetStates
    <2>2. NoNewAtRest
        BY <1>0, <2>1 DEF NoNewAtRest
    <2>. QED
        BY <1>0, <2>1, <2>2, FilesKeep, TypedFrame DEF Typed
<1>11. ASSUME NEW g \in Gets, GetAtRest(g) PROVE Typed'
    <2>1. /\ gpc[g] = "Idle"
          /\ UNCHANGED <<dpc, ino, nino, pino, content, body, produced>>
        BY <1>11 DEF GetAtRest, ringVars
    <2>2. CASE ino = 0
        <3>1. gpc' = [gpc EXCEPT ![g] = "NotFound"] /\ opened' = opened
            BY <1>11, <2>2 DEF GetAtRest
        <3>2. NoNewAtRest
            BY <1>0, <3>1 DEF NoNewAtRest
        <3>. QED
            BY <1>0, <2>1, <3>1, <3>2, FilesKeep, TypedFrame DEF Typed
    <2>3. CASE ino # 0
        <3>1. gpc' = [gpc EXCEPT ![g] = "AtRest"]
              /\ opened' = [opened EXCEPT ![g] = ino]
            BY <1>11, <2>3 DEF GetAtRest
        <3>2. ino \in 1 .. nino
            BY <1>0, <2>3 DEF Typed
        <3>3. /\ opened' \in [Gets -> 0 .. nino]
              /\ \A h \in Gets : gpc'[h] = "AtRest" => opened'[h] \in 1 .. nino
            BY <1>0, <3>1, <3>2 DEF Typed
        <3>. QED
            BY <1>0, <2>1, <3>3 DEF Typed
    <2>. QED
        BY <2>2, <2>3
<1>12. ASSUME NEW g \in Gets, AtRestRead(g) PROVE Typed'
    <2>1. /\ gpc[g] = "AtRest"
          /\ \/ gpc' = gpc
             \/ \E v \in {"Served", "Failed"} : gpc' = [gpc EXCEPT ![g] = v]
          /\ UNCHANGED <<dpc, ino, nino, pino, content, opened, produced>>
        BY <1>12 DEF AtRestRead, ringVars
    <2>2. /\ opened[g] \in 1 .. Len(content)
          /\ content[opened[g]] \in Seq(Puts \X Positions)
          /\ body[g] \in Seq(Puts \X Positions)
        BY <1>0, <2>1 DEF Typed
    <2>3. \/ body' = body
          \/ /\ Len(body[g]) < Len(content[opened[g]])
             /\ body' = [body EXCEPT ![g] = Append(body[g],
                                     content[opened[g]][Len(body[g]) + 1])]
        BY <1>12 DEF AtRestRead
    <2>4. body' \in [Gets -> Seq(Puts \X Positions)]
        <3>1. CASE body' = body
            BY <1>0, <3>1 DEF Typed
        <3>2. CASE body' # body
            <4>1. /\ Len(body[g]) + 1 \in 1 .. Len(content[opened[g]])
                  /\ body' = [body EXCEPT ![g] = Append(body[g],
                                     content[opened[g]][Len(body[g]) + 1])]
                BY <2>2, <2>3, <3>2
            <4>2. content[opened[g]][Len(body[g]) + 1] \in Puts \X Positions
                BY <2>2, <4>1
            <4>. QED
                BY <1>0, <2>2, <4>1, <4>2, AppendProperties DEF Typed
        <3>. QED
            BY <3>1, <3>2
    <2>5. \A h \in Gets : gpc'[h] = "AtRest" => opened'[h] \in 1 .. nino'
        BY <1>0, <2>1 DEF Typed
    <2>. QED
        BY <1>0, <2>1, <2>4, <2>5 DEF Typed
<1>13. ASSUME NEW d \in Deletes, Delete(d) PROVE Typed'
    <2>1. /\ ino' \in {0, ino}
          /\ dpc' \in [Deletes -> {"Idle", "Deleted", "Failed"}]
          /\ UNCHANGED <<gpc, nino, pino, content, opened, body, produced>>
        BY <1>0, <1>13 DEF Delete, ringVars, Typed
    <2>. QED
        BY <1>0, <2>1 DEF Typed
<1>14. CASE AwaitConnections \/ UNCHANGED vars
    <2>1. UNCHANGED <<gpc, dpc, ino, nino, pino, content, opened, body, produced>>
        BY <1>14 DEF AwaitConnections, vars, httpVars, fileVars, ringVars
    <2>. QED
        BY <1>0, <2>1 DEF Typed
<1>. QED
    BY <1>1, <1>2, <1>3, <1>4, <1>5, <1>6, <1>7, <1>8, <1>9, <1>10, <1>11,
       <1>12, <1>13, <1>14
    DEF Next
-----------------------------------------------------------------------------
(* The invariant holds initially: no inode, no request started.           *)
LEMMA InitTInv == Init => TInv
<1> SUFFICES ASSUME Init PROVE TInv
    OBVIOUS
<1>1. IInv /\ Owned
    BY InitIInv, InitOInv, OwnedIsOInv
<1>2. Typed
    BY InFlightAssumption DEF Init, Ring!Init, Typed
<1>3. Counted
    BY StartedFinite DEF Init, Counted
<1>. QED
    BY <1>1, <1>2, <1>3 DEF TInv

(* Every step keeps the invariant.                                         *)
LEMMA NextTInv == TInv /\ [Next]_vars => TInv'
<1> SUFFICES ASSUME TInv, [Next]_vars PROVE TInv'
    OBVIOUS
<1>1. IInv' /\ Owned'
    BY NextIInv, NextOwned DEF TInv
<1>. QED
    BY <1>1, TypedStep, CountedStep DEF TInv

(* The invariant gives every variable the type of TypeOK: the inodes are  *)
(* numbered within the PUTs that started, hence within all the PUTs.      *)
LEMMA TInvTypeOK == TInv => TypeOK
<1> SUFFICES ASSUME TInv PROVE TypeOK
    OBVIOUS
<1>1. Cardinality(Started) <= Cardinality(Puts) /\ Cardinality(Puts) \in Nat
    <2>1. IsFiniteSet(Puts) /\ Started \in SUBSET Puts
        BY InFlightAssumption DEF Started
    <2>. QED
        BY <2>1, FS_Subset, FS_CardinalityType
<1>2. nino \in 0 .. Cardinality(Puts)
    BY <1>1, StartedFinite DEF TInv, Typed, Counted
<1>3. /\ ino \in 0 .. Cardinality(Puts)
      /\ pino \in 0 .. Cardinality(Puts)
      /\ opened \in [Gets -> 0 .. Cardinality(Puts)]
    <2>1. ino \in 0 .. Cardinality(Puts) /\ pino \in 0 .. Cardinality(Puts)
        BY <1>1, <1>2 DEF TInv, Typed
    <2>2. /\ opened \in [Gets -> 0 .. nino]
          /\ 0 .. nino \subseteq 0 .. Cardinality(Puts)
        BY <1>1, <1>2 DEF TInv, Typed
    <2>3. opened \in [Gets -> 0 .. Cardinality(Puts)]
        BY <2>2, Zenon
    <2>. QED
        BY <2>1, <2>3
<1>. QED
    BY <1>2, <1>3
    DEF TInv, Typed, Owned, OwnTyping, TypeOK, PutStates, GetStates, TailStates

(* Every variable of the request handlers has its type in every state,    *)
(* for every finite set of PUTs, GETs and DELETEs and every bound on an   *)
(* upload: in particular process_put_request's create(true) makes at most *)
(* one inode per PUT, so the inode numbers stay within the PUTs, and a    *)
(* GET at rest reads an inode that exists.                                *)
THEOREM InFlightTyped == Spec => []TypeOK
<1>. QED
    BY InitTInv, NextTInv, TInvTypeOK, PTL DEF Spec
====

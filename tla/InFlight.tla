------------------------------- MODULE InFlight -------------------------------
(***************************************************************************)
(* The request handlers of ingestd-httpd for one path: process_put_request *)
(* registers the upload in State.in_flight_files (a 409 if one is already *)
(* there), opens the file with create+truncate and runs the select loop   *)
(* that pushes queued GETs into its Ring until the Ring resolves;         *)
(* process_get_request hands a GET to the running upload through the      *)
(* mpsc sender (try_send) and awaits its oneshot, or reads the file at    *)
(* rest; process_delete_request unlinks the file.  The Ring itself is its *)
(* contract LiveTail, which LiveRing implements.  Paths are independent:  *)
(* in_flight_files is keyed by path and requests for other paths touch    *)
(* neither this entry nor this file.  Every action is one poll of one     *)
(* task on the single smol thread.                                        *)
(***************************************************************************)
EXTENDS Naturals, Sequences, FiniteSets

CONSTANTS
    Puts,           \* PUT requests for the path
    Gets,           \* GET requests for the path
    Deletes,        \* DELETE requests for the path
    NoPut,          \* no sender registered for the path
    UploadMax,      \* bound on the length of one upload, in read chunks
    DiskFaults,     \* may the file (or the PUT connection) fail?
    Panics          \* may a task panic (and take the process with it)?

ASSUME InFlightAssumption ==
    /\ IsFiniteSet(Puts)
    /\ NoPut \notin Puts
    /\ UploadMax \in Nat
    /\ DiskFaults \in BOOLEAN
    /\ Panics \in BOOLEAN

VARIABLES
    entry,          \* in_flight_files[path]: the running PUT's sender
    chan,           \* GET messages queued in that PUT's mpsc channel
    ppc,            \* where each PUT request is
    gpc,            \* where each GET request is
    dpc,            \* where each DELETE request is
    ino,            \* the inode the path names (0: none)
    nino,           \* inodes created so far
    content,        \* each created inode's bytes, as <<upload, position>>
    pino,           \* the inode of the running PUT's Rc<File>
    opened,         \* the inode each GET at rest has open
    body,           \* the bytes each GET at rest has sent
    phase, produced, stored, tails, got, source, outcome, result

Ring == INSTANCE LiveTail
    WITH Readers <- Gets, StreamMax <- UploadMax, Failures <- DiskFaults

httpVars == <<entry, chan, ppc, gpc, dpc>>
fileVars == <<ino, nino, content, pino, opened, body>>
ringVars == <<phase, produced, stored, tails, got, source, outcome, result>>
vars == <<httpVars, fileVars, ringVars>>

Positions == 0 .. UploadMax - 1

MaxOf(a, b) == IF a < b THEN b ELSE a

(* Upload p's first k bytes, as the file holds them.                      *)
Written(p, k) == [i \in 1 .. k |-> <<p, i - 1>>]

(* Mutant: each chunk lands one position further on.                     *)
WriteAtShifted(c, p, k) ==
    [i \in 1 .. MaxOf(Len(c), k) |-> IF i <= k THEN <<p, i>> ELSE c[i]]

(* pwrite of upload p's bytes [0, k) at offset 0 of a file holding c.     *)
WriteAt(c, p, k) ==
    [i \in 1 .. MaxOf(Len(c), k) |-> IF i <= k THEN <<p, i - 1>> ELSE c[i]]

(* Mutant: the file is opened without truncate(true).                     *)
OpenForWriteKeep(c) == c

(* OpenOptions::new().create(true).truncate(true): the old bytes go.      *)
OpenForWrite(c) == <<>>

Init ==
    /\ entry = NoPut
    /\ chan = <<>>
    /\ ppc = [p \in Puts |-> "Idle"]
    /\ gpc = [g \in Gets |-> "Idle"]
    /\ dpc = [d \in Deletes |-> "Idle"]
    /\ ino = 0
    /\ nino = 0
    /\ content = <<>>
    /\ pino = 0
    /\ opened = [g \in Gets |-> 0]
    /\ body = [g \in Gets |-> <<>>]
    /\ Ring!Init

-----------------------------------------------------------------------------
(* Ring::state() and RingState::ring(): a new Ring for the upload.        *)
RingStart ==
    /\ phase' = "Running"
    /\ produced' = 0
    /\ stored' = <<>>
    /\ tails' = [g \in Gets |-> "Detached"]
    /\ got' = [g \in Gets |-> <<>>]
    /\ source' = "Streaming"
    /\ outcome' = "None"
    /\ result' = "None"

(* process_put_request: a second PUT while the path is in flight gets 409. *)
PutConflict(p) ==
    /\ ppc[p] = "Idle"
    /\ entry # NoPut
    /\ ppc' = [ppc EXCEPT ![p] = "Conflict"]
    /\ UNCHANGED <<entry, chan, gpc, dpc, fileVars, ringVars>>

(* get_file_path, create_dir_all or open fails: `?` returns between the   *)
(* insert and the first await, so the guard removes the entry in the same *)
(* poll and nobody sees it.  process_request writes a 500.                *)
PutOpenFail(p) ==
    /\ DiskFaults
    /\ ppc[p] = "Idle"
    /\ entry = NoPut
    /\ ppc' = [ppc EXCEPT ![p] = "Failed"]
    /\ UNCHANGED <<entry, chan, gpc, dpc, fileVars, ringVars>>

(* put.rs opens the path: a new empty inode if the path names none,      *)
(* otherwise the path's inode, truncated.                                 *)
OpenPutFile ==
    IF ino = 0
    THEN /\ nino' = nino + 1
         /\ ino' = nino + 1
         /\ pino' = nino + 1
         /\ content' = Append(content, <<>>)
    ELSE /\ pino' = ino
         /\ content' = [content EXCEPT ![ino] = OpenForWrite(@)]
         /\ UNCHANGED <<ino, nino>>

(* The sender goes into in_flight_files, the file is opened and a fresh   *)
(* Ring starts.                                                           *)
PutStart(p) ==
    /\ ppc[p] = "Idle"
    /\ entry = NoPut
    /\ entry' = p
    /\ chan' = <<>>
    /\ ppc' = [ppc EXCEPT ![p] = "Loop"]
    /\ OpenPutFile
    /\ RingStart
    /\ UNCHANGED <<gpc, dpc, opened, body>>

(* A panic unwinds out of smol::run and main: the process exits.  Every   *)
(* task in progress loses its connection (Reset), in_flight_files and     *)
(* every channel and Ring are gone; the files keep the bytes written to   *)
(* them.  The listening sockets are inherited (fds 0 and 3), so requests  *)
(* that come later are served by the next process.                       *)
ConnectionsReset(pc, live) == [x \in DOMAIN pc |-> IF pc[x] \in live THEN "Reset" ELSE pc[x]]

(* queue(RING_SIZE) unwraps magic(): memfd_create, ftruncate or mmap      *)
(* fails after the file was already opened with truncate, and the PUT     *)
(* task panics between the insert and the first await.                    *)
PutAllocFail(p) ==
    /\ Panics
    /\ ppc[p] = "Idle"
    /\ entry = NoPut
    /\ OpenPutFile
    /\ ppc' = [ppc EXCEPT ![p] = "Reset"]
    /\ gpc' = ConnectionsReset(gpc, {"Queued", "Tail", "AtRest"})
    /\ UNCHANGED <<entry, chan, dpc, opened, body, ringVars>>

(* process_request unwraps http::decode: a connection that closes before  *)
(* its request, or sends a malformed one, panics the server.              *)
ServerPanic ==
    /\ Panics
    /\ entry' = NoPut
    /\ chan' = <<>>
    /\ ppc' = ConnectionsReset(ppc, {"Loop"})
    /\ gpc' = ConnectionsReset(gpc, {"Queued", "Tail", "AtRest"})
    /\ UNCHANGED <<dpc, fileVars, ringVars>>

(* select!, first branch: a queued GET is pushed into the Ring.           *)
PutTake ==
    /\ entry # NoPut
    /\ chan # <<>>
    /\ Ring!Attach(Head(chan))
    /\ chan' = Tail(chan)
    /\ gpc' = [gpc EXCEPT ![Head(chan)] = "Tail"]
    /\ UNCHANGED <<entry, ppc, dpc, fileVars>>

(* Mutant: the PUT returns without dropping _remove_guard's entry.        *)
PutResolveKeepEntry ==
    /\ entry # NoPut
    /\ \/ \E res \in {"Ok", "Err"} : Ring!ConsumerDone(res) /\ Ring!Attached = {}
       \/ Ring!Finish
    /\ chan' = <<>>
    /\ ppc' = [ppc EXCEPT ![entry] = "Returned"]
    /\ gpc' = [g \in Gets |-> IF \E i \in 1 .. Len(chan) : chan[i] = g
                              THEN "Dropped" ELSE gpc[g]]
    /\ UNCHANGED <<entry, dpc, fileVars>>

(* Mutant: the receiver outlives the PUT, so queued GETs wait forever.    *)
PutResolveKeepQueued ==
    /\ entry # NoPut
    /\ \/ \E res \in {"Ok", "Err"} : Ring!ConsumerDone(res) /\ Ring!Attached = {}
       \/ Ring!Finish
    /\ entry' = NoPut
    /\ chan' = <<>>
    /\ ppc' = [ppc EXCEPT ![entry] = "Returned"]
    /\ UNCHANGED <<gpc, dpc, fileVars>>

(* select!, second branch: the Ring returns, `res?; return`.  Dropping    *)
(* _remove_guard removes the entry, then the receiver is dropped with     *)
(* every GET still queued in it: their oneshot senders go with them, so   *)
(* each GET task gets Canceled, returns a ResponseWriterError, and        *)
(* process_request closes the connection without a response.             *)
PutResolve ==
    /\ entry # NoPut
    /\ \/ \E res \in {"Ok", "Err"} : Ring!ConsumerDone(res) /\ Ring!Attached = {}
       \/ Ring!Finish
    /\ entry' = NoPut
    /\ chan' = <<>>
    /\ ppc' = [ppc EXCEPT ![entry] = "Returned"]
    /\ gpc' = [g \in Gets |-> IF \E i \in 1 .. Len(chan) : chan[i] = g
                              THEN "Dropped" ELSE gpc[g]]
    /\ UNCHANGED <<dpc, fileVars>>

-----------------------------------------------------------------------------
(* Ring::poll inside the select: the body is read or ends.                *)
RingSource ==
    /\ entry # NoPut
    /\ \/ \E n \in 1 .. UploadMax : Ring!Accept(n)
       \/ \E e \in {"Eof", "Err"} : Ring!Close(e)
    /\ UNCHANGED <<httpVars, fileVars>>

(* write_from_ring: a write at offset drained completes on the PUT's file. *)
RingStore ==
    /\ entry # NoPut
    /\ \E k \in 1 .. UploadMax :
          /\ Ring!Store(k)
          /\ content' = [content EXCEPT ![pino] = WriteAt(@, entry, k)]
    /\ UNCHANGED <<httpVars, ino, nino, pino, opened, body>>

(* write_file returns while GETs are still attached: the Ring stashes it. *)
ConsumerSettles ==
    /\ entry # NoPut
    /\ Ring!Attached # {}
    /\ \E res \in {"Ok", "Err"} : Ring!ConsumerDone(res)
    /\ UNCHANGED <<httpVars, fileVars>>

(* A pushed GET's body advances (ring or overrun fallback).               *)
RingDeliver(g) ==
    /\ entry # NoPut
    /\ \E k \in 1 .. UploadMax : Ring!Deliver(g, k)
    /\ UNCHANGED <<httpVars, fileVars>>

(* The pushed future ends: result_sender.send(result), and the GET task   *)
(* returns it from receiver.await.                                        *)
RingDetach(g) ==
    /\ entry # NoPut
    /\ \E how \in {"Finished", "Failed"} :
          /\ Ring!Detach(g, how)
          /\ gpc' = [gpc EXCEPT ![g] = IF how = "Finished" THEN "Served" ELSE "Failed"]
    /\ UNCHANGED <<entry, chan, ppc, dpc, fileVars>>

-----------------------------------------------------------------------------
(* process_get_request: the path is in flight, try_send on a clone of the *)
(* sender queues the GET (a fresh clone always has room, and the receiver *)
(* lives exactly as long as the entry, so the Err arm is never taken).    *)
GetQueue(g) ==
    /\ gpc[g] = "Idle"
    /\ entry # NoPut
    /\ chan' = Append(chan, g)
    /\ gpc' = [gpc EXCEPT ![g] = "Queued"]
    /\ UNCHANGED <<entry, ppc, dpc, fileVars, ringVars>>

(* Not in flight: File::open, then 404 if the path names no file.         *)
GetAtRest(g) ==
    /\ gpc[g] = "Idle"
    /\ entry = NoPut
    /\ IF ino = 0
       THEN /\ gpc' = [gpc EXCEPT ![g] = "NotFound"]
            /\ UNCHANGED opened
       ELSE /\ gpc' = [gpc EXCEPT ![g] = "AtRest"]
            /\ opened' = [opened EXCEPT ![g] = ino]
    /\ UNCHANGED <<entry, chan, ppc, dpc, ino, nino, content, pino, body,
                   ringVars>>

(* GetBodyAtRest::read: read_from_file at bytes_read on the open inode;   *)
(* 0 bytes ends the body, with no content-length to check it against.     *)
AtRestRead(g) ==
    /\ gpc[g] = "AtRest"
    /\ LET c == content[opened[g]]
           n == Len(body[g])
       IN \/ /\ n < Len(c)
             /\ body' = [body EXCEPT ![g] = Append(@, c[n + 1])]
             /\ UNCHANGED gpc
          \/ /\ n >= Len(c)
             /\ gpc' = [gpc EXCEPT ![g] = "Served"]
             /\ UNCHANGED body
          \/ /\ DiskFaults
             /\ gpc' = [gpc EXCEPT ![g] = "Failed"]
             /\ UNCHANGED body
    /\ UNCHANGED <<entry, chan, ppc, dpc, ino, nino, content, pino, opened,
                   ringVars>>

(* process_delete_request: remove_file, then 201; or NotFound and a 500.  *)
(* Open files, the running PUT's included, keep their inode.              *)
Delete(d) ==
    /\ dpc[d] = "Idle"
    /\ IF ino # 0
       THEN dpc' = [dpc EXCEPT ![d] = "Deleted"] /\ ino' = 0
       ELSE dpc' = [dpc EXCEPT ![d] = "Failed"] /\ UNCHANGED ino
    /\ UNCHANGED <<entry, chan, ppc, gpc, nino, content, pino, opened, body,
                   ringVars>>

(* main: both accept loops wait for the next connection once every       *)
(* request of the model has arrived; tasks still pending stay pending.    *)
AwaitConnections ==
    /\ \A p \in Puts : ppc[p] # "Idle"
    /\ \A g \in Gets : gpc[g] # "Idle"
    /\ \A d \in Deletes : dpc[d] # "Idle"
    /\ UNCHANGED vars

Next ==
    \/ \E p \in Puts : \/ PutConflict(p) \/ PutOpenFail(p) \/ PutStart(p)
                       \/ PutAllocFail(p)
    \/ PutTake
    \/ PutResolve
    \/ RingSource
    \/ RingStore
    \/ ConsumerSettles
    \/ \E g \in Gets : \/ RingDeliver(g) \/ RingDetach(g)
                       \/ GetQueue(g) \/ GetAtRest(g) \/ AtRestRead(g)
    \/ \E d \in Deletes : Delete(d)
    \/ ServerPanic
    \/ AwaitConnections

(* smol polls every woken task: the select loop when its channel has a    *)
(* message or its Ring is ready, the at-rest readers when their reads     *)
(* complete; the Ring's own progress is LiveTail's fairness, which        *)
(* LiveRing meets when the disk does not fail.  Requests need not come.   *)
Fairness ==
    /\ WF_vars(PutTake)
    /\ WF_vars(PutResolve)
    /\ WF_vars(RingSource)
    /\ WF_vars(RingStore)
    /\ WF_vars(ConsumerSettles)
    /\ \A g \in Gets : /\ WF_vars(RingDeliver(g) \/ RingDetach(g))
                       /\ WF_vars(AtRestRead(g))

Spec == Init /\ [][Next]_vars /\ Fairness

-----------------------------------------------------------------------------
(* Every variable has the type the handlers give it.                      *)
TypeOK ==
    /\ entry \in Puts \cup {NoPut}
    /\ chan \in Seq(Gets)
    /\ ppc \in [Puts -> {"Idle", "Conflict", "Failed", "Loop", "Returned",
                         "Reset"}]
    /\ gpc \in [Gets -> {"Idle", "Queued", "Tail", "AtRest", "Served",
                         "Failed", "NotFound", "Dropped", "Reset"}]
    /\ dpc \in [Deletes -> {"Idle", "Deleted", "Failed"}]
    /\ ino \in 0 .. Cardinality(Puts)
    /\ nino \in 0 .. Cardinality(Puts)
    /\ content \in Seq(Seq(Puts \X Positions))
    /\ Len(content) = nino
    /\ pino \in 0 .. Cardinality(Puts)
    /\ opened \in [Gets -> 0 .. Cardinality(Puts)]
    /\ body \in [Gets -> Seq(Puts \X Positions)]
    /\ phase \in {"Running", "ConsumerSettled", "Terminated"}
    /\ produced \in 0 .. UploadMax
    /\ tails \in [Gets -> {"Detached", "Attached", "Finished", "Failed"}]

(* When write_file has sent the 201, the file the PUT wrote holds exactly *)
(* its upload: no byte missing, and none left over from an earlier upload *)
(* of the same path that the new one was shorter than (put.rs opens the   *)
(* file with truncate, and the 409 keeps a second PUT off it).            *)
CreatedExact ==
    entry # NoPut /\ outcome = "Ok" => content[pino] = Written(entry, produced)

(* in_flight_files and the tasks agree: the path's sender belongs to the *)
(* PUT that is in its select loop and whose Ring has not returned (the    *)
(* guard removes it in the poll the Ring returns in, or the process dies  *)
(* with it), that PUT is the only one in its loop, and the channel holds  *)
(* exactly the GETs that try_send queued and the loop has not taken.      *)
EntryOwned ==
    /\ entry # NoPut => ppc[entry] = "Loop" /\ phase # "Terminated"
    /\ \A p \in Puts : ppc[p] = "Loop" => entry = p
    /\ \A g \in Gets : gpc[g] = "Queued" <=> \E i \in 1 .. Len(chan) : chan[i] = g

(* Every GET for the path eventually ends: served, failed, 404, dropped   *)
(* with its connection closed, or cut off by a panic; none waits forever  *)
(* on a oneshot.                                                          *)
GetsEnd ==
    \A g \in Gets : gpc[g] \in {"Queued", "Tail", "AtRest"}
                      ~> gpc[g] \in {"Served", "Failed", "NotFound", "Dropped",
                                      "Reset"}

(* spec.md, external interfaces: every attachment request yields one live *)
(* tail reader, and attach may be called at any time before Terminated.   *)
(* A GET that try_send queued for the upload is pushed into its Ring.     *)
QueuedGetAttached ==
    \A g \in Gets : gpc[g] # "Dropped"

(* What a GET at rest finds at the path: no file, or an inode's bytes.    *)
PathFile == IF ino = 0 THEN [exists |-> FALSE, bytes |-> <<>>]
                       ELSE [exists |-> TRUE, bytes |-> content[ino]]

(* spec.md, error handling: an AllocationError is fatal and the upload is *)
(* aborted before it starts.  A PUT whose ring buffer cannot be allocated *)
(* leaves what the path serves as it was.                                 *)
AllocFailKeepsFile ==
    [][\A p \in Puts : ppc[p] = "Idle" /\ ppc'[p] = "Reset" => PathFile' = PathFile]_vars

=============================================================================

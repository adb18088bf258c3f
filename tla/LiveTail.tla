------------------------------- MODULE LiveTail -------------------------------
(***************************************************************************)
(* What the Ring future of ring/mod.rs promises to the code around it:    *)
(* process_put_request, which pushes GET readers into it and awaits its   *)
(* result, and each GET, which reads its body through a RingReader.  The  *)
(* byte queue, the double mapping, the wakers and the overrun fallback    *)
(* are hidden: what is left is the upload accepted so far, its durable    *)
(* copy, the body each attached reader has delivered, and the             *)
(* Running -> ConsumerSettled -> Terminated lifecycle of Ring::poll.      *)
(* LiveRing implements this module (LiveRing!TailRefined), and InFlight   *)
(* uses it as the ring of each upload.                                    *)
(***************************************************************************)
EXTENDS Naturals, Sequences

CONSTANTS
    Readers,        \* the GET requests that may attach
    StreamMax,      \* bound on the length of the PUT body
    Failures        \* may the PUT connection or the disk fail?

VARIABLES
    phase,          \* Ring.consumer: Running, ConsumerSettled, or returned
    produced,       \* bytes pulled from the PUT body (bytes_written)
    stored,         \* the durable copy: the file's first bytes, in order
    tails,          \* each reader: never pushed, attached, or returned
    got,            \* the body each reader has delivered
    source,         \* how the PUT body ended
    outcome,        \* what the consumer future (write_file) returned
    result          \* what the Ring future returned

tailVars == <<phase, produced, stored, tails, got, source, outcome, result>>

Results == {"None", "Ok", "Err"}

(* The upload's first n bytes, each tagged with its stream position.      *)
Upload(n) == [i \in 1 .. n |-> i - 1]

(* Reader tasks still in Ring.futures.                                    *)
Attached == {r \in Readers : tails[r] = "Attached"}

Init ==
    /\ phase = "Running"
    /\ produced = 0
    /\ stored = <<>>
    /\ tails = [r \in Readers |-> "Detached"]
    /\ got = [r \in Readers |-> <<>>]
    /\ source = "Streaming"
    /\ outcome = "None"
    /\ result = "None"

-----------------------------------------------------------------------------
(* Ring::poll, producer half: the body yields bytes up to position n.     *)
Accept(n) ==
    /\ phase = "Running"
    /\ source = "Streaming"
    /\ produced < n /\ n <= StreamMax
    /\ produced' = n
    /\ UNCHANGED <<phase, stored, tails, got, source, outcome, result>>

(* Ring::poll, producer half: the body ends with EOF or an error.         *)
Close(e) ==
    /\ phase = "Running"
    /\ source = "Streaming"
    /\ e = "Err" => Failures
    /\ source' = e
    /\ UNCHANGED <<phase, produced, stored, tails, got, outcome, result>>

(* write_from_ring: a write completes and the file grows to k bytes.      *)
Store(k) ==
    /\ phase = "Running"
    /\ Len(stored) < k /\ k <= produced
    /\ stored' = Upload(k)
    /\ UNCHANGED <<phase, produced, tails, got, source, outcome, result>>

(* Ring::push, from the select loop of process_put_request.               *)
Attach(r) ==
    /\ phase # "Terminated"
    /\ tails[r] = "Detached"
    /\ tails' = [tails EXCEPT ![r] = "Attached"]
    /\ UNCHANGED <<phase, produced, stored, got, source, outcome, result>>

(* RingReader::poll_read or the fallback read hands the GET more bytes.   *)
Deliver(r, k) ==
    /\ tails[r] = "Attached"
    /\ Len(got[r]) < k /\ k <= produced
    /\ got' = [got EXCEPT ![r] = Upload(k)]
    /\ UNCHANGED <<phase, produced, stored, tails, source, outcome, result>>

(* The GET's body ends: cleanly (Ok(0)) only once it has every byte the   *)
(* upload will ever accept, or with an error when something can fail.     *)
Detach(r, how) ==
    /\ tails[r] = "Attached"
    /\ how = "Failed" => Failures
    /\ how = "Finished" => /\ Len(got[r]) = produced
                           /\ source # "Streaming" \/ outcome # "None"
    /\ tails' = [tails EXCEPT ![r] = how]
    /\ UNCHANGED <<phase, produced, stored, got, source, outcome, result>>

(* The consumer future resolves: Ok only after the whole body reached the *)
(* file (write_from_ring returned at EOF and the 201 was written).  With  *)
(* no reader attached the Ring returns its result at once, otherwise it   *)
(* stashes it.                                                            *)
ConsumerDone(res) ==
    /\ phase = "Running"
    /\ res = "Ok" => source = "Eof" /\ Len(stored) = produced
    /\ res = "Err" => Failures
    /\ outcome' = res
    /\ IF Attached = {}
       THEN phase' = "Terminated" /\ result' = res
       ELSE phase' = "ConsumerSettled" /\ UNCHANGED result
    /\ UNCHANGED <<produced, stored, tails, got, source>>

(* Ring::poll in Err(stash): the last reader has returned.                *)
Finish ==
    /\ phase = "ConsumerSettled"
    /\ Attached = {}
    /\ phase' = "Terminated"
    /\ result' = outcome
    /\ UNCHANGED <<produced, stored, tails, got, source, outcome>>

Next ==
    \/ \E n \in 1 .. StreamMax : Accept(n)
    \/ \E e \in {"Eof", "Err"} : Close(e)
    \/ \E k \in 1 .. StreamMax : Store(k)
    \/ \E r \in Readers : \/ Attach(r)
                          \/ \E k \in 1 .. StreamMax : Deliver(r, k)
                          \/ \E how \in {"Finished", "Failed"} : Detach(r, how)
    \/ \E res \in {"Ok", "Err"} : ConsumerDone(res)
    \/ Finish

SafeSpec == Init /\ [][Next]_tailVars

(* The body is pulled until it ends, the drain keeps writing and the      *)
(* consumer eventually returns, every attached reader reads on and ends, *)
(* and the Ring returns once they have: what LiveRing's fairness yields   *)
(* when the disk does not fail.                                           *)
Fairness ==
    /\ WF_tailVars(\E n \in 1 .. StreamMax : Accept(n) \/ \E e \in {"Eof", "Err"} : Close(e))
    /\ WF_tailVars(\E k \in 1 .. StreamMax : Store(k))
    /\ WF_tailVars(\E res \in {"Ok", "Err"} : ConsumerDone(res))
    /\ \A r \in Readers :
          WF_tailVars(\/ \E k \in 1 .. StreamMax : Deliver(r, k)
                      \/ \E how \in {"Finished", "Failed"} : Detach(r, how))
    /\ WF_tailVars(Finish)

Spec == SafeSpec /\ Fairness
=============================================================================

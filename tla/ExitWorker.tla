---------------------------- MODULE ExitWorker -----------------------------
(***************************************************************************)
(* The storage node's side of a graceful exit (storagenode/gracefulexit    *)
(* and storagenode/piecetransfer): the chore starts a worker for an exit   *)
(* that is not finished, the worker takes the messages of the satellite    *)
(* from one stream, transfers and deletes pieces concurrently, answers,    *)
(* and records how the exit ended.                                         *)
(*                                                                         *)
(* A stream keeps the order of messages.  When it breaks, or a process     *)
(* stops, what is under way in it is lost.                                 *)
(***************************************************************************)
EXTENDS Integers, Sequences, FiniteSets

CONSTANTS
    Nodes,
    Exiting,    \* nodes whose operators start a graceful exit
    Segments,
    Numbers,    \* piece numbers of a segment
    Cheats,     \* exiting nodes whose answers may fail the validation
    MaxFaults   \* bound: broken streams and stopped processes

Piece == Segments \X Numbers

ASSUME ExitWorkerAssumption ==
    /\ Exiting \subseteq Nodes
    /\ Cheats \subseteq Exiting
    /\ MaxFaults \in Nat

VARIABLES
    faults,
    blobs,     \* pieces that a node stores
    record,    \* the exit in the node's database
    worker,    \* the worker of an exiting node
    jobs,      \* messages that the worker's limiter handles
    linked,    \* whether the stream joins its two ends
    toNode,    \* messages of the satellite
    toSat      \* answers of the node

workerVars == <<faults, blobs, record, worker, jobs, linked, toNode, toSat>>

Message(type, p, to) == [type |-> type, piece |-> p, to |-> to]
Answer(type, p) == [type |-> type, piece |-> p]

Fault == faults < MaxFaults /\ faults' = faults + 1

\* The worker's end of the stream is gone: its answers are lost.
Answering(n) == worker[n] = "running" /\ linked[n]

Reply(n, type, p) ==
    toSat' = IF Answering(n)
             THEN [toSat EXCEPT ![n] = Append(@, Answer(type, p))] ELSE toSat
-----------------------------------------------------------------------------
\* Run: the next message.  Transfers and deletions go to the limiter.
NextMessage(n) ==
    /\ worker[n] = "running"
    /\ toNode[n] # <<>>
    /\ toNode' = [toNode EXCEPT ![n] = Tail(@)]
    /\ LET m == Head(toNode[n])
           Leave(as, outcome) ==
               /\ worker' = [worker EXCEPT ![n] = as]
               /\ record' = [record EXCEPT ![n] = outcome]
               /\ linked' = [linked EXCEPT ![n] = FALSE]
               /\ UNCHANGED jobs
       IN CASE m.type \in {"transfer", "delete"} ->
                 /\ jobs' = [jobs EXCEPT ![n] = @ \union {m}]
                 /\ UNCHANGED <<worker, record, linked>>
            [] m.type = "not ready" -> Leave("leaving", record[n])
            [] m.type = "refused"   -> Leave("leaving", "cancelled")
            [] m.type = "failed"    -> Leave("leaving", "failed")
            [] m.type = "completed" -> Leave("wiping", "completed")
    /\ UNCHANGED <<faults, blobs, toSat>>

\* ... or the end of the stream.
StreamOver(n) ==
    /\ worker[n] = "running"
    /\ toNode[n] = <<>>
    /\ ~linked[n]
    /\ worker' = [worker EXCEPT ![n] = "leaving"]
    /\ UNCHANGED <<faults, blobs, record, jobs, linked, toNode, toSat>>

JobDone(n, m) == jobs' = [jobs EXCEPT ![n] = @ \ {m}]

\* TransferPiece: the piece is uploaded to the new node.
Transfer(n, m) ==
    /\ m \in jobs[n] /\ m.type = "transfer"
    /\ \/ /\ m.piece \notin blobs[n]
          /\ Reply(n, "not found", m.piece)
          /\ UNCHANGED blobs
       \/ /\ m.piece \in blobs[n]
          /\ blobs' = [blobs EXCEPT ![m.to] = @ \union {m.piece}]
          /\ \/ Reply(n, "succeeded", m.piece)
             \/ n \in Cheats /\ Reply(n, "invalid", m.piece)
    /\ JobDone(n, m)
    /\ UNCHANGED <<faults, record, worker, linked, toNode>>

\* The upload fails.
TransferFails(n, m) ==
    /\ m \in jobs[n] /\ m.type = "transfer"
    /\ m.piece \in blobs[n]
    /\ Reply(n, "failed", m.piece)
    /\ JobDone(n, m)
    /\ UNCHANGED <<faults, blobs, record, worker, linked, toNode>>

\* DeletePiece.
DeletePiece(n, m) ==
    /\ m \in jobs[n] /\ m.type = "delete"
    /\ blobs' = [blobs EXCEPT ![n] = @ \ {m.piece}]
    /\ JobDone(n, m)
    /\ UNCHANGED <<faults, record, worker, linked, toNode, toSat>>

\* Run waits for its limiter before it returns.
Left(n) ==
    /\ worker[n] = "leaving"
    /\ jobs[n] = {}
    /\ worker' = [worker EXCEPT ![n] = "idle"]
    /\ UNCHANGED <<faults, blobs, record, jobs, linked, toNode, toSat>>

\* DeleteSatelliteData, after the limiter.
DeleteSatelliteData(n) ==
    /\ worker[n] = "wiping"
    /\ jobs[n] = {}
    /\ blobs' = [blobs EXCEPT ![n] = {}]
    /\ worker' = [worker EXCEPT ![n] = "leaving"]
    /\ UNCHANGED <<faults, record, jobs, linked, toNode, toSat>>

\* The node stops and starts.  The satellite may still read what was sent.
NodeCrash(n) ==
    /\ worker[n] # "idle"
    /\ Fault
    /\ worker' = [worker EXCEPT ![n] = "idle"]
    /\ jobs' = [jobs EXCEPT ![n] = {}]
    /\ linked' = [linked EXCEPT ![n] = FALSE]
    /\ toNode' = [toNode EXCEPT ![n] = <<>>]
    /\ UNCHANGED <<blobs, record, toSat>>

JobStep(n) == \E m \in jobs[n] : Transfer(n, m) \/ TransferFails(n, m)
                                  \/ DeletePiece(n, m)

WorkerStep(n) ==
    \/ NextMessage(n) \/ StreamOver(n) \/ Left(n) \/ DeleteSatelliteData(n)
    \/ JobStep(n)
=============================================================================

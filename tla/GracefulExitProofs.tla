------------------------ MODULE GracefulExitProofs ------------------------
(***************************************************************************)
(* Graceful exit, for any number of nodes, segments and pieces.            *)
(***************************************************************************)
EXTENDS GracefulExit, SequenceTheorems, TLAPS

\* Nodes that take pieces.
Others == Nodes \ Exiting
Segment == [Numbers -> Nodes \union {None}]
Seen == Segment \union {<<>>}

Transfers == [type : {"transfer"}, piece : Piece, to : Others]
Deletions == [type : {"delete"}, piece : Piece, to : {None}]
Notices == [type : {"not ready", "refused", "failed", "completed"},
            piece : {None}, to : {None}]
Messages == Transfers \union Deletions \union Notices
AnswerTypes == {"succeeded", "not found", "failed", "invalid"}
Answers == [type : AnswerTypes, piece : Piece]

Items == [failed : Nat, sent : Nat]
Queues == UNION {[P -> Items] : P \in SUBSET Piece}
Pendings == UNION {[P -> Others] : P \in SUBSET Piece}

Senders ==
    [at : {"idle", "list", "batch", "discard", "trim", "count", "put", "done"},
     batch : Queues, piece : Piece \union {None}, to : Others \union {None},
     seen : Seen]
Receivers ==
    [at : {"idle", "wait", "recv", "read", "update", "progress", "dequeue",
           "forget", "judge", "condemn", "disqualify", "record", "announce",
           "clear"},
     type : AnswerTypes \union {None, "completed"}, piece : Piece \union {None},
     seen : Seen]
Loops == [at : {"idle", "collect"}, nodes : SUBSET Exiting,
          todo : SUBSET Segments, buffer : SUBSET (Exiting \X Piece)]
Exits == [initiated : BOOLEAN, looped : BOOLEAN, finished : BOOLEAN,
          success : BOOLEAN, disqualified : BOOLEAN]

NodeTypes ==
    /\ blobs \in [Nodes -> SUBSET Piece]
    /\ record \in [Exiting -> {"exiting", "cancelled", "failed", "completed"}]
    /\ worker \in [Exiting -> {"idle", "running", "leaving", "wiping"}]
    /\ jobs \in [Exiting -> SUBSET (Transfers \union Deletions)]

StreamTypes ==
    /\ linked \in [Exiting -> BOOLEAN]
    /\ toNode \in [Exiting -> Seq(Messages)]
    /\ toSat \in [Exiting -> Seq(Answers)]

TableTypes ==
    /\ pieces \in [Segments -> Segment]
    /\ status \in [Exiting -> Exits]
    /\ queue \in [Exiting -> Queues]
    /\ exhausted \in [Exiting -> SUBSET Piece]

SessionTypes ==
    /\ session \in [Exiting -> {"closed", "initiated", "open"}]
    /\ sender \in [Exiting -> Senders]
    /\ receiver \in [Exiting -> Receivers]
    /\ pending \in [Exiting -> Pendings]

Types == NodeTypes /\ StreamTypes /\ TableTypes /\ SessionTypes /\ loop \in Loops

-----------------------------------------------------------------------------
\* Helpers.

LEMMA EmptyIs == <<>> \in Queues /\ <<>> \in Pendings /\ DOMAIN <<>> = {}
<1>1. DOMAIN <<>> = {}
  OBVIOUS
<1>2. <<>> = [p \in {} |-> None]
  OBVIOUS
<1>3. <<>> \in [{} -> Items] /\ <<>> \in [{} -> Others]
  BY <1>2
<1> QED
  BY <1>1, <1>3 DEF Queues, Pendings

LEMMA QueueIs ==
    ASSUME NEW q \in Queues
    PROVE  /\ DOMAIN q \subseteq Piece
           /\ \A p \in DOMAIN q : q[p] \in Items
           /\ \A p : Without(q, p) \in Queues
           /\ \A P \in SUBSET DOMAIN q : [p \in P |-> q[p]] \in Queues
<1>1. PICK D \in SUBSET Piece : q \in [D -> Items]
  BY DEF Queues
<1>2. ASSUME NEW P \in SUBSET D
      PROVE  [p \in P |-> q[p]] \in Queues
  <2>1. [p \in P |-> q[p]] \in [P -> Items]
    BY <1>1
  <2> QED
    BY <2>1 DEF Queues
<1>3. ASSUME NEW p
      PROVE  Without(q, p) \in Queues
  BY <1>1, <1>2 DEF Without
<1> QED
  BY <1>1, <1>2, <1>3

LEMMA PendingIs ==
    ASSUME NEW q \in Pendings
    PROVE  /\ DOMAIN q \subseteq Piece
           /\ \A p \in DOMAIN q : q[p] \in Others
           /\ \A p : Without(q, p) \in Pendings
           /\ \A p \in Piece, x \in Others : With(q, p, x) \in Pendings
<1>1. PICK D \in SUBSET Piece : q \in [D -> Others]
  BY DEF Pendings
<1>2. ASSUME NEW p
      PROVE  Without(q, p) \in Pendings
  <2>1. Without(q, p) \in [D \ {p} -> Others]
    BY <1>1 DEF Without
  <2> QED
    BY <2>1 DEF Pendings
<1>3. ASSUME NEW p \in Piece, NEW x \in Others
      PROVE  With(q, p, x) \in Pendings
  <2>1. With(q, p, x) \in [D \union {p} -> Others]
    BY <1>1 DEF With
  <2> QED
    BY <2>1 DEF Pendings
<1> QED
  BY <1>1, <1>2, <1>3

LEMMA QueueCounts ==
    ASSUME NEW q \in Queues, NEW p \in DOMAIN q
    PROVE  /\ [q EXCEPT ![p].sent = @ + 1] \in Queues
           /\ \A c \in Nat : [q EXCEPT ![p].failed = c] \in Queues
<1>1. PICK D \in SUBSET Piece : q \in [D -> Items]
  BY DEF Queues
<1>2. [q EXCEPT ![p].sent = @ + 1] \in [D -> Items]
  BY <1>1 DEF Items
<1>3. ASSUME NEW c \in Nat
      PROVE  [q EXCEPT ![p].failed = c] \in [D -> Items]
  BY <1>1 DEF Items
<1> QED
  BY <1>2, <1>3 DEF Queues

LEMMA IdleIs ==
    /\ NotSending \in Senders /\ NotReceiving \in Receivers
    /\ NoExit \in Exits /\ NotLooping \in Loops
<1>1. NotSending \in Senders
  BY EmptyIs DEF NotSending, Senders, Seen
<1>2. NotReceiving \in Receivers
  BY DEF NotReceiving, Receivers, Seen
<1>3. NoExit \in Exits
  BY DEF NoExit, Exits
<1>4. NotLooping \in Loops
  BY DEF NotLooping, Loops
<1> QED
  BY <1>1, <1>2, <1>3, <1>4

LEMMA InitTypes == Init => Types
<1> SUFFICES ASSUME Init PROVE Types
  OBVIOUS
<1>1. NodeTypes
  BY DEF Init, NodeTypes, Piece
<1>2. StreamTypes
  BY DEF Init, StreamTypes
<1>3. TableTypes
  BY EmptyIs, IdleIs, GracefulExitAssumption DEF Init, TableTypes, Segment
<1>4. SessionTypes
  BY EmptyIs, IdleIs DEF Init, SessionTypes
<1> QED
  BY <1>1, <1>2, <1>3, <1>4, IdleIs DEF Init, Types

LEMMA UpdatedIs ==
    ASSUME NEW st \in Exits
    PROVE  /\ \A success \in BOOLEAN :
                 /\ Updated(st, "initiated", success) =
                       [st EXCEPT !.initiated = TRUE, !.success = success]
                 /\ Updated(st, "looped", success) =
                       [st EXCEPT !.looped = TRUE, !.success = success]
                 /\ Updated(st, "finished", success) =
                       [st EXCEPT !.finished = TRUE, !.success = success]
           /\ \A time \in {"initiated", "looped", "finished"}, success \in BOOLEAN :
                 Updated(st, time, success) \in Exits
<1>1. \A success \in BOOLEAN :
         /\ Updated(st, "initiated", success) = [st EXCEPT !.initiated = TRUE, !.success = success]
         /\ Updated(st, "looped", success) = [st EXCEPT !.looped = TRUE, !.success = success]
         /\ Updated(st, "finished", success) = [st EXCEPT !.finished = TRUE, !.success = success]
  BY DEF Updated, Exits
<1>2. \A success \in BOOLEAN :
         /\ [st EXCEPT !.initiated = TRUE, !.success = success] \in Exits
         /\ [st EXCEPT !.looped = TRUE, !.success = success] \in Exits
         /\ [st EXCEPT !.finished = TRUE, !.success = success] \in Exits
  BY DEF Exits
<1> QED
  BY <1>1, <1>2

LEMMA MessageIs ==
    /\ \A t \in {"not ready", "refused", "failed", "completed"} : Bare(t) \in Messages
    /\ \A success : Finished(success) \in Messages
    /\ \A p \in Piece, x \in Others : Message("transfer", p, x) \in Messages
    /\ \A p \in Piece : Message("delete", p, None) \in Messages
BY DEF Bare, Finished, Message, Messages, Notices, Transfers, Deletions

LEMMA SendTypes ==
    ASSUME StreamTypes, NEW n \in Exiting, NEW ms \in Seq(Messages), SendMessages(n, ms)
    PROVE  toNode' \in [Exiting -> Seq(Messages)]
BY DEF StreamTypes, SendMessages

LEMMA ReturnTypes ==
    ASSUME StreamTypes, SessionTypes, NEW n \in Exiting, NEW ms \in Seq(Messages),
           ReturnWith(n, ms)
    PROVE  StreamTypes' /\ SessionTypes'
<1>1. StreamTypes'
  BY SendTypes DEF ReturnWith, StreamTypes
<1>2. SessionTypes'
  BY EmptyIs, IdleIs DEF ReturnWith, SessionTypes
<1> QED
  BY <1>1, <1>2

LEMMA ReturnEmpty ==
    ASSUME StreamTypes, SessionTypes, NEW n \in Exiting, Return(n)
    PROVE  StreamTypes' /\ SessionTypes'
<1>1. <<>> \in Seq(Messages)
  OBVIOUS
<1> QED
  BY <1>1, ReturnTypes DEF Return

LEMMA ReturnOne ==
    ASSUME StreamTypes, SessionTypes, NEW n \in Exiting, NEW m \in Messages,
           ReturnWith(n, <<m>>)
    PROVE  StreamTypes' /\ SessionTypes'
<1>1. <<m>> \in Seq(Messages)
  OBVIOUS
<1> QED
  BY <1>1, ReturnTypes

LEMMA SendOne ==
    ASSUME StreamTypes, NEW n \in Exiting, NEW m \in Messages, Send(n, m)
    PROVE  toNode' \in [Exiting -> Seq(Messages)]
<1>1. <<m>> \in Seq(Messages)
  OBVIOUS
<1> QED
  BY <1>1, SendTypes DEF Send

\* Values that NextOf and Back make.
LEMMA NextTypes ==
    ASSUME SessionTypes, NEW n \in Exiting, NEW p, NextOf(n, p)
    PROVE  sender' \in [Exiting -> Senders]
<1>1. sender[n].batch \in Queues
  BY DEF SessionTypes, Senders
<1>2. Without(sender[n].batch, p) \in Queues
  BY <1>1, QueueIs
<1>3. \A at \in {"list", "batch"} :
         [NotSending EXCEPT !.batch = Without(sender[n].batch, p), !.at = at] \in Senders
  BY <1>2, IdleIs DEF Senders
<1> QED
  BY <1>3 DEF NextOf, SessionTypes

LEMMA PlaceTypes ==
    ASSUME SessionTypes, NEW n \in Exiting
    PROVE  /\ \A p \in Piece, at \in {"discard", "trim"} : Pick(n, p, at) => sender' \in [Exiting -> Senders]
           /\ \A at \in {"wait", "recv", "read", "update", "progress", "dequeue",
                         "forget", "judge", "condemn", "disqualify", "record",
                         "announce", "clear"} :
                 Goto(n, at) => receiver' \in [Exiting -> Receivers]
           /\ Back(n) => receiver' \in [Exiting -> Receivers]
<1>1. ASSUME NEW p \in Piece, NEW at \in {"discard", "trim"}, Pick(n, p, at)
      PROVE  sender' \in [Exiting -> Senders]
  <2>1. sender[n] \in Senders
    BY DEF SessionTypes
  <2>2. [sender[n] EXCEPT !.at = at, !.piece = p] \in Senders
    BY <2>1 DEF Senders
  <2>3. sender' = [sender EXCEPT ![n] = [sender[n] EXCEPT !.at = at, !.piece = p]]
    BY <1>1 DEF Pick, SessionTypes
  <2> QED
    BY <2>2, <2>3 DEF SessionTypes
<1>2. ASSUME NEW at \in {"wait", "recv", "read", "update", "progress", "dequeue",
                         "forget", "judge", "condemn", "disqualify", "record",
                         "announce", "clear"}, Goto(n, at)
      PROVE  receiver' \in [Exiting -> Receivers]
  BY <1>2 DEF SessionTypes, Receivers, Goto
<1>3. ASSUME Back(n) PROVE receiver' \in [Exiting -> Receivers]
  <2>1. [NotReceiving EXCEPT !.at = "wait"] \in Receivers
    BY DEF NotReceiving, Receivers, Seen
  <2> QED
    BY <1>3, <2>1 DEF SessionTypes, Back
<1> QED
  BY <1>1, <1>2, <1>3

LEMMA MovedIs ==
    ASSUME pieces \in [Segments -> Segment], NEW p \in Piece, NEW x \in Nodes \union {None}
    PROVE  Moved(p, x) \in [Segments -> Segment]
BY DEF Moved, Piece, Segment

-----------------------------------------------------------------------------
\* Types.

\* A session changes what is its own.
LEMMA SessionKeeps ==
    ASSUME Types, UNCHANGED OfNode, UNCHANGED loop,
           StreamTypes', TableTypes', SessionTypes'
    PROVE  Types'
BY DEF Types, NodeTypes, OfNode

LEMMA ListTypes ==
    ASSUME Types, NEW n \in Exiting, List(n)
    PROVE  Types'
<1>1. sender[n] \in Senders /\ queue[n] \in Queues
  BY DEF Types, SessionTypes, TableTypes
<1>2. PICK ps : ps = Incomplete(queue[n])
  OBVIOUS
<1>3. ps \subseteq DOMAIN queue[n]
  BY <1>2 DEF Incomplete
<1>4. [p \in ps |-> queue[n][p]] \in Queues
  BY <1>1, <1>3, QueueIs
<1>5. \A at \in {"done", "batch"} :
         [sender[n] EXCEPT !.at = at, !.batch = [p \in ps |-> queue[n][p]]] \in Senders
  BY <1>1, <1>4 DEF Senders
<1>6. sender' = [sender EXCEPT ![n] =
         [sender[n] EXCEPT !.at = IF ps = {} THEN "done" ELSE "batch",
                           !.batch = [p \in ps |-> queue[n][p]]]]
  BY <1>2 DEF List, Types, SessionTypes
<1>7. sender' \in [Exiting -> Senders]
  BY <1>5, <1>6 DEF Types, SessionTypes
<1> QED
  BY <1>7, SessionKeeps DEF List, streamVars, tables, OfLoop, Types, StreamTypes,
     TableTypes, SessionTypes

LEMMA InBatch ==
    ASSUME Types, NEW n \in Exiting
    PROVE  /\ sender[n] \in Senders /\ sender[n].batch \in Queues
           /\ DOMAIN sender[n].batch \subseteq Piece
           /\ \A p \in DOMAIN sender[n].batch : sender[n].batch[p] \in Items
<1>1. sender[n] \in Senders
  BY DEF Types, SessionTypes
<1>2. sender[n].batch \in Queues
  BY <1>1 DEF Senders
<1> QED
  BY <1>1, <1>2, QueueIs

LEMMA IncomingTypes ==
    ASSUME Types, NEW n \in Exiting, NEW p \in DOMAIN sender[n].batch,
           \/ GiveUp(n, p) \/ InvalidSegment(n, p) \/ PieceGone(n, p)
           \/ ReadSurplus(n, p) \/ SendTransfer(n, p)
    PROVE  Types'
<1> USE DEF streamVars, tables, OfLoop
<1>0. p \in Piece
  BY InBatch
<1>1. CASE GiveUp(n, p)
  <2>1. sender' \in [Exiting -> Senders]
    BY <1>0, <1>1, PlaceTypes DEF GiveUp, Types
  <2>2. exhausted' \in [Exiting -> SUBSET Piece]
    BY <1>0, <1>1 DEF GiveUp, Types, TableTypes
  <2> QED
    BY <1>1, <2>1, <2>2, SessionKeeps DEF GiveUp, Types, StreamTypes, TableTypes, SessionTypes
<1>2. CASE InvalidSegment(n, p)
  <2>1. sender' \in [Exiting -> Senders]
    BY <1>0, <1>2, PlaceTypes DEF InvalidSegment, Types
  <2> QED
    BY <1>2, <2>1, SessionKeeps DEF InvalidSegment, Types, StreamTypes, TableTypes, SessionTypes
<1>3. CASE PieceGone(n, p)
  <2>1. StreamTypes' /\ SessionTypes'
    BY <1>3, ReturnEmpty DEF PieceGone, Types
  <2>2. queue' \in [Exiting -> Queues]
    BY <1>3, QueueIs DEF PieceGone, DeleteTransferQueueItem, Types, TableTypes
  <2> QED
    BY <1>3, <2>1, <2>2, SessionKeeps DEF PieceGone, Types, TableTypes
<1>4. CASE ReadSurplus(n, p)
  <2>1. sender[n] \in Senders /\ pieces[p[1]] \in Seen
    BY <1>0 DEF Types, SessionTypes, TableTypes, Piece, Seen
  <2>2. [sender[n] EXCEPT !.at = "trim", !.piece = p, !.seen = pieces[p[1]]] \in Senders
    BY <1>0, <2>1 DEF Senders
  <2>3. sender' = [sender EXCEPT ![n] =
           [sender[n] EXCEPT !.at = "trim", !.piece = p, !.seen = pieces[p[1]]]]
    BY <1>4 DEF ReadSurplus, Types, SessionTypes
  <2>4. sender' \in [Exiting -> Senders]
    BY <2>2, <2>3 DEF Types, SessionTypes
  <2> QED
    BY <1>4, <2>4, SessionKeeps DEF ReadSurplus, Types, StreamTypes, TableTypes, SessionTypes
<1>5. CASE SendTransfer(n, p)
  <2>1. ASSUME Return(n) PROVE Types'
    BY <1>5, <2>1, ReturnEmpty, SessionKeeps DEF SendTransfer, Types, TableTypes
  <2>2. ASSUME NEW x \in Replacements(p[1]), Send(n, Message("transfer", p, x)),
               sender' = [sender EXCEPT ![n].at = "count", ![n].piece = p, ![n].to = x],
               UNCHANGED <<linked, toSat, session, receiver, pending>>
        PROVE  Types'
    <3>1. x \in Others
      BY DEF Replacements, Others
    <3>2. toNode' \in [Exiting -> Seq(Messages)]
      BY <1>0, <2>2, <3>1, MessageIs, SendOne DEF Types
    <3>3. [sender[n] EXCEPT !.at = "count", !.piece = p, !.to = x] \in Senders
      BY <1>0, <3>1, InBatch DEF Senders
    <3>4. sender' = [sender EXCEPT ![n] = [sender[n] EXCEPT !.at = "count", !.piece = p, !.to = x]]
      BY <2>2 DEF Types, SessionTypes
    <3>5. sender' \in [Exiting -> Senders]
      BY <3>3, <3>4 DEF Types, SessionTypes
    <3> QED
      BY <1>5, <2>2, <3>2, <3>5, SessionKeeps DEF SendTransfer, Types, StreamTypes,
         TableTypes, SessionTypes
  <2> QED
    BY <1>5, <2>1, <2>2 DEF SendTransfer
<1> QED
  BY <1>1, <1>2, <1>3, <1>4, <1>5

\* The piece in the hands of the sender.
Holding == {"discard", "trim", "count", "put"}

EndTypes ==
    \A n \in Exiting :
       /\ sender[n].at \in Holding => sender[n].piece \in DOMAIN sender[n].batch
       /\ sender[n].at \in {"count", "put"} => sender[n].to \in Others
       /\ receiver[n].at \in {"read", "update", "progress", "dequeue", "forget"}
             => receiver[n].piece \in DOMAIN pending[n]

LEMMA SenderTypes ==
    ASSUME Types, EndTypes, NEW n \in Exiting, SenderStep(n)
    PROVE  Types'
<1> USE DEF streamVars, tables, OfLoop
<1>1. CASE List(n)
  BY <1>1, ListTypes
<1>2. CASE Discard(n)
  <2>1. sender' \in [Exiting -> Senders]
    BY <1>2, NextTypes DEF Discard, Types
  <2>2. queue' \in [Exiting -> Queues]
    BY <1>2, QueueIs DEF Discard, DeleteTransferQueueItem, Types, TableTypes
  <2> QED
    BY <1>2, <2>1, <2>2, SessionKeeps DEF Discard, Types, StreamTypes, TableTypes, SessionTypes
<1>3. CASE Trim(n)
  <2>1. sender[n].piece \in Piece
    BY <1>3, InBatch DEF Trim, At, EndTypes, Holding
  <2>2. ASSUME Return(n), UNCHANGED pieces PROVE Types'
    BY <1>3, <2>2, ReturnEmpty, SessionKeeps DEF Trim, Types, TableTypes
  <2>3. ASSUME pieces' = Moved(sender[n].piece, None),
               sender' = [sender EXCEPT ![n].at = "discard"],
               UNCHANGED <<linked, toNode, toSat, session, receiver, pending>>
        PROVE  Types'
    <3>1. pieces' \in [Segments -> Segment]
      BY <2>1, <2>3, MovedIs DEF Types, TableTypes
    <3>2. sender' \in [Exiting -> Senders]
      BY <2>3 DEF Types, SessionTypes, Senders
    <3> QED
      BY <1>3, <2>3, <3>1, <3>2, SessionKeeps DEF Trim, Types, StreamTypes, TableTypes, SessionTypes
  <2> QED
    BY <1>3, <2>2, <2>3 DEF Trim
<1>4. CASE CountSend(n)
  <2>1. sender' \in [Exiting -> Senders]
    BY <1>4 DEF CountSend, Types, SessionTypes, Senders
  <2>2. queue[n] \in Queues
    BY DEF Types, TableTypes
  <2>3. ASSUME sender[n].piece \in DOMAIN queue[n]
        PROVE  queue' = [queue EXCEPT ![n] = [queue[n] EXCEPT ![sender[n].piece].sent = @ + 1]]
    BY <1>4, <2>3 DEF CountSend, Types, TableTypes
  <2>4. queue' \in [Exiting -> Queues]
    BY <1>4, <2>2, <2>3, QueueCounts DEF CountSend, Types, TableTypes
  <2> QED
    BY <1>4, <2>1, <2>4, SessionKeeps DEF CountSend, Types, StreamTypes, TableTypes, SessionTypes
<1>5. CASE Put(n)
  <2>1. sender' \in [Exiting -> Senders]
    BY <1>5, NextTypes DEF Put, Types
  <2>2. sender[n].piece \in Piece /\ sender[n].to \in Others
    BY <1>5, InBatch DEF Put, At, EndTypes, Holding
  <2>3. pending' \in [Exiting -> Pendings]
    BY <1>5, <2>2, PendingIs DEF Put, Types, SessionTypes
  <2> QED
    BY <1>5, <2>1, <2>3, SessionKeeps DEF Put, Types, StreamTypes, TableTypes, SessionTypes
<1>6. CASE \E p \in DOMAIN sender[n].batch :
              \/ GiveUp(n, p) \/ InvalidSegment(n, p) \/ PieceGone(n, p)
              \/ ReadSurplus(n, p) \/ SendTransfer(n, p)
  BY <1>6, IncomingTypes
<1> QED
  BY <1>1, <1>2, <1>3, <1>4, <1>5, <1>6 DEF SenderStep

LEMMA InHand ==
    ASSUME Types, NEW n \in Exiting
    PROVE  /\ receiver[n] \in Receivers /\ pending[n] \in Pendings
           /\ DOMAIN pending[n] \subseteq Piece
           /\ \A p \in DOMAIN pending[n] : pending[n][p] \in Others
<1>1. receiver[n] \in Receivers /\ pending[n] \in Pendings
  BY DEF Types, SessionTypes
<1> QED
  BY <1>1, PendingIs

LEMMA ForgottenTypes ==
    ASSUME Types, NEW n \in Exiting, Forgotten(n)
    PROVE  pending' \in [Exiting -> Pendings]
BY PendingIs DEF Forgotten, Types, SessionTypes

LEMMA RecvTypes ==
    ASSUME Types, NEW n \in Exiting, Recv(n)
    PROVE  Types'
<1> USE DEF streamVars, tables, OfLoop
<1>1. toSat[n] \in Seq(Answers) /\ toSat[n] # <<>>
  BY DEF Recv, Types, StreamTypes
<1>2. Head(toSat[n]) \in Answers /\ Tail(toSat[n]) \in Seq(Answers)
  BY <1>1
<1>3. ASSUME toSat' = [toSat EXCEPT ![n] = Tail(@)], UNCHANGED <<linked, toNode>>
      PROVE  StreamTypes'
  BY <1>2, <1>3 DEF Types, StreamTypes
<1>4. CASE Return(n)
  BY <1>4, ReturnEmpty, SessionKeeps DEF Recv, Types, TableTypes
<1>5. CASE Back(n) /\ toSat' = [toSat EXCEPT ![n] = Tail(@)]
           /\ UNCHANGED <<linked, toNode, session, sender, pending>>
  <2>1. receiver' \in [Exiting -> Receivers]
    BY <1>5, PlaceTypes DEF Types
  <2> QED
    BY <1>3, <1>5, <2>1, SessionKeeps DEF Recv, Types, TableTypes, SessionTypes
<1>6. CASE /\ \E at \in {"condemn", "read"} :
                 receiver' = [receiver EXCEPT ![n] =
                    [NotReceiving EXCEPT !.at = at, !.type = Head(toSat[n]).type,
                                         !.piece = Head(toSat[n]).piece]]
           /\ toSat' = [toSat EXCEPT ![n] = Tail(@)]
           /\ UNCHANGED <<linked, toNode, session, sender, pending>>
  <2>1. \A at \in {"condemn", "read"} :
           [NotReceiving EXCEPT !.at = at, !.type = Head(toSat[n]).type,
                                !.piece = Head(toSat[n]).piece] \in Receivers
    BY <1>2 DEF NotReceiving, Receivers, Seen, Answers
  <2>2. receiver' \in [Exiting -> Receivers]
    BY <1>6, <2>1 DEF Types, SessionTypes
  <2> QED
    BY <1>3, <1>6, <2>2, SessionKeeps DEF Recv, Types, TableTypes, SessionTypes
<1> QED
  BY <1>4, <1>5, <1>6 DEF Recv

LEMMA OutcomeTypes ==
    ASSUME Types, NEW n \in Exiting, NEW success \in BOOLEAN
    PROVE  /\ [status EXCEPT ![n] = Updated(@, "finished", success)] \in [Exiting -> Exits]
           /\ [status EXCEPT ![n].disqualified = TRUE] \in [Exiting -> Exits]
<1>1. status \in [Exiting -> Exits] /\ status[n] \in Exits
  BY DEF Types, TableTypes
<1>2. Updated(status[n], "finished", success) \in Exits
  BY <1>1, UpdatedIs
<1>3. [status[n] EXCEPT !.disqualified = TRUE] \in Exits
  BY <1>1 DEF Exits
<1>4. [status EXCEPT ![n].disqualified = TRUE] =
         [status EXCEPT ![n] = [status[n] EXCEPT !.disqualified = TRUE]]
  BY <1>1
<1> QED
  BY <1>1, <1>2, <1>3, <1>4

LEMMA QueueCleared ==
    ASSUME Types, NEW n \in Exiting, DeleteTransferQueueItems(n)
    PROVE  queue' \in [Exiting -> Queues]
BY EmptyIs DEF DeleteTransferQueueItems, Types, TableTypes

LEMMA MoveTypes ==
    ASSUME Types, NEW n \in Exiting,
           receiver' \in [Exiting -> Receivers],
           UNCHANGED <<streamVars, session, sender, pending, OfNode, loop>>, TableTypes'
    PROVE  Types'
BY SessionKeeps DEF Types, StreamTypes, SessionTypes, streamVars

LEMMA ReadTypes ==
    ASSUME Types, EndTypes, NEW n \in Exiting,
           ReadSucceeded(n) \/ ReadNotFound(n) \/ ReadFailed(n)
    PROVE  Types'
<1> USE DEF tables, OfLoop
<1>1. receiver[n].at = "read" /\ RPiece(n) \in Piece
  BY InHand DEF ReadSucceeded, ReadNotFound, ReadFailed, Rcv, EndTypes, RPiece
<1>2. pieces[RPiece(n)[1]] \in Segment
  BY <1>1 DEF Types, TableTypes, Piece
<1>3. ASSUME receiver' = [receiver EXCEPT ![n].at = "update", ![n].seen = pieces[RPiece(n)[1]]]
      PROVE  receiver' \in [Exiting -> Receivers]
  <2>1. [receiver[n] EXCEPT !.at = "update", !.seen = pieces[RPiece(n)[1]]] \in Receivers
    BY <1>2, InHand DEF Receivers, Seen
  <2>2. receiver' = [receiver EXCEPT ![n] =
           [receiver[n] EXCEPT !.at = "update", !.seen = pieces[RPiece(n)[1]]]]
    BY <1>3 DEF Types, SessionTypes
  <2> QED
    BY <2>1, <2>2 DEF Types, SessionTypes
<1>4. CASE Return(n) /\ UNCHANGED <<OfNode, tables, OfLoop, exhausted>>
  BY <1>4, ReturnEmpty, SessionKeeps DEF Types, TableTypes
<1>5. CASE ReadSucceeded(n)
  <2>1. CASE Forgotten(n) /\ Back(n) /\ UNCHANGED <<streamVars, session, sender>>
    <3>1. pending' \in [Exiting -> Pendings] /\ receiver' \in [Exiting -> Receivers]
      BY <2>1, ForgottenTypes, PlaceTypes DEF Types
    <3> QED
      BY <1>5, <2>1, <3>1, SessionKeeps DEF ReadSucceeded, Types, StreamTypes, TableTypes, SessionTypes,
         streamVars
  <2> QED
    BY <1>3, <1>4, <1>5, <2>1, MoveTypes DEF ReadSucceeded, Types, TableTypes
<1>6. CASE ReadNotFound(n)
  BY <1>3, <1>4, <1>6, MoveTypes, PlaceTypes DEF ReadNotFound, Types, TableTypes
<1>7. CASE ReadFailed(n)
  <2>1. CASE Return(n) /\ UNCHANGED <<queue, exhausted>>
    BY <1>4, <1>7, <2>1 DEF ReadFailed
  <2>2. CASE RPiece(n) \in DOMAIN queue[n]
    <3>1. PICK count : count = queue[n][RPiece(n)].failed + 1
      OBVIOUS
    <3>2. queue[n] \in Queues
      BY DEF Types, TableTypes
    <3>3. count \in Nat
      BY <2>2, <3>1, <3>2, QueueIs DEF Items
    <3>4. queue' = [queue EXCEPT ![n] = [queue[n] EXCEPT ![RPiece(n)].failed = count]]
      BY <1>7, <2>2, <3>1 DEF ReadFailed, Types, TableTypes
    <3>5. queue' \in [Exiting -> Queues]
      BY <2>2, <3>2, <3>3, <3>4, QueueCounts DEF Types, TableTypes
    <3>6. exhausted' \in [Exiting -> SUBSET Piece]
      BY <1>1, <1>7, <2>2 DEF ReadFailed, Types, TableTypes
    <3>7. Goto(n, "progress") \/ Goto(n, "forget")
      BY <1>7, <2>2 DEF ReadFailed
    <3>8. receiver' \in [Exiting -> Receivers]
      BY <3>7, PlaceTypes DEF Types
    <3> QED
      BY <1>7, <2>2, <3>5, <3>6, <3>8, MoveTypes DEF ReadFailed, Types, TableTypes
  <2> QED
    BY <1>7, <2>1, <2>2 DEF ReadFailed
<1> QED
  BY <1>5, <1>6, <1>7

LEMMA UpdateTypes ==
    ASSUME Types, EndTypes, NEW n \in Exiting, UpdateSegment(n)
    PROVE  Types'
<1> USE DEF tables, OfLoop
<1>1. RPiece(n) \in Piece /\ pending[n][RPiece(n)] \in Others
  BY InHand DEF UpdateSegment, Rcv, EndTypes, RPiece
<1>2. CASE Return(n) /\ UNCHANGED pieces
  BY <1>2, ReturnEmpty, SessionKeeps DEF UpdateSegment, Types, TableTypes
<1>3. CASE Unchanged(RPiece(n), receiver[n].seen)
  <2>1. receiver[n].seen \in Segment
    BY <1>1, <1>3 DEF Unchanged, Types, TableTypes, Piece
  <2>2. \A x \in Nodes \union {None} :
           [pieces EXCEPT ![RPiece(n)[1]] = [receiver[n].seen EXCEPT ![RPiece(n)[2]] = x]]
              \in [Segments -> Segment]
    BY <2>1 DEF Types, TableTypes, Segment
  <2>3. pieces' \in [Segments -> Segment]
    BY <1>1, <1>3, <2>2 DEF UpdateSegment, Others
  <2>4. [receiver[n] EXCEPT !.at = "progress", !.seen = <<>>] \in Receivers
    BY InHand DEF Receivers, Seen
  <2>5. receiver' = [receiver EXCEPT ![n] = [receiver[n] EXCEPT !.at = "progress", !.seen = <<>>]]
    BY <1>3 DEF UpdateSegment, Types, SessionTypes
  <2>6. receiver' \in [Exiting -> Receivers]
    BY <2>4, <2>5 DEF Types, SessionTypes
  <2> QED
    BY <1>3, <2>3, <2>6, MoveTypes DEF UpdateSegment, Types, TableTypes
<1> QED
  BY <1>2, <1>3 DEF UpdateSegment

LEMMA ReceiverTypes ==
    ASSUME Types, EndTypes, NEW n \in Exiting, ReceiverStep(n)
    PROVE  Types'
<1> USE DEF tables, OfLoop
<1>1. CASE Recv(n) \/ UpdateSegment(n)
  BY <1>1, RecvTypes, UpdateTypes
<1>2. CASE ReadSucceeded(n) \/ ReadNotFound(n) \/ ReadFailed(n)
  BY <1>2, ReadTypes
<1>3. CASE Wait(n)
  BY <1>3, PlaceTypes, MoveTypes DEF Wait, Types, TableTypes
<1>4. CASE RecvTimeout(n)
  BY <1>4, ReturnEmpty, SessionKeeps DEF RecvTimeout, Types, TableTypes
<1>5. CASE CountProgress(n)
  <2>1. receiver' \in [Exiting -> Receivers]
    BY <1>5, PlaceTypes DEF CountProgress, Types
  <2> QED
    BY <1>5, <2>1, MoveTypes DEF CountProgress, Types, TableTypes
<1>6. CASE Dequeue(n)
  <2>1. receiver' \in [Exiting -> Receivers]
    BY <1>6, PlaceTypes DEF Dequeue, Types
  <2>2. queue' \in [Exiting -> Queues]
    BY <1>6, QueueIs DEF Dequeue, DeleteTransferQueueItem, Types, TableTypes
  <2> QED
    BY <1>6, <2>1, <2>2, MoveTypes DEF Dequeue, Types, TableTypes
<1>7. CASE Forget(n)
  <2>1. pending' \in [Exiting -> Pendings] /\ receiver' \in [Exiting -> Receivers]
    BY <1>7, ForgottenTypes, PlaceTypes DEF Forget, Types
  <2>2. RPiece(n) \in Piece
    BY <1>7, InHand DEF Forget, Rcv, EndTypes, RPiece
  <2>3. toNode' \in [Exiting -> Seq(Messages)]
    BY <1>7, <2>2, MessageIs, SendOne DEF Forget, Types, StreamTypes
  <2> QED
    BY <1>7, <2>1, <2>3, SessionKeeps DEF Forget, Types, StreamTypes, TableTypes, SessionTypes
<1>8. CASE Judge(n)
  <2>1. ASSUME status' = [status EXCEPT ![n] = Updated(@, "finished", FALSE)],
               DeleteTransferQueueItems(n), ReturnWith(n, <<Bare("refused")>>)
        PROVE  Types'
    <3>1. StreamTypes' /\ SessionTypes'
      BY <2>1, MessageIs, ReturnOne DEF Types
    <3>2. status' \in [Exiting -> Exits] /\ queue' \in [Exiting -> Queues]
      BY <2>1, OutcomeTypes, QueueCleared
    <3> QED
      BY <1>8, <3>1, <3>2, SessionKeeps DEF Judge, Types, TableTypes
  <2>2. ASSUME Return(n), UNCHANGED <<status, queue>> PROVE Types'
    BY <1>8, <2>2, ReturnEmpty, SessionKeeps DEF Judge, Types, TableTypes
  <2>3. ASSUME \E type \in {"failed", "completed"}, at \in {"disqualify", "record"} :
                  receiver' = [receiver EXCEPT ![n].type = type, ![n].at = at],
               UNCHANGED <<streamVars, session, sender, pending, status, queue>>
        PROVE  Types'
    <3>1. PICK type \in {"failed", "completed"}, at \in {"disqualify", "record"} :
             receiver' = [receiver EXCEPT ![n].type = type, ![n].at = at]
      BY <2>3
    <3>2. [receiver[n] EXCEPT !.type = type, !.at = at] \in Receivers
      BY InHand DEF Receivers, AnswerTypes
    <3>3. receiver' = [receiver EXCEPT ![n] = [receiver[n] EXCEPT !.type = type, !.at = at]]
      BY <3>1 DEF Types, SessionTypes
    <3>4. receiver' \in [Exiting -> Receivers]
      BY <3>2, <3>3 DEF Types, SessionTypes
    <3> QED
      BY <1>8, <2>3, <3>4, MoveTypes DEF Judge, Types, TableTypes
  <2> QED
    BY <1>8, <2>1, <2>2, <2>3 DEF Judge
<1>9. CASE Condemn(n)
  <2>1. receiver' \in [Exiting -> Receivers]
    BY <1>9, PlaceTypes DEF Condemn, Types
  <2> QED
    BY <1>9, <2>1, MoveTypes DEF Condemn, Types, TableTypes
<1>10. CASE DisqualifyNode(n) \/ RecordOutcome(n)
  <2>1. receiver' \in [Exiting -> Receivers]
    BY <1>10, PlaceTypes DEF DisqualifyNode, RecordOutcome, Types
  <2>2. Verdict(n) \in BOOLEAN
    BY DEF Verdict
  <2>3. status' \in [Exiting -> Exits]
    BY <1>10, <2>2, OutcomeTypes DEF DisqualifyNode, RecordOutcome
  <2> QED
    BY <1>10, <2>1, <2>3, MoveTypes DEF DisqualifyNode, RecordOutcome, Types, TableTypes
<1>11. CASE Announce(n)
  <2>1. receiver' \in [Exiting -> Receivers]
    BY <1>11, PlaceTypes DEF Announce, Types
  <2>2. toNode' \in [Exiting -> Seq(Messages)]
    BY <1>11, MessageIs, SendOne DEF Announce, Types
  <2> QED
    BY <1>11, <2>1, <2>2, SessionKeeps DEF Announce, Types, StreamTypes, TableTypes, SessionTypes
<1>12. CASE ClearQueue(n)
  <2>1. queue' \in [Exiting -> Queues]
    BY <1>12, QueueCleared DEF ClearQueue
  <2>2. CASE Return(n)
    BY <1>12, <2>1, <2>2, ReturnEmpty, SessionKeeps DEF ClearQueue, Types, TableTypes
  <2>3. CASE Back(n) /\ UNCHANGED <<streamVars, session, sender, pending>>
    BY <1>12, <2>1, <2>3, PlaceTypes, MoveTypes DEF ClearQueue, Types, TableTypes
  <2> QED
    BY <1>12, <2>2, <2>3 DEF ClearQueue
<1> QED
  BY <1>1, <1>2, <1>3, <1>4, <1>5, <1>6, <1>7, <1>8, <1>9, <1>10, <1>11, <1>12 DEF ReceiverStep

LEMMA HeadIs ==
    ASSUME NEW S, NEW s \in Seq(S), s # <<>>
    PROVE  /\ Head(s) = s[1] /\ s[1] \in S /\ Len(s) \in Nat /\ Len(s) > 0
           /\ Tail(s) \in Seq(S) /\ Len(Tail(s)) = Len(s) - 1
           /\ \A i \in 1 .. Len(Tail(s)) : Tail(s)[i] = s[i + 1]
           /\ DOMAIN s = 1 .. Len(s) /\ DOMAIN Tail(s) = 1 .. Len(Tail(s))
OBVIOUS

\* What the next message does, by its type.
LEMMA MessageCases ==
    ASSUME Types, NEW n \in Exiting, NextMessage(n)
    PROVE  LET m == Head(toNode[n]) IN
           \/ /\ m \in Transfers \union Deletions
              /\ jobs' = [jobs EXCEPT ![n] = @ \union {m}]
              /\ UNCHANGED <<worker, record, linked>>
           \/ /\ m \in Notices
              /\ jobs' = jobs /\ linked' = [linked EXCEPT ![n] = FALSE]
              /\ \/ /\ m.type \in {"not ready", "refused", "failed"}
                    /\ worker' = [worker EXCEPT ![n] = "leaving"]
                 \/ /\ m.type = "completed"
                    /\ worker' = [worker EXCEPT ![n] = "wiping"]
              /\ record' = [record EXCEPT ![n] =
                    IF m.type = "refused" THEN "cancelled"
                    ELSE IF m.type = "not ready" THEN record[n] ELSE m.type]
<1>1. PICK m : m = Head(toNode[n])
  OBVIOUS
<1>2. m \in Messages
  <2>1. toNode[n] \in Seq(Messages)
    BY DEF Types, StreamTypes
  <2>2. toNode[n] # <<>>
    BY DEF NextMessage
  <2> QED
    BY <1>1, <2>1, <2>2, HeadIs
<1>3. CASE m \in Transfers \union Deletions
  BY <1>1, <1>3 DEF NextMessage, Transfers, Deletions
<1>4. CASE m \in Notices
  <2>1. m.type \in {"not ready", "refused", "failed", "completed"}
    BY <1>4 DEF Notices
  <2>2. CASE m.type = "not ready"
    BY <1>1, <1>4, <2>2 DEF NextMessage
  <2>3. CASE m.type = "refused"
    BY <1>1, <1>4, <2>3 DEF NextMessage
  <2>4. CASE m.type = "failed"
    BY <1>1, <1>4, <2>4 DEF NextMessage
  <2>5. CASE m.type = "completed"
    BY <1>1, <1>4, <2>5 DEF NextMessage
  <2> QED
    BY <2>1, <2>2, <2>3, <2>4, <2>5
<1> QED
  BY <1>1, <1>2, <1>3, <1>4 DEF Messages

LEMMA ReplyTypes ==
    ASSUME Types, NEW n \in Exiting, NEW t \in AnswerTypes, NEW p \in Piece, Reply(n, t, p)
    PROVE  toSat' \in [Exiting -> Seq(Answers)]
<1>1. Answer(t, p) \in Answers
  BY DEF Answer, Answers
<1>2. toSat[n] \in Seq(Answers)
  BY DEF Types, StreamTypes
<1>3. Append(toSat[n], Answer(t, p)) \in Seq(Answers)
  BY <1>1, <1>2
<1> QED
  BY <1>3 DEF Reply, Types, StreamTypes

LEMMA JobIs ==
    ASSUME Types, NEW n \in Exiting, NEW m \in jobs[n]
    PROVE  /\ m \in Transfers \union Deletions /\ m.piece \in Piece
           /\ m.type = "transfer" => m \in Transfers /\ m.to \in Others
           /\ m.type = "delete" => m \in Deletions
BY DEF Types, NodeTypes, Transfers, Deletions

LEMMA WorkerTypes ==
    ASSUME Types, NEW n \in Exiting, WorkerStep(n)
    PROVE  NodeTypes' /\ StreamTypes'
<1>1. CASE NextMessage(n)
  <2>1. toNode[n] \in Seq(Messages) /\ toNode[n] # <<>>
    BY <1>1 DEF NextMessage, Types, StreamTypes
  <2>2. Tail(toNode[n]) \in Seq(Messages)
    BY <2>1, HeadIs
  <2>3. StreamTypes'
    BY <1>1, <2>2, MessageCases DEF NextMessage, Types, StreamTypes
  <2>4. NodeTypes'
    <3>1. PICK m : m = Head(toNode[n])
      OBVIOUS
    <3>2. CASE m \in Transfers \union Deletions /\ jobs' = [jobs EXCEPT ![n] = @ \union {m}]
               /\ UNCHANGED <<worker, record, linked>>
      BY <1>1, <3>2 DEF NextMessage, Types, NodeTypes
    <3>3. CASE /\ jobs' = jobs
               /\ \E w \in {"leaving", "wiping"} : worker' = [worker EXCEPT ![n] = w]
               /\ \E r \in {"exiting", "cancelled", "failed", "completed"} :
                     record' = [record EXCEPT ![n] = r]
      BY <1>1, <3>3 DEF NextMessage, Types, NodeTypes
    <3>4. record[n] \in {"exiting", "cancelled", "failed", "completed"}
      BY DEF Types, NodeTypes
    <3> QED
      BY <1>1, <3>1, <3>2, <3>3, <3>4, MessageCases
  <2> QED
    BY <2>3, <2>4
<1>2. CASE StreamOver(n) \/ Left(n) \/ DeleteSatelliteData(n)
  BY <1>2 DEF StreamOver, Left, DeleteSatelliteData, Types, NodeTypes, StreamTypes, GracefulExitAssumption
<1>3. ASSUME NEW m \in jobs[n], Transfer(n, m)
      PROVE  NodeTypes' /\ StreamTypes'
  <2>1. m \in Transfers /\ m.to \in Nodes /\ m.piece \in Piece
    BY <1>3, JobIs DEF Transfer, Others
  <2>2. toSat' \in [Exiting -> Seq(Answers)]
    BY <1>3, <2>1, ReplyTypes DEF Transfer, AnswerTypes
  <2>3. blobs' \in [Nodes -> SUBSET Piece]
    <3>1. blobs' = blobs \/ blobs' = [blobs EXCEPT ![m.to] = @ \union {m.piece}]
      BY <1>3 DEF Transfer
    <3> QED
      BY <2>1, <3>1 DEF Types, NodeTypes
  <2> QED
    BY <1>3, <2>2, <2>3 DEF Transfer, JobDone, Types, NodeTypes, StreamTypes
<1>4. ASSUME NEW m \in jobs[n], TransferFails(n, m)
      PROVE  NodeTypes' /\ StreamTypes'
  <2>1. toSat' \in [Exiting -> Seq(Answers)]
    BY <1>4, JobIs, ReplyTypes DEF TransferFails, AnswerTypes
  <2> QED
    BY <1>4, <2>1 DEF TransferFails, JobDone, Types, NodeTypes, StreamTypes
<1>5. ASSUME NEW m \in jobs[n], DeletePiece(n, m)
      PROVE  NodeTypes' /\ StreamTypes'
  BY <1>5, ExitWorkerAssumption DEF DeletePiece, JobDone, Types, NodeTypes, StreamTypes
<1> QED
  BY <1>1, <1>2, <1>3, <1>4, <1>5 DEF WorkerStep, JobStep

LEMMA ConnectTypes ==
    ASSUME Types, NEW n \in Exiting, Connect(n)
    PROVE  Types'
<1> USE DEF OfLoop
<1>1. NodeTypes' /\ loop' \in Loops
  BY DEF Connect, Types, NodeTypes
<1>2. status[n] \in Exits
  BY DEF Types, TableTypes
<1>3. ASSUME NEW m \in Messages
      PROVE  <<m>> \in Seq(Messages)
  OBVIOUS
<1>4. StreamTypes'
  <2>1. Bare("refused") \in Messages /\ Bare("not ready") \in Messages
           /\ \A success : Finished(success) \in Messages
    BY MessageIs
  <2>2. \/ \E m \in Messages : toNode' = [toNode EXCEPT ![n] = <<m>>]
        \/ toNode' = [toNode EXCEPT ![n] = <<>>]
    BY <2>1 DEF Connect
  <2>3. toNode' \in [Exiting -> Seq(Messages)]
    <3>1. toNode \in [Exiting -> Seq(Messages)]
      BY DEF Types, StreamTypes
    <3>2. CASE \E m \in Messages : toNode' = [toNode EXCEPT ![n] = <<m>>]
      BY <1>3, <3>1, <3>2
    <3>3. CASE toNode' = [toNode EXCEPT ![n] = <<>>]
      BY <3>1, <3>3
    <3> QED
      BY <2>2, <3>2, <3>3
  <2>4. linked' = linked \/ linked' = [linked EXCEPT ![n] = TRUE]
    BY DEF Connect
  <2>5. toSat' = [toSat EXCEPT ![n] = <<>>]
    BY DEF Connect
  <2>6. linked \in [Exiting -> BOOLEAN] /\ toSat \in [Exiting -> Seq(Answers)]
    BY DEF Types, StreamTypes
  <2>7. linked' \in [Exiting -> BOOLEAN]
    BY <2>4, <2>6
  <2>8. toSat' \in [Exiting -> Seq(Answers)]
    BY <2>5, <2>6
  <2> QED
    BY <2>3, <2>7, <2>8 DEF StreamTypes
<1>5. TableTypes'
  <2>1. Updated(status[n], "finished", FALSE) \in Exits /\ Updated(status[n], "initiated", FALSE) \in Exits
    BY <1>2, UpdatedIs
  <2>2. \A b \in BOOLEAN : [status EXCEPT ![n].disqualified = b] \in [Exiting -> Exits]
    BY DEF Types, TableTypes, Exits
  <2>3. (~status[n].success) \in BOOLEAN
    BY <1>2 DEF Exits
  <2>4. status' \in [Exiting -> Exits]
    BY <2>1, <2>2, <2>3 DEF Connect, Types, TableTypes
  <2>5. queue' \in [Exiting -> Queues]
    BY QueueCleared DEF Connect, Types, TableTypes
  <2> QED
    BY <2>4, <2>5 DEF Connect, Types, TableTypes
<1>6. SessionTypes'
  <2>1. session' \in [Exiting -> {"closed", "initiated", "open"}] /\ pending' = pending
    BY DEF Connect, Types, SessionTypes, sessionVars
  <2>2. \/ sender' = sender /\ receiver' = receiver
        \/ /\ sender' = [sender EXCEPT ![n].at = "list"]
           /\ receiver' = [receiver EXCEPT ![n].at = "wait"]
    BY DEF Connect, sessionVars
  <2>3. sender' \in [Exiting -> Senders] /\ receiver' \in [Exiting -> Receivers]
    <3>1. [sender[n] EXCEPT !.at = "list"] \in Senders
      BY InBatch DEF Senders
    <3>2. [receiver[n] EXCEPT !.at = "wait"] \in Receivers
      BY InHand DEF Receivers
    <3>3. sender \in [Exiting -> Senders] /\ receiver \in [Exiting -> Receivers]
      BY DEF Types, SessionTypes
    <3>4. /\ [sender EXCEPT ![n].at = "list"] = [sender EXCEPT ![n] = [sender[n] EXCEPT !.at = "list"]]
          /\ [receiver EXCEPT ![n].at = "wait"] = [receiver EXCEPT ![n] = [receiver[n] EXCEPT !.at = "wait"]]
      BY <3>3
    <3> QED
      BY <2>2, <3>1, <3>2, <3>3, <3>4
  <2> QED
    BY <2>1, <2>3 DEF Types, SessionTypes
<1> QED
  BY <1>1, <1>4, <1>5, <1>6 DEF Types

LEMMA LoopTypes ==
    ASSUME Types, Start \/ Flush \/ Finish \/ LoopFails \/ \E s \in Segments : Collect(s)
    PROVE  Types'
<1> USE DEF workerVars, sessionVars, tables, streamVars
<1>1. loop.at \in {"idle", "collect"} /\ loop.nodes \in SUBSET Exiting
         /\ loop.todo \in SUBSET Segments /\ loop.buffer \in SUBSET (Exiting \X Piece)
  BY DEF Types, Loops
<1>2. CASE Start
  <2>1. Unlooped \in SUBSET Exiting
    BY DEF Unlooped, ExitingNodes
  <2>2. loop' \in Loops
    BY <1>1, <1>2, <2>1 DEF Start, Loops
  <2>3. status' \in [Exiting -> Exits]
    <3>1. \A n \in Exiting : status[n] \in Exits /\ Updated(status[n], "finished", FALSE) \in Exits
      BY UpdatedIs DEF Types, TableTypes
    <3> QED
      BY <1>2, <3>1 DEF Start, FailInactive
  <2>4. queue' \in [Exiting -> Queues]
    BY <1>2, EmptyIs DEF Start, FailInactive, Types, TableTypes
  <2> QED
    BY <1>2, <2>2, <2>3, <2>4 DEF Start, Types, NodeTypes, StreamTypes, TableTypes, SessionTypes
<1>3. CASE Flush
  <2>1. ASSUME NEW q \in Queues, NEW new \in SUBSET Piece
        PROVE  [p \in DOMAIN q \union new |->
                  IF p \in DOMAIN q THEN q[p] ELSE [failed |-> 0, sent |-> 0]] \in Queues
    <3>1. [failed |-> 0, sent |-> 0] \in Items
      BY DEF Items
    <3>2. DOMAIN q \union new \in SUBSET Piece /\ \A p \in DOMAIN q : q[p] \in Items
      BY QueueIs
    <3>3. [p \in DOMAIN q \union new |->
                  IF p \in DOMAIN q THEN q[p] ELSE [failed |-> 0, sent |-> 0]]
             \in [DOMAIN q \union new -> Items]
      BY <3>1, <3>2
    <3> QED
      BY <3>2, <3>3 DEF Queues
  <2>2. ASSUME NEW n \in Exiting PROVE queue'[n] \in Queues
    <3>1. PICK new : new = {p \in Piece : <<n, p>> \in loop.buffer}
      OBVIOUS
    <3>2. queue'[n] = [p \in DOMAIN queue[n] \union new |->
                  IF p \in DOMAIN queue[n] THEN queue[n][p] ELSE [failed |-> 0, sent |-> 0]]
      BY <1>3, <3>1 DEF Flush
    <3>3. queue[n] \in Queues /\ new \in SUBSET Piece
      BY <3>1 DEF Types, TableTypes
    <3> QED
      BY <2>1, <3>2, <3>3
  <2>3. queue' \in [Exiting -> Queues]
    BY <1>3, <2>2 DEF Flush
  <2>4. loop' \in Loops
    BY <1>3 DEF Flush, Types, Loops
  <2> QED
    BY <1>3, <2>3, <2>4 DEF Flush, Types, NodeTypes, StreamTypes, TableTypes, SessionTypes
<1>4. ASSUME LoopOver PROVE loop' \in Loops
  BY <1>1, <1>4, IdleIs DEF LoopOver, Loops
<1>5. CASE Finish
  <2>1. \A n \in Exiting : status[n] \in Exits /\ Updated(status[n], "looped", FALSE) \in Exits
    BY UpdatedIs DEF Types, TableTypes
  <2>2. status' \in [Exiting -> Exits]
    BY <1>5, <2>1 DEF Finish
  <2> QED
    BY <1>4, <1>5, <2>2 DEF Finish, Types, NodeTypes, StreamTypes, TableTypes, SessionTypes
<1>6. CASE LoopFails
  BY <1>4, <1>6 DEF LoopFails, Types, NodeTypes, StreamTypes, TableTypes, SessionTypes
<1>7. ASSUME NEW s \in Segments, Collect(s) PROVE Types'
  <2>1. {x \in loop.nodes \X ({s} \X Numbers) : HoldsPiece(x[1], x[2])} \subseteq Exiting \X Piece
    BY <1>1 DEF Piece
  <2>2. PICK more \in SUBSET (Exiting \X Piece) :
           loop' = [loop EXCEPT !.todo = @ \ {s}, !.buffer = @ \union more]
    BY <1>7, <2>1 DEF Collect
  <2>3. loop' \in Loops
    BY <1>1, <2>2 DEF Types, Loops
  <2> QED
    BY <1>7, <2>3 DEF Collect, Types, NodeTypes, StreamTypes, TableTypes, SessionTypes
<1> QED
  BY <1>2, <1>3, <1>5, <1>6, <1>7

LEMMA OtherTypes ==
    ASSUME Types,
           \/ \E n \in Exiting : Lapse(n) \/ AuditDisqualifies(n)
           \/ \E s \in Segments : DeleteSegment(s)
           \/ \E p \in Piece, x \in Nodes : Repair(p, x)
    PROVE  Types'
<1> USE DEF workerVars, sessionVars, tables, streamVars, OfLoop
<1>1. ASSUME NEW n \in Exiting, Lapse(n) PROVE Types'
  BY <1>1 DEF Lapse, Types, NodeTypes, StreamTypes, TableTypes, SessionTypes
<1>2. ASSUME NEW n \in Exiting, AuditDisqualifies(n) PROVE Types'
  <2>1. status' \in [Exiting -> Exits]
    BY <1>2, OutcomeTypes DEF AuditDisqualifies
  <2> QED
    BY <1>2, <2>1 DEF AuditDisqualifies, Types, NodeTypes, StreamTypes, TableTypes, SessionTypes
<1>3. ASSUME NEW s \in Segments, DeleteSegment(s) PROVE Types'
  <2>1. [k \in Numbers |-> None] \in Segment
    BY DEF Segment
  <2> QED
    BY <1>3, <2>1 DEF DeleteSegment, Types, NodeTypes, StreamTypes, TableTypes, SessionTypes
<1>4. ASSUME NEW p \in Piece, NEW x \in Nodes, Repair(p, x) PROVE Types'
  <2>1. pieces' \in [Segments -> Segment]
    BY <1>4, MovedIs DEF Repair, Types, TableTypes
  <2>2. pieces[p[1]][p[2]] \in Nodes
    BY <1>4 DEF Repair, Types, TableTypes, Segment, Piece
  <2>3. blobs' \in [Nodes -> SUBSET Piece]
    BY <1>4, <2>2 DEF Repair, Types, NodeTypes
  <2> QED
    BY <1>4, <2>1, <2>3 DEF Repair, Types, NodeTypes, StreamTypes, TableTypes, SessionTypes
<1> QED
  BY <1>1, <1>2, <1>3, <1>4

LEMMA NextTypes1 ==
    ASSUME Types, EndTypes, [Next]_vars
    PROVE  Types'
<1> USE DEF workerVars, sessionVars, tables, streamVars, OfLoop, OfNode
<1>1. ASSUME NEW n \in Exiting, Connect(n) \/ SenderStep(n) \/ ReceiverStep(n) PROVE Types'
  BY <1>1, ConnectTypes, SenderTypes, ReceiverTypes
<1>2. ASSUME NEW n \in Exiting, FirstProgress(n) PROVE Types'
  BY <1>2, MessageIs, ReturnOne, SessionKeeps DEF FirstProgress, Types, TableTypes
<1>3. ASSUME NEW n \in Exiting, SessionFails(n) \/ SessionNotices(n) PROVE Types'
  BY <1>3, ReturnEmpty DEF SessionFails, SessionNotices, Types, TableTypes, NodeTypes
<1>4. ASSUME NEW n \in Exiting, NodeStep(n) PROVE Types'
  BY <1>4, WorkerTypes DEF NodeStep, Types, TableTypes, SessionTypes
<1>5. ASSUME NEW n \in Exiting, NodeCrash(n) /\ UNCHANGED <<tables, sessionVars, OfLoop, exhausted>>
      PROVE  Types'
  BY <1>5 DEF NodeCrash, Types, NodeTypes, StreamTypes, TableTypes, SessionTypes
<1>6. CASE UNCHANGED vars
  BY <1>6 DEF vars, Types, NodeTypes, StreamTypes, TableTypes, SessionTypes
<1> QED
  BY <1>1, <1>2, <1>3, <1>4, <1>5, <1>6, LoopTypes, OtherTypes DEF Next

-----------------------------------------------------------------------------
\* The two ends of a session.  A piece that the sender has listed and not put
\* yet is not in the pending map, one that the receiver works on is.

EndsInv(n) ==
    /\ sender[n].at \in {"idle", "list", "done"} => DOMAIN sender[n].batch = {}
    /\ sender[n].at \in Holding => sender[n].piece \in DOMAIN sender[n].batch
    /\ sender[n].at \in {"count", "put"} => sender[n].to \in Others
    /\ sender[n].at = "trim" => sender[n].seen[sender[n].piece[2]] = n
    /\ DOMAIN sender[n].batch \cap DOMAIN pending[n] = {}
    /\ receiver[n].at \in {"read", "update", "progress", "dequeue", "forget"}
          => receiver[n].piece \in DOMAIN pending[n]
    /\ receiver[n].at = "update" =>
          /\ receiver[n].type \in {"succeeded", "not found"}
          /\ receiver[n].seen[receiver[n].piece[2]] = n
          /\ receiver[n].type = "succeeded"
                => pending[n][receiver[n].piece] \notin Held(receiver[n].seen)

Ends == \A n \in Exiting : EndsInv(n)

LEMMA EndsTypes == Ends => EndTypes
BY DEF Ends, EndsInv, EndTypes, Holding

LEMMA EndsSame ==
    ASSUME NEW m \in Exiting, EndsInv(m), sender'[m] = sender[m],
           receiver'[m] = receiver[m], pending'[m] = pending[m]
    PROVE  EndsInv(m)'
BY DEF EndsInv, Others, Held, Holding

LEMMA EndsReturn ==
    ASSUME Types, NEW n \in Exiting, NEW ms, ReturnWith(n, ms),
           Ends
    PROVE  Ends'
<1> SUFFICES ASSUME NEW m \in Exiting PROVE EndsInv(m)'
  BY DEF Ends
<1>1. CASE m = n
  <2>1. sender'[n] = NotSending /\ receiver'[n] = NotReceiving /\ pending'[n] = <<>>
    BY DEF ReturnWith, Types, SessionTypes
  <2> QED
    BY <1>1, <2>1, EmptyIs DEF EndsInv, Others, Held, Holding, NotSending, NotReceiving
<1>2. CASE m # n
  <2>1. sender'[m] = sender[m] /\ receiver'[m] = receiver[m] /\ pending'[m] = pending[m]
    BY <1>2 DEF ReturnWith, Types, SessionTypes
  <2> QED
    BY <2>1, EndsSame DEF Ends
<1> QED
  BY <1>1, <1>2

\* Only n's ends move.
LEMMA EndsElsewhere ==
    ASSUME Types, NEW n \in Exiting, Ends,
           \A m \in Exiting \ {n} : /\ sender'[m] = sender[m] /\ receiver'[m] = receiver[m]
                                    /\ pending'[m] = pending[m],
           EndsInv(n)'
    PROVE  Ends'
BY EndsSame DEF Ends

LEMMA SenderMoves ==
    ASSUME Types, NEW n \in Exiting, SenderStep(n)
    PROVE  \/ Return(n)
           \/ /\ UNCHANGED <<session, receiver, linked, toSat>>
              /\ \A m \in Exiting \ {n} : /\ sender'[m] = sender[m] /\ pending'[m] = pending[m]
                                          /\ toNode'[m] = toNode[m] /\ queue'[m] = queue[m]
                                          /\ exhausted'[m] = exhausted[m]
<1> USE DEF streamVars, tables
<1>1. CASE List(n)
  BY <1>1 DEF List, Types, SessionTypes
<1>2. CASE Discard(n)
  BY <1>2 DEF Discard, NextOf, DeleteTransferQueueItem, Types, SessionTypes, TableTypes
<1>3. CASE Trim(n)
  BY <1>3 DEF Trim, Types, SessionTypes
<1>4. CASE CountSend(n)
  BY <1>4 DEF CountSend, Types, SessionTypes, TableTypes
<1>5. CASE Put(n)
  BY <1>5 DEF Put, NextOf, Types, SessionTypes
<1>6. ASSUME NEW p, GiveUp(n, p) PROVE UNCHANGED <<session, receiver, linked, toSat, pending, toNode, queue>>
              /\ \A m \in Exiting \ {n} : sender'[m] = sender[m] /\ exhausted'[m] = exhausted[m]
  BY <1>6 DEF GiveUp, Pick, Types, SessionTypes, TableTypes
<1>7. ASSUME NEW p, InvalidSegment(n, p) PROVE UNCHANGED <<session, receiver, linked, toSat, pending, toNode, queue, exhausted>>
              /\ \A m \in Exiting \ {n} : sender'[m] = sender[m]
  BY <1>7 DEF InvalidSegment, Pick, Types, SessionTypes
<1>8. ASSUME NEW p, PieceGone(n, p) PROVE Return(n)
  BY <1>8 DEF PieceGone
<1>9. ASSUME NEW p, ReadSurplus(n, p) PROVE UNCHANGED <<session, receiver, linked, toSat, pending, toNode, queue, exhausted>>
              /\ \A m \in Exiting \ {n} : sender'[m] = sender[m]
  BY <1>9 DEF ReadSurplus, Types, SessionTypes
<1>10. ASSUME NEW p, SendTransfer(n, p)
       PROVE  \/ Return(n)
              \/ /\ UNCHANGED <<session, receiver, linked, toSat, pending, queue, exhausted>>
                 /\ \A m \in Exiting \ {n} : sender'[m] = sender[m] /\ toNode'[m] = toNode[m]
  BY <1>10 DEF SendTransfer, Send, SendMessages, Types, SessionTypes, StreamTypes
<1> QED
  BY <1>1, <1>2, <1>3, <1>4, <1>5, <1>6, <1>7, <1>8, <1>9, <1>10 DEF SenderStep

LEMMA NextIs ==
    ASSUME Types, NEW n \in Exiting, NEW p, NextOf(n, p)
    PROVE  /\ sender'[n].batch = Without(sender[n].batch, p)
           /\ DOMAIN sender'[n].batch = DOMAIN sender[n].batch \ {p}
           /\ \A q \in DOMAIN sender'[n].batch : sender'[n].batch[q] = sender[n].batch[q]
           /\ sender'[n].at \in {"list", "batch"}
           /\ sender'[n].at = "list" => DOMAIN sender[n].batch = {p}
           /\ p \in Piece /\ DOMAIN sender[n].batch = {p} => sender'[n].at = "list"
<1>1. sender'[n] = [NotSending EXCEPT !.batch = Without(sender[n].batch, p),
                                 !.at = IF DOMAIN sender[n].batch = {p}
                                        THEN "list" ELSE "batch"]
  BY DEF NextOf, Types, SessionTypes
<1>2. /\ sender'[n].batch = Without(sender[n].batch, p)
      /\ sender'[n].at = IF DOMAIN sender[n].batch = {p} THEN "list" ELSE "batch"
  BY <1>1 DEF NotSending
<1> QED
  BY <1>2 DEF Without

LEMMA EndsSender ==
    ASSUME NEW n \in Exiting, EndsInv(n)
    PROVE  /\ sender[n].at \in {"discard", "trim", "count", "put"} => sender[n].piece \in DOMAIN sender[n].batch
           /\ sender[n].at \in {"count", "put"} => sender[n].to \in Others
           /\ DOMAIN sender[n].batch \cap DOMAIN pending[n] = {}
BY DEF EndsInv, Holding

\* What EndsInv asks of a sender, while the receiver does nothing.
LEMMA SenderChanged ==
    ASSUME NEW n \in Exiting, EndsInv(n), receiver'[n] = receiver[n],
           DOMAIN pending[n] \subseteq DOMAIN pending'[n],
           \A q \in DOMAIN pending[n] : pending'[n][q] = pending[n][q],
           sender'[n].at \in {"idle", "list", "done"} => DOMAIN sender'[n].batch = {},
           sender'[n].at \in {"discard", "trim", "count", "put"} => sender'[n].piece \in DOMAIN sender'[n].batch,
           sender'[n].at \in {"count", "put"} => sender'[n].to \in Others,
           sender'[n].at = "trim" => sender'[n].seen[sender'[n].piece[2]] = n,
           DOMAIN sender'[n].batch \cap DOMAIN pending'[n] = {}
    PROVE  EndsInv(n)'
BY DEF EndsInv, Others, Held, Holding

LEMMA SenderEnds ==
    ASSUME Types, Ends, NEW n \in Exiting, SenderStep(n)
    PROVE  Ends'
<1> USE DEF streamVars, tables
<1>1. CASE Return(n)
  BY <1>1, EndsReturn DEF Return
<1>2. ASSUME ~Return(n) PROVE EndsInv(n)'
  <2>0. EndsInv(n)
    BY DEF Ends
  <2>1. CASE List(n)
    <3>1. PICK ps : ps = Incomplete(queue[n])
      OBVIOUS
    <3>2. sender'[n].at = (IF ps = {} THEN "done" ELSE "batch") /\ DOMAIN sender'[n].batch = ps
      BY <2>1, <3>1, InBatch DEF List, Types, SessionTypes, Senders
    <3>3. pending'[n] = <<>> /\ receiver'[n] = receiver[n] /\ pending[n] = <<>>
      BY <2>1 DEF List
    <3> QED
      BY <2>0, <3>2, <3>3, EmptyIs, SenderChanged
  <2>2. CASE Discard(n)
    <3>1. pending'[n] = pending[n] /\ receiver'[n] = receiver[n]
      BY <2>2 DEF Discard
    <3> QED
      BY <2>0, <2>2, <3>1, NextIs, EndsSender, SenderChanged DEF Discard
  <2>3. CASE Trim(n)
    <3>1. /\ pending'[n] = pending[n] /\ receiver'[n] = receiver[n]
          /\ sender'[n] = [sender[n] EXCEPT !.at = "discard"]
      BY <1>2, <2>3 DEF Trim, Types, SessionTypes
    <3>8. sender'[n].at = "discard" /\ sender'[n].piece = sender[n].piece /\ sender'[n].batch = sender[n].batch
      BY <3>1, InBatch DEF Senders
    <3> QED
      BY <2>0, <2>3, <3>1, <3>8, EndsSender, SenderChanged DEF Trim, At
  <2>4. CASE CountSend(n)
    <3>1. /\ pending'[n] = pending[n] /\ receiver'[n] = receiver[n]
          /\ sender'[n] = [sender[n] EXCEPT !.at = "put"]
      BY <2>4 DEF CountSend, Types, SessionTypes
    <3>8. sender'[n].at = "put" /\ sender'[n].piece = sender[n].piece /\ sender'[n].batch = sender[n].batch
             /\ sender'[n].to = sender[n].to
      BY <3>1, InBatch DEF Senders
    <3> QED
      BY <2>0, <2>4, <3>1, <3>8, EndsSender, SenderChanged DEF CountSend, At
  <2>5. CASE Put(n)
    <3>1. pending'[n] = With(pending[n], sender[n].piece, sender[n].to) /\ receiver'[n] = receiver[n]
      BY <2>5 DEF Put, Types, SessionTypes
    <3>2. /\ DOMAIN pending'[n] = DOMAIN pending[n] \union {sender[n].piece}
          /\ \A q \in DOMAIN pending[n] : q # sender[n].piece => pending'[n][q] = pending[n][q]
      BY <3>1 DEF With
    <3>3. sender[n].piece \in DOMAIN sender[n].batch /\ sender[n].piece \notin DOMAIN pending[n]
      BY <2>0, <2>5, EndsSender DEF Put, At
    <3>4. NextOf(n, sender[n].piece)
      BY <2>5 DEF Put
    <3>5. DOMAIN sender'[n].batch \cap DOMAIN pending'[n] = {}
      BY <2>0, <3>2, <3>4, NextIs, EndsSender
    <3> QED
      BY <2>0, <3>1, <3>2, <3>3, <3>4, <3>5, NextIs, SenderChanged
  <2>6. ASSUME NEW p \in DOMAIN sender[n].batch, GiveUp(n, p) \/ InvalidSegment(n, p) PROVE EndsInv(n)'
    <3>1. /\ pending'[n] = pending[n] /\ receiver'[n] = receiver[n]
          /\ sender'[n] = [sender[n] EXCEPT !.at = "discard", !.piece = p]
      BY <2>6 DEF GiveUp, InvalidSegment, Pick, Types, SessionTypes
    <3>8. sender'[n].at = "discard" /\ sender'[n].piece = p /\ sender'[n].batch = sender[n].batch
      BY <3>1, InBatch DEF Senders
    <3> QED
      BY <2>0, <2>6, <3>1, <3>8, EndsSender, SenderChanged
  <2>7. ASSUME NEW p \in DOMAIN sender[n].batch, ReadSurplus(n, p) PROVE EndsInv(n)'
    <3>1. /\ pending'[n] = pending[n] /\ receiver'[n] = receiver[n]
          /\ sender'[n] = [sender[n] EXCEPT !.at = "trim", !.piece = p, !.seen = pieces[p[1]]]
          /\ pieces[p[1]][p[2]] = n
      BY <2>7 DEF ReadSurplus, HoldsPiece, Types, SessionTypes
    <3>8. sender'[n].at = "trim" /\ sender'[n].piece = p /\ sender'[n].batch = sender[n].batch
             /\ sender'[n].seen = pieces[p[1]]
      BY <3>1, InBatch DEF Senders
    <3> QED
      BY <2>0, <2>7, <3>1, <3>8, EndsSender, SenderChanged
  <2>8. ASSUME NEW p \in DOMAIN sender[n].batch, SendTransfer(n, p) PROVE EndsInv(n)'
    <3>1. PICK x \in Replacements(p[1]) :
             /\ sender' = [sender EXCEPT ![n].at = "count", ![n].piece = p, ![n].to = x]
             /\ UNCHANGED <<receiver, pending>>
      BY <1>2, <2>8 DEF SendTransfer
    <3>2. sender'[n] = [sender[n] EXCEPT !.at = "count", !.piece = p, !.to = x] /\ x \in Others
      BY <3>1 DEF Types, SessionTypes, Replacements, Others
    <3>8. sender'[n].at = "count" /\ sender'[n].piece = p /\ sender'[n].batch = sender[n].batch
             /\ sender'[n].to = x
      BY <3>2, InBatch DEF Senders
    <3> QED
      BY <2>0, <2>8, <3>1, <3>2, <3>8, EndsSender, SenderChanged
  <2> QED
    BY <1>2, <2>1, <2>2, <2>3, <2>4, <2>5, <2>6, <2>7, <2>8 DEF SenderStep, PieceGone
<1>3. ASSUME ~Return(n)
      PROVE  \A m \in Exiting \ {n} : /\ sender'[m] = sender[m] /\ receiver'[m] = receiver[m]
                                      /\ pending'[m] = pending[m]
  BY <1>3, SenderMoves
<1> QED
  BY <1>1, <1>2, <1>3, EndsElsewhere

-----------------------------------------------------------------------------
\* A step of one node's exit is none of another's.

OwnSame(m) ==
    /\ worker'[m] = worker[m] /\ record'[m] = record[m] /\ jobs'[m] = jobs[m]
    /\ linked'[m] = linked[m] /\ toNode'[m] = toNode[m] /\ toSat'[m] = toSat[m]
    /\ status'[m] = status[m] /\ queue'[m] = queue[m] /\ exhausted'[m] = exhausted[m]
    /\ session'[m] = session[m] /\ sender'[m] = sender[m]
    /\ receiver'[m] = receiver[m] /\ pending'[m] = pending[m]

Elsewhere(n) == \A m \in Exiting \ {n} : OwnSame(m)

LEMMA ReturnElsewhere ==
    ASSUME Types, NEW n \in Exiting, NEW ms, ReturnWith(n, ms),
           NEW m \in Exiting \ {n}
    PROVE  /\ linked'[m] = linked[m] /\ toNode'[m] = toNode[m] /\ toSat'[m] = toSat[m]
           /\ session'[m] = session[m] /\ sender'[m] = sender[m]
           /\ receiver'[m] = receiver[m] /\ pending'[m] = pending[m]
<1>1. toNode'[m] = toNode[m]
  BY DEF ReturnWith, SendMessages, Types, StreamTypes
<1> QED
  BY <1>1 DEF ReturnWith, Types, StreamTypes, SessionTypes

LEMMA SenderElsewhere ==
    ASSUME Types, NEW n \in Exiting, SenderStep(n)
    PROVE  Elsewhere(n)
<1> SUFFICES ASSUME NEW m \in Exiting \ {n} PROVE OwnSame(m)
  BY DEF Elsewhere
<1> USE DEF streamVars, tables, OfNode
<1>0. UNCHANGED <<worker, record, jobs, status>>
  BY DEF SenderStep, List, Discard, Trim, CountSend, Put, GiveUp, InvalidSegment, PieceGone,
         ReadSurplus, SendTransfer
<1>1. exhausted'[m] = exhausted[m] /\ queue'[m] = queue[m]
  BY DEF SenderStep, List, Discard, Trim, CountSend, Put, GiveUp, InvalidSegment, PieceGone,
         ReadSurplus, SendTransfer, DeleteTransferQueueItem, Types, TableTypes
<1>2. CASE Return(n)
  BY <1>0, <1>1, <1>2, ReturnElsewhere DEF Return, OwnSame
<1>3. CASE ~Return(n)
  BY <1>0, <1>1, <1>3, SenderMoves DEF OwnSame
<1> QED
  BY <1>2, <1>3

LEMMA ReceiverElsewhere ==
    ASSUME Types, NEW n \in Exiting, ReceiverStep(n)
    PROVE  Elsewhere(n)
<1> SUFFICES ASSUME NEW m \in Exiting \ {n} PROVE OwnSame(m)
  BY DEF Elsewhere
<1> USE DEF streamVars, tables, OfNode
<1>0. UNCHANGED <<worker, record, jobs>>
  BY DEF ReceiverStep, Wait, Recv, RecvTimeout, ReadSucceeded, ReadNotFound, ReadFailed,
         UpdateSegment, CountProgress, Dequeue, Forget, Judge, Condemn, DisqualifyNode,
         RecordOutcome, Announce, ClearQueue
<1>1. exhausted'[m] = exhausted[m]
  <2>1. exhausted' = exhausted \/ ReadFailed(n)
    BY DEF ReceiverStep, Wait, Recv, RecvTimeout, ReadSucceeded, ReadNotFound,
         UpdateSegment, CountProgress, Dequeue, Forget, Judge, Condemn, DisqualifyNode,
         RecordOutcome, Announce, ClearQueue
  <2> QED
    BY <2>1 DEF ReadFailed, Types, TableTypes
<1>2. queue'[m] = queue[m]
  <2>1. queue' = queue \/ ReadFailed(n) \/ Dequeue(n) \/ Judge(n) \/ ClearQueue(n)
    BY DEF ReceiverStep, Wait, Recv, RecvTimeout, ReadSucceeded, ReadNotFound,
         UpdateSegment, CountProgress, Forget, Condemn, DisqualifyNode,
         RecordOutcome, Announce
  <2> QED
    BY <2>1 DEF ReadFailed, Dequeue, Judge, ClearQueue, DeleteTransferQueueItem, DeleteTransferQueueItems,
       Types, TableTypes
<1>3. status'[m] = status[m]
  <2>1. status' = status \/ Judge(n) \/ DisqualifyNode(n) \/ RecordOutcome(n)
    BY DEF ReceiverStep, Wait, Recv, RecvTimeout, ReadSucceeded, ReadNotFound, ReadFailed,
         UpdateSegment, CountProgress, Dequeue, Forget, Condemn, Announce, ClearQueue
  <2> QED
    BY <2>1 DEF Judge, DisqualifyNode, RecordOutcome, Types, TableTypes
<1> DEFINE Rest == /\ linked'[m] = linked[m] /\ toNode'[m] = toNode[m] /\ toSat'[m] = toSat[m]
                   /\ session'[m] = session[m] /\ sender'[m] = sender[m]
                   /\ receiver'[m] = receiver[m] /\ pending'[m] = pending[m]
<1>4. \A ms : ReturnWith(n, ms) => Rest
  BY ReturnElsewhere
<1>5. ASSUME Return(n) PROVE Rest
  BY <1>4, <1>5 DEF Return
<1>6. \A at : Goto(n, at) => receiver'[m] = receiver[m]
  BY DEF Goto, Types, SessionTypes
<1>7. Back(n) => receiver'[m] = receiver[m]
  BY DEF Back, Types, SessionTypes
<1>8. Forgotten(n) => pending'[m] = pending[m]
  BY DEF Forgotten, Types, SessionTypes
<1>9. \A msg : Send(n, msg) => toNode'[m] = toNode[m]
  BY DEF Send, SendMessages, Types, StreamTypes
<1>10. Rest
  <2>1. CASE Wait(n) \/ CountProgress(n) \/ Dequeue(n) \/ Condemn(n) \/ DisqualifyNode(n) \/ RecordOutcome(n)
    BY <1>6, <2>1 DEF Wait, CountProgress, Dequeue, Condemn, DisqualifyNode, RecordOutcome
  <2>2. CASE Recv(n)
    BY <1>5, <1>7, <2>2 DEF Recv, Types, SessionTypes, StreamTypes
  <2>3. CASE RecvTimeout(n)
    BY <1>5, <2>3 DEF RecvTimeout
  <2>4. CASE ReadSucceeded(n)
    BY <1>5, <1>7, <1>8, <2>4 DEF ReadSucceeded, Types, SessionTypes
  <2>5. CASE ReadNotFound(n) \/ ReadFailed(n)
    BY <1>5, <1>6, <2>5 DEF ReadNotFound, ReadFailed, Types, SessionTypes
  <2>6. CASE UpdateSegment(n)
    BY <1>5, <2>6 DEF UpdateSegment, Types, SessionTypes
  <2>7. CASE Forget(n)
    BY <1>7, <1>8, <1>9, <2>7 DEF Forget
  <2>8. CASE Judge(n)
    BY <1>4, <1>5, <2>8 DEF Judge, Types, SessionTypes
  <2>9. CASE Announce(n)
    BY <1>6, <1>9, <2>9 DEF Announce
  <2>10. CASE ClearQueue(n)
    BY <1>5, <1>7, <2>10 DEF ClearQueue
  <2> QED
    BY <2>1, <2>2, <2>3, <2>4, <2>5, <2>6, <2>7, <2>8, <2>9, <2>10 DEF ReceiverStep
<1> QED
  BY <1>0, <1>1, <1>2, <1>3, <1>10 DEF OwnSame

LEMMA WorkerElsewhere ==
    ASSUME Types, NEW n \in Exiting,
           NodeStep(n) \/ (NodeCrash(n) /\ UNCHANGED <<tables, sessionVars, OfLoop, exhausted>>)
    PROVE  Elsewhere(n)
<1> SUFFICES ASSUME NEW m \in Exiting \ {n} PROVE OwnSame(m)
  BY DEF Elsewhere
<1>0. UNCHANGED <<tables, sessionVars, exhausted>>
  BY DEF NodeStep
<1>1. SUFFICES /\ worker'[m] = worker[m] /\ record'[m] = record[m] /\ jobs'[m] = jobs[m]
               /\ linked'[m] = linked[m] /\ toNode'[m] = toNode[m] /\ toSat'[m] = toSat[m]
  BY <1>0 DEF OwnSame, tables, sessionVars
<1>2. /\ worker \in [Exiting -> {"idle", "running", "leaving", "wiping"}]
      /\ record \in [Exiting -> {"exiting", "cancelled", "failed", "completed"}]
      /\ jobs \in [Exiting -> SUBSET (Transfers \union Deletions)]
      /\ linked \in [Exiting -> BOOLEAN] /\ toNode \in [Exiting -> Seq(Messages)]
      /\ toSat \in [Exiting -> Seq(Answers)]
  BY DEF Types, NodeTypes, StreamTypes
<1>3. CASE NodeCrash(n)
  BY <1>2, <1>3 DEF NodeCrash
<1>4. CASE NextMessage(n)
  <2>1. toNode'[m] = toNode[m] /\ toSat' = toSat
    BY <1>2, <1>4 DEF NextMessage
  <2>2. \/ /\ jobs' = [jobs EXCEPT ![n] = @ \union {Head(toNode[n])}]
           /\ UNCHANGED <<worker, record, linked>>
        \/ /\ jobs' = jobs /\ linked' = [linked EXCEPT ![n] = FALSE]
           /\ \E w : worker' = [worker EXCEPT ![n] = w]
           /\ \E r : record' = [record EXCEPT ![n] = r]
    BY <1>4, MessageCases
  <2> QED
    BY <1>2, <2>1, <2>2
<1>5. CASE StreamOver(n) \/ Left(n) \/ DeleteSatelliteData(n)
  BY <1>2, <1>5 DEF StreamOver, Left, DeleteSatelliteData
<1>6. \A t, p : Reply(n, t, p) => toSat'[m] = toSat[m]
  BY <1>2 DEF Reply
<1>7. CASE JobStep(n)
  <2>1. PICK msg \in jobs[n] : Transfer(n, msg) \/ TransferFails(n, msg) \/ DeletePiece(n, msg)
    BY <1>7 DEF JobStep
  <2>2. UNCHANGED <<worker, record, linked, toNode>> /\ JobDone(n, msg)
    BY <2>1 DEF Transfer, TransferFails, DeletePiece
  <2>3. toSat'[m] = toSat[m]
    BY <1>6, <2>1 DEF Transfer, TransferFails, DeletePiece
  <2> QED
    BY <1>2, <2>2, <2>3 DEF JobDone
<1> QED
  BY <1>3, <1>4, <1>5, <1>7 DEF NodeStep, WorkerStep

LEMMA OpenElsewhere ==
    ASSUME Types, NEW n \in Exiting, Connect(n) \/ FirstProgress(n) \/ SessionFails(n)
           \/ SessionNotices(n) \/ Lapse(n) \/ AuditDisqualifies(n)
    PROVE  Elsewhere(n)
<1> SUFFICES ASSUME NEW m \in Exiting \ {n} PROVE OwnSame(m)
  BY DEF Elsewhere
<1> USE DEF tables, sessionVars, streamVars, OfNode, workerVars
<1>1. CASE Connect(n)
  <2>1. UNCHANGED <<record, jobs, exhausted, pending>> /\ worker'[m] = worker[m] /\ toSat'[m] = toSat[m]
    BY <1>1 DEF Connect, Types, NodeTypes, StreamTypes
  <2>2. status'[m] = status[m] /\ queue'[m] = queue[m]
    BY <1>1 DEF Connect, DeleteTransferQueueItems, Types, TableTypes
  <2>3. linked'[m] = linked[m] /\ toNode'[m] = toNode[m]
    BY <1>1 DEF Connect, Types, StreamTypes
  <2>4. session'[m] = session[m] /\ sender'[m] = sender[m] /\ receiver'[m] = receiver[m]
    BY <1>1 DEF Connect, Types, SessionTypes
  <2> QED
    BY <2>1, <2>2, <2>3, <2>4 DEF OwnSame
<1>2. CASE FirstProgress(n)
  BY <1>2, ReturnElsewhere DEF FirstProgress, OwnSame
<1>3. CASE SessionFails(n) \/ SessionNotices(n)
  BY <1>3, ReturnElsewhere DEF SessionFails, SessionNotices, Return, OwnSame
<1>4. CASE Lapse(n)
  BY <1>4 DEF Lapse, OwnSame
<1>5. CASE AuditDisqualifies(n)
  BY <1>5 DEF AuditDisqualifies, OwnSame, Types, TableTypes
<1> QED
  BY <1>1, <1>2, <1>3, <1>4, <1>5

LEMMA StepElsewhere ==
    ASSUME Types, NEW n \in Exiting,
           \/ Connect(n) \/ FirstProgress(n) \/ SenderStep(n) \/ ReceiverStep(n)
           \/ SessionFails(n) \/ SessionNotices(n) \/ NodeStep(n)
           \/ NodeCrash(n) /\ UNCHANGED <<tables, sessionVars, OfLoop, exhausted>>
           \/ Lapse(n) \/ AuditDisqualifies(n)
    PROVE  Elsewhere(n)
BY SenderElsewhere, ReceiverElsewhere, WorkerElsewhere, OpenElsewhere


-----------------------------------------------------------------------------
\* What a step does to what belongs to one node.

\* Nothing changes but what F names.
But(n, F) ==
    /\ "worker" \in F \/ worker'[n] = worker[n]
    /\ "record" \in F \/ record'[n] = record[n]
    /\ "jobs" \in F \/ jobs'[n] = jobs[n]
    /\ "linked" \in F \/ linked'[n] = linked[n]
    /\ "toNode" \in F \/ toNode'[n] = toNode[n]
    /\ "toSat" \in F \/ toSat'[n] = toSat[n]
    /\ "status" \in F \/ status'[n] = status[n]
    /\ "queue" \in F \/ queue'[n] = queue[n]
    /\ "exhausted" \in F \/ exhausted'[n] = exhausted[n]
    /\ "session" \in F \/ session'[n] = session[n]
    /\ "sender" \in F \/ sender'[n] = sender[n]
    /\ "receiver" \in F \/ receiver'[n] = receiver[n]
    /\ "pending" \in F \/ pending'[n] = pending[n]
    /\ "pieces" \in F \/ pieces' = pieces
    /\ "blobs" \in F \/ blobs' = blobs
    /\ "loop" \in F \/ loop' = loop

ReturnFields == {"linked", "toNode", "toSat", "session", "sender", "receiver", "pending"}

LEMMA ReturnDoes ==
    ASSUME Types, NEW n \in Exiting, NEW ms \in Seq(Messages), ReturnWith(n, ms)
    PROVE  /\ session'[n] = "closed" /\ sender'[n] = NotSending
           /\ receiver'[n] = NotReceiving /\ pending'[n] = <<>>
           /\ linked'[n] = FALSE /\ toSat'[n] = <<>>
           /\ toNode'[n] = IF linked[n] THEN toNode[n] \o ms ELSE toNode[n]
<1>1. toNode'[n] = IF linked[n] THEN toNode[n] \o ms ELSE toNode[n]
  BY DEF ReturnWith, SendMessages, Types, StreamTypes
<1> QED
  BY <1>1 DEF ReturnWith, Types, StreamTypes, SessionTypes

LEMMA ReturnedEmpty ==
    ASSUME Types, NEW n \in Exiting, Return(n)
    PROVE  /\ session'[n] = "closed" /\ sender'[n] = NotSending
           /\ receiver'[n] = NotReceiving /\ pending'[n] = <<>>
           /\ linked'[n] = FALSE /\ toSat'[n] = <<>> /\ toNode'[n] = toNode[n]
<1>1. <<>> \in Seq(Messages) /\ ReturnWith(n, <<>>)
  BY DEF Return
<1>2. toNode[n] \in Seq(Messages)
  BY DEF Types, StreamTypes
<1>3. toNode[n] \o <<>> = toNode[n]
  BY <1>2
<1> QED
  BY <1>1, <1>3, ReturnDoes

LEMMA ListDoes ==
    ASSUME Types, NEW n \in Exiting, List(n)
    PROVE  /\ sender[n].at = "list" /\ pending[n] = <<>>
           /\ sender'[n].at = IF Incomplete(queue[n]) = {} THEN "done" ELSE "batch"
           /\ sender'[n].batch = [p \in Incomplete(queue[n]) |-> queue[n][p]]
           /\ But(n, {"sender"})
<1>1. PICK ps : ps = Incomplete(queue[n])
  OBVIOUS
<1>2. sender' = [sender EXCEPT
             ![n].at = IF ps = {} THEN "done" ELSE "batch",
             ![n].batch = [p \in ps |-> queue[n][p]]]
  BY <1>1 DEF List
<1>3. sender'[n] = [sender[n] EXCEPT !.at = IF ps = {} THEN "done" ELSE "batch",
                                     !.batch = [p \in ps |-> queue[n][p]]]
  BY <1>2 DEF Types, SessionTypes
<1>4. But(n, {"sender"})
  BY DEF List, But, OfNode, OfLoop, streamVars, tables
<1>5. /\ sender'[n].at = IF ps = {} THEN "done" ELSE "batch"
      /\ sender'[n].batch = [p \in ps |-> queue[n][p]]
  BY <1>3, InBatch DEF Senders
<1> QED
  BY <1>1, <1>4, <1>5 DEF List

LEMMA DiscardDoes ==
    ASSUME Types, NEW n \in Exiting, Discard(n)
    PROVE  /\ sender[n].at = "discard" /\ NextOf(n, sender[n].piece)
           /\ queue'[n] = Without(queue[n], sender[n].piece)
           /\ But(n, {"sender", "queue"})
<1>1. But(n, {"sender", "queue"})
  BY DEF Discard, But, OfNode, OfLoop, streamVars
<1> QED
  BY <1>1 DEF Discard, At, DeleteTransferQueueItem, Types, TableTypes

LEMMA TrimDoes ==
    ASSUME Types, NEW n \in Exiting, Trim(n)
    PROVE  /\ sender[n].at = "trim"
           /\ \/ Return(n) /\ But(n, ReturnFields)
              \/ /\ pieces' = Moved(sender[n].piece, None)
                 /\ pieces[sender[n].piece[1]] = sender[n].seen
                 /\ sender'[n].at = "discard" /\ sender'[n].piece = sender[n].piece
                 /\ sender'[n].batch = sender[n].batch
                 /\ But(n, {"sender", "pieces"})
<1>1. CASE Return(n) /\ UNCHANGED pieces
  BY <1>1 DEF Trim, At, But, ReturnFields, OfNode, OfLoop
<1>2. CASE /\ Unchanged(sender[n].piece, sender[n].seen)
           /\ pieces' = Moved(sender[n].piece, None)
           /\ sender' = [sender EXCEPT ![n].at = "discard"]
           /\ UNCHANGED <<streamVars, session, receiver, pending>>
  <2>1. sender'[n] = [sender[n] EXCEPT !.at = "discard"]
    BY <1>2 DEF Types, SessionTypes
  <2>2. But(n, {"sender", "pieces"})
    BY <1>2 DEF Trim, But, OfNode, OfLoop, streamVars
  <2> QED
    BY <1>2, <2>1, <2>2, InBatch DEF Trim, At, Unchanged, Senders
<1> QED
  BY <1>1, <1>2 DEF Trim

LEMMA CountSendDoes ==
    ASSUME Types, NEW n \in Exiting, CountSend(n)
    PROVE  /\ sender[n].at = "count"
           /\ sender'[n].at = "put" /\ sender'[n].piece = sender[n].piece
           /\ sender'[n].batch = sender[n].batch /\ sender'[n].to = sender[n].to
           /\ queue'[n] = IF sender[n].piece \in DOMAIN queue[n]
                          THEN [queue[n] EXCEPT ![sender[n].piece].sent = @ + 1]
                          ELSE queue[n]
           /\ But(n, {"sender", "queue"})
<1>1. sender'[n] = [sender[n] EXCEPT !.at = "put"]
  BY DEF CountSend, Types, SessionTypes
<1>2. queue'[n] = IF sender[n].piece \in DOMAIN queue[n]
                  THEN [queue[n] EXCEPT ![sender[n].piece].sent = @ + 1]
                  ELSE queue[n]
  BY DEF CountSend, Types, TableTypes
<1>3. But(n, {"sender", "queue"})
  BY DEF CountSend, But, OfNode, OfLoop, streamVars
<1> QED
  BY <1>1, <1>2, <1>3, InBatch DEF CountSend, At, Senders

LEMMA PutDoes ==
    ASSUME Types, NEW n \in Exiting, Put(n)
    PROVE  /\ sender[n].at = "put" /\ NextOf(n, sender[n].piece)
           /\ pending'[n] = With(pending[n], sender[n].piece, sender[n].to)
           /\ But(n, {"sender", "pending"})
<1>1. But(n, {"sender", "pending"})
  BY DEF Put, But, OfNode, OfLoop, streamVars, tables
<1> QED
  BY <1>1 DEF Put, At, Types, SessionTypes

LEMMA PickDoes ==
    ASSUME Types, NEW n \in Exiting, NEW p, NEW at, Pick(n, p, at)
    PROVE  sender'[n].at = at /\ sender'[n].piece = p /\ sender'[n].batch = sender[n].batch
<1>1. sender'[n] = [sender[n] EXCEPT !.at = at, !.piece = p]
  BY DEF Pick, Types, SessionTypes
<1> QED
  BY <1>1, InBatch DEF Senders

LEMMA GiveUpDoes ==
    ASSUME Types, NEW n \in Exiting, NEW p \in DOMAIN sender[n].batch, GiveUp(n, p)
    PROVE  /\ sender[n].at = "batch" /\ sender'[n].at = "discard" /\ sender'[n].piece = p
           /\ sender'[n].batch = sender[n].batch
           /\ exhausted'[n] = exhausted[n] \union {p}
           /\ But(n, {"sender", "exhausted"})
<1>1. But(n, {"sender", "exhausted"})
  BY DEF GiveUp, But, OfNode, OfLoop, streamVars
<1>2. exhausted'[n] = exhausted[n] \union {p}
  BY DEF GiveUp, Types, TableTypes
<1> QED
  BY <1>1, <1>2, PickDoes DEF GiveUp, Incoming, At

LEMMA InvalidDoes ==
    ASSUME Types, NEW n \in Exiting, NEW p \in DOMAIN sender[n].batch, InvalidSegment(n, p)
    PROVE  /\ sender[n].at = "batch" /\ sender'[n].at = "discard" /\ sender'[n].piece = p
           /\ sender'[n].batch = sender[n].batch
           /\ ~Exists(p[1]) \/ Flaky
           /\ But(n, {"sender"})
<1>1. But(n, {"sender"})
  BY DEF InvalidSegment, But, OfNode, OfLoop, streamVars, tables
<1> QED
  BY <1>1, PickDoes DEF InvalidSegment, Incoming, At

LEMMA PieceGoneDoes ==
    ASSUME Types, NEW n \in Exiting, NEW p \in DOMAIN sender[n].batch, PieceGone(n, p)
    PROVE  /\ Return(n) /\ ~HoldsPiece(n, p) /\ queue'[n] = Without(queue[n], p)
           /\ But(n, ReturnFields \union {"queue"})
<1>1. But(n, ReturnFields \union {"queue"})
  BY DEF PieceGone, But, ReturnFields, OfNode, OfLoop
<1> QED
  BY <1>1 DEF PieceGone, DeleteTransferQueueItem, Types, TableTypes

LEMMA ReadSurplusDoes ==
    ASSUME Types, NEW n \in Exiting, NEW p \in DOMAIN sender[n].batch, ReadSurplus(n, p)
    PROVE  /\ sender[n].at = "batch" /\ sender'[n].at = "trim" /\ sender'[n].piece = p
           /\ sender'[n].batch = sender[n].batch
           /\ sender'[n].seen = pieces[p[1]] /\ HoldsPiece(n, p)
           /\ But(n, {"sender"})
<1>1. But(n, {"sender"})
  BY DEF ReadSurplus, But, OfNode, OfLoop, streamVars, tables
<1>2. sender'[n] = [sender[n] EXCEPT !.at = "trim", !.piece = p, !.seen = pieces[p[1]]]
  BY DEF ReadSurplus, Types, SessionTypes
<1>3. /\ sender'[n].at = "trim" /\ sender'[n].piece = p /\ sender'[n].batch = sender[n].batch
      /\ sender'[n].seen = pieces[p[1]]
  BY <1>2, InBatch DEF Senders
<1> QED
  BY <1>1, <1>3 DEF ReadSurplus, Incoming, At

LEMMA SendTransferDoes ==
    ASSUME Types, NEW n \in Exiting, NEW p \in DOMAIN sender[n].batch, SendTransfer(n, p)
    PROVE  /\ sender[n].at = "batch" /\ sender[n].batch[p].sent < MaxSends
           /\ \/ Return(n) /\ But(n, ReturnFields)
              \/ \E x \in Others :
                    /\ toNode'[n] = IF linked[n] THEN Append(toNode[n], Message("transfer", p, x))
                                    ELSE toNode[n]
                    /\ sender'[n].at = "count" /\ sender'[n].piece = p /\ sender'[n].to = x
                    /\ sender'[n].batch = sender[n].batch
                    /\ But(n, {"sender", "toNode"})
<1>1. sender[n].at = "batch" /\ sender[n].batch[p].sent < MaxSends
  BY DEF SendTransfer, Incoming, At, Usable
<1>2. CASE Return(n)
  BY <1>1, <1>2 DEF SendTransfer, But, ReturnFields, OfNode, OfLoop, tables
<1>3. ASSUME NEW x \in Replacements(p[1]), Send(n, Message("transfer", p, x)),
             sender' = [sender EXCEPT ![n].at = "count", ![n].piece = p, ![n].to = x],
             UNCHANGED <<linked, toSat, session, receiver, pending>>
      PROVE  /\ x \in Others
             /\ toNode'[n] = IF linked[n] THEN Append(toNode[n], Message("transfer", p, x))
                             ELSE toNode[n]
             /\ sender'[n].at = "count" /\ sender'[n].piece = p /\ sender'[n].to = x
             /\ sender'[n].batch = sender[n].batch
             /\ But(n, {"sender", "toNode"})
  <2>1. x \in Others
    BY DEF Replacements, Others
  <2>2. toNode[n] \in Seq(Messages) /\ Message("transfer", p, x) \in Messages
    BY <2>1, InBatch, MessageIs DEF Types, StreamTypes
  <2>3. toNode[n] \o <<Message("transfer", p, x)>> = Append(toNode[n], Message("transfer", p, x))
    BY <2>2
  <2>4. toNode'[n] = IF linked[n] THEN Append(toNode[n], Message("transfer", p, x))
                     ELSE toNode[n]
    BY <1>3, <2>3 DEF Send, SendMessages, Types, StreamTypes
  <2>5. sender'[n] = [sender[n] EXCEPT !.at = "count", !.piece = p, !.to = x]
    BY <1>3 DEF Types, SessionTypes
  <2>6. But(n, {"sender", "toNode"})
    BY <1>3 DEF SendTransfer, But, OfNode, OfLoop, tables
  <2> QED
    BY <2>1, <2>4, <2>5, <2>6, InBatch DEF Senders
<1> QED
  BY <1>1, <1>2, <1>3 DEF SendTransfer

LEMMA GotoDoes ==
    ASSUME Types, NEW n \in Exiting, NEW at, Goto(n, at)
    PROVE  /\ receiver'[n].at = at /\ receiver'[n].type = receiver[n].type
           /\ receiver'[n].piece = receiver[n].piece /\ receiver'[n].seen = receiver[n].seen
<1>1. receiver'[n] = [receiver[n] EXCEPT !.at = at]
  BY DEF Goto, Types, SessionTypes
<1> QED
  BY <1>1, InHand DEF Receivers

LEMMA BackDoes ==
    ASSUME Types, NEW n \in Exiting, Back(n)
    PROVE  receiver'[n].at = "wait" /\ receiver'[n].type = None /\ receiver'[n].piece = None
<1>1. receiver'[n] = [NotReceiving EXCEPT !.at = "wait"]
  BY DEF Back, Types, SessionTypes
<1> QED
  BY <1>1 DEF NotReceiving

LEMMA ReceiverFields ==
    ASSUME NEW r \in Receivers, NEW at, NEW seen
    PROVE  LET c == [r EXCEPT !.at = at, !.seen = seen]
           IN c.at = at /\ c.type = r.type /\ c.piece = r.piece /\ c.seen = seen
BY DEF Receivers

LEMMA ReadAgain ==
    ASSUME Types, NEW n \in Exiting, NEW seen,
           receiver' = [receiver EXCEPT ![n].at = "update", ![n].seen = seen]
    PROVE  /\ receiver'[n].at = "update" /\ receiver'[n].type = receiver[n].type
           /\ receiver'[n].piece = receiver[n].piece /\ receiver'[n].seen = seen
<1>1. PICK r : r = [receiver[n] EXCEPT !.at = "update", !.seen = seen]
  OBVIOUS
<1>2. receiver'[n] = r
  BY <1>1 DEF Types, SessionTypes
<1>3. receiver[n] \in Receivers
  BY InHand
<1>4. r.at = "update" /\ r.type = receiver[n].type /\ r.piece = receiver[n].piece /\ r.seen = seen
  BY <1>1, <1>3, ReceiverFields
<1> QED
  BY <1>2, <1>4

LEMMA WaitDoes ==
    ASSUME Types, NEW n \in Exiting, Wait(n)
    PROVE  /\ receiver[n].at = "wait"
           /\ \/ pending[n] # <<>> /\ receiver'[n].at = "recv"
              \/ pending[n] = <<>> /\ sender[n].at = "done" /\ receiver'[n].at = "judge"
           /\ But(n, {"receiver"})
<1>1. But(n, {"receiver"})
  BY DEF Wait, But, OfNode, OfLoop, streamVars, tables
<1> QED
  BY <1>1, GotoDoes DEF Wait, Rcv

LEMMA RecvDoes ==
    ASSUME Types, NEW n \in Exiting, Recv(n)
    PROVE  /\ receiver[n].at = "recv" /\ toSat[n] # <<>>
           /\ \/ Return(n) /\ But(n, ReturnFields)
              \/ /\ toSat'[n] = Tail(toSat[n])
                 /\ But(n, {"toSat", "receiver"})
                 /\ \/ /\ Head(toSat[n]).piece \in DOMAIN pending[n]
                       /\ receiver'[n].at = IF Head(toSat[n]).type = "invalid" THEN "condemn"
                                            ELSE "read"
                       /\ receiver'[n].type = Head(toSat[n]).type
                       /\ receiver'[n].piece = Head(toSat[n]).piece
                    \/ /\ receiver'[n].at = "wait" /\ receiver'[n].type = None
                       /\ receiver'[n].piece = None
<1>1. CASE Return(n)
  BY <1>1 DEF Recv, Rcv, But, ReturnFields, OfNode, OfLoop, tables
<1>2. CASE ~Return(n)
  <2>1. toSat'[n] = Tail(toSat[n])
    BY <1>2 DEF Recv, Types, StreamTypes
  <2>2. But(n, {"toSat", "receiver"})
    BY <1>2 DEF Recv, But, OfNode, OfLoop, tables
  <2>3. CASE Back(n)
    BY <2>1, <2>2, <2>3, BackDoes DEF Recv, Rcv
  <2>4. CASE ~Back(n)
    <3>1. PICK at : at = IF Head(toSat[n]).type = "invalid" THEN "condemn" ELSE "read"
      OBVIOUS
    <3>2. /\ receiver' = [receiver EXCEPT
                ![n] = [NotReceiving EXCEPT !.at = at, !.type = Head(toSat[n]).type,
                                            !.piece = Head(toSat[n]).piece]]
          /\ Head(toSat[n]).piece \in DOMAIN pending[n]
      BY <1>2, <2>4, <3>1 DEF Recv
    <3>3. receiver'[n] = [NotReceiving EXCEPT !.at = at, !.type = Head(toSat[n]).type,
                                              !.piece = Head(toSat[n]).piece]
      BY <3>2 DEF Types, SessionTypes
    <3>4. /\ receiver'[n].at = at /\ receiver'[n].type = Head(toSat[n]).type
          /\ receiver'[n].piece = Head(toSat[n]).piece
      BY <3>3 DEF NotReceiving
    <3> QED
      BY <2>1, <2>2, <3>1, <3>2, <3>4 DEF Recv, Rcv
  <2> QED
    BY <2>3, <2>4
<1> QED
  BY <1>1, <1>2

LEMMA RecvTimeoutDoes ==
    ASSUME Types, NEW n \in Exiting, RecvTimeout(n)
    PROVE  Return(n) /\ But(n, ReturnFields)
BY DEF RecvTimeout, But, ReturnFields, OfNode, OfLoop, tables

LEMMA ForgottenDoes ==
    ASSUME Types, NEW n \in Exiting, Forgotten(n)
    PROVE  pending'[n] = Without(pending[n], receiver[n].piece)
BY DEF Forgotten, RPiece, Types, SessionTypes

LEMMA ReadSucceededDoes ==
    ASSUME Types, NEW n \in Exiting, ReadSucceeded(n)
    PROVE  /\ receiver[n].at = "read" /\ receiver[n].type = "succeeded"
           /\ \/ Return(n) /\ But(n, ReturnFields)
              \/ /\ pending'[n] = Without(pending[n], receiver[n].piece)
                 /\ receiver'[n].at = "wait" /\ receiver'[n].type = None
                 /\ receiver'[n].piece = None
                 /\ But(n, {"pending", "receiver"})
              \/ /\ receiver'[n].at = "update" /\ receiver'[n].type = receiver[n].type
                 /\ receiver'[n].piece = receiver[n].piece
                 /\ receiver'[n].seen = pieces[receiver[n].piece[1]]
                 /\ HoldsPiece(n, receiver[n].piece)
                 /\ pending[n][receiver[n].piece] \notin Holders(receiver[n].piece[1])
                 /\ But(n, {"receiver"})
<1>0. receiver[n].at = "read" /\ receiver[n].type = "succeeded"
  BY DEF ReadSucceeded, Rcv
<1>1. CASE Return(n)
  BY <1>0, <1>1 DEF ReadSucceeded, But, ReturnFields, OfNode, OfLoop, tables
<1>2. CASE ~Return(n) /\ AlreadyHolder(n, RPiece(n))
  <2>1. Forgotten(n) /\ Back(n)
    BY <1>2 DEF ReadSucceeded
  <2>2. But(n, {"pending", "receiver"})
    BY <1>2 DEF ReadSucceeded, But, OfNode, OfLoop, streamVars, tables
  <2> QED
    BY <1>0, <2>1, <2>2, BackDoes, ForgottenDoes
<1>3. CASE ~Return(n) /\ ~AlreadyHolder(n, RPiece(n))
  <2>1. receiver' = [receiver EXCEPT ![n].at = "update", ![n].seen = pieces[RPiece(n)[1]]]
           /\ HoldsPiece(n, RPiece(n))
    BY <1>3 DEF ReadSucceeded
  <2>2. But(n, {"receiver"})
    BY <1>3 DEF ReadSucceeded, But, OfNode, OfLoop, streamVars, tables
  <2> QED
    BY <1>0, <1>3, <2>1, <2>2, ReadAgain DEF RPiece, AlreadyHolder
<1> QED
  BY <1>1, <1>2, <1>3

LEMMA ReadNotFoundDoes ==
    ASSUME Types, NEW n \in Exiting, ReadNotFound(n)
    PROVE  /\ receiver[n].at = "read" /\ receiver[n].type = "not found"
           /\ \/ Return(n) /\ But(n, ReturnFields)
              \/ /\ receiver'[n].at = "update" /\ receiver'[n].type = receiver[n].type
                 /\ receiver'[n].piece = receiver[n].piece
                 /\ receiver'[n].seen = pieces[receiver[n].piece[1]]
                 /\ HoldsPiece(n, receiver[n].piece)
                 /\ But(n, {"receiver"})
              \/ /\ receiver'[n].at = "dequeue" /\ receiver'[n].type = receiver[n].type
                 /\ receiver'[n].piece = receiver[n].piece
                 /\ ~HoldsPiece(n, receiver[n].piece)
                 /\ But(n, {"receiver"})
<1>0. receiver[n].at = "read" /\ receiver[n].type = "not found"
  BY DEF ReadNotFound, Rcv
<1>1. CASE Return(n)
  BY <1>0, <1>1 DEF ReadNotFound, But, ReturnFields, OfNode, OfLoop, tables
<1>2. CASE ~Return(n)
  <2>1. But(n, {"receiver"})
    BY <1>2 DEF ReadNotFound, But, OfNode, OfLoop, streamVars, tables
  <2>2. \/ HoldsPiece(n, RPiece(n)) /\ receiver' =
              [receiver EXCEPT ![n].at = "update", ![n].seen = pieces[RPiece(n)[1]]]
        \/ ~HoldsPiece(n, RPiece(n)) /\ Goto(n, "dequeue")
    BY <1>2 DEF ReadNotFound
  <2> QED
    BY <1>0, <2>1, <2>2, ReadAgain, GotoDoes DEF RPiece
<1> QED
  BY <1>1, <1>2

LEMMA ReadFailedDoes ==
    ASSUME Types, NEW n \in Exiting, ReadFailed(n)
    PROVE  /\ receiver[n].at = "read" /\ receiver[n].type = "failed"
           /\ \/ Return(n) /\ But(n, ReturnFields)
              \/ /\ receiver[n].piece \in DOMAIN queue[n]
                 /\ \E count : /\ count = queue[n][receiver[n].piece].failed + 1
                               /\ queue'[n] = [queue[n] EXCEPT ![receiver[n].piece].failed = count]
                               /\ exhausted'[n] = IF count < MaxFailures THEN exhausted[n]
                                                  ELSE exhausted[n] \union {receiver[n].piece}
                 /\ receiver'[n].at \in {"progress", "forget"}
                 /\ receiver'[n].type = receiver[n].type
                 /\ receiver'[n].piece = receiver[n].piece
                 /\ But(n, {"receiver", "queue", "exhausted"})
<1>0. receiver[n].at = "read" /\ receiver[n].type = "failed"
  BY DEF ReadFailed, Rcv
<1>1. CASE RPiece(n) \notin DOMAIN queue[n]
  BY <1>0, <1>1 DEF ReadFailed, But, ReturnFields, OfNode, OfLoop
<1>2. CASE RPiece(n) \in DOMAIN queue[n]
  <2>1. But(n, {"receiver", "queue", "exhausted"})
    BY <1>2 DEF ReadFailed, But, OfNode, OfLoop, streamVars
  <2>2. PICK count : count = queue[n][RPiece(n)].failed + 1
    OBVIOUS
  <2>3. queue'[n] = [queue[n] EXCEPT ![RPiece(n)].failed = count]
    BY <1>2, <2>2 DEF ReadFailed, Types, TableTypes
  <2>4. exhausted'[n] = IF count < MaxFailures THEN exhausted[n]
                        ELSE exhausted[n] \union {RPiece(n)}
    BY <1>2, <2>2 DEF ReadFailed, Types, TableTypes
  <2>5. Goto(n, "progress") \/ Goto(n, "forget")
    BY <1>2 DEF ReadFailed
  <2> QED
    BY <1>0, <1>2, <2>1, <2>2, <2>3, <2>4, <2>5, GotoDoes DEF RPiece
<1> QED
  BY <1>1, <1>2

LEMMA UpdateDoes ==
    ASSUME Types, EndTypes, NEW n \in Exiting, UpdateSegment(n)
    PROVE  /\ receiver[n].at = "update"
           /\ \/ Return(n) /\ But(n, ReturnFields)
              \/ /\ pieces[receiver[n].piece[1]] = receiver[n].seen
                 /\ pieces' = Moved(receiver[n].piece,
                       IF receiver[n].type = "succeeded" THEN pending[n][receiver[n].piece]
                       ELSE None)
                 /\ receiver'[n].at = "progress" /\ receiver'[n].type = receiver[n].type
                 /\ receiver'[n].piece = receiver[n].piece
                 /\ But(n, {"receiver", "pieces"})
<1>0. receiver[n].at = "update"
  BY DEF UpdateSegment, Rcv
<1>1. CASE ~Unchanged(RPiece(n), receiver[n].seen)
  BY <1>0, <1>1 DEF UpdateSegment, But, ReturnFields, OfNode, OfLoop
<1>2. CASE Unchanged(RPiece(n), receiver[n].seen)
  <2>1. But(n, {"receiver", "pieces"})
    BY <1>2 DEF UpdateSegment, But, OfNode, OfLoop, streamVars
  <2>2. PICK x : x = IF receiver[n].type = "succeeded" THEN pending[n][receiver[n].piece] ELSE None
    OBVIOUS
  <2>3. pieces[RPiece(n)[1]] = receiver[n].seen
    BY <1>2 DEF UpdateSegment, Unchanged
  <2>4. pieces' = [pieces EXCEPT ![RPiece(n)[1]] = [receiver[n].seen EXCEPT ![RPiece(n)[2]] = x]]
    BY <1>2, <2>2 DEF UpdateSegment, RPiece
  <2>5. RPiece(n) \in Piece
    BY <1>0, InHand DEF EndTypes, RPiece
  <2>6. pieces' = Moved(RPiece(n), x)
    BY <2>3, <2>4, <2>5 DEF Moved, Piece, Types, TableTypes
  <2>7. receiver' = [receiver EXCEPT ![n].at = "progress", ![n].seen = <<>>]
    BY <1>2 DEF UpdateSegment
  <2>8. receiver'[n] = [receiver[n] EXCEPT !.at = "progress", !.seen = <<>>]
    BY <2>7 DEF Types, SessionTypes
  <2>9. /\ receiver'[n].at = "progress" /\ receiver'[n].type = receiver[n].type
        /\ receiver'[n].piece = receiver[n].piece
    BY <2>8, InHand DEF Receivers
  <2> QED
    BY <1>0, <2>1, <2>2, <2>3, <2>6, <2>9 DEF RPiece
<1> QED
  BY <1>1, <1>2

LEMMA CountProgressDoes ==
    ASSUME Types, NEW n \in Exiting, CountProgress(n)
    PROVE  /\ receiver[n].at = "progress"
           /\ receiver'[n].at = IF receiver[n].type = "failed" THEN "forget" ELSE "dequeue"
           /\ receiver'[n].type = receiver[n].type /\ receiver'[n].piece = receiver[n].piece
           /\ But(n, {"receiver"})
<1>1. But(n, {"receiver"})
  BY DEF CountProgress, But, OfNode, OfLoop, streamVars
<1>2. PICK at : at = IF receiver[n].type = "failed" THEN "forget" ELSE "dequeue"
  OBVIOUS
<1>3. receiver[n].at = "progress" /\ Goto(n, at)
  BY <1>2 DEF CountProgress, Rcv
<1> QED
  BY <1>1, <1>2, <1>3, GotoDoes

LEMMA DequeueDoes ==
    ASSUME Types, NEW n \in Exiting, Dequeue(n)
    PROVE  /\ receiver[n].at = "dequeue" /\ receiver'[n].at = "forget"
           /\ receiver'[n].type = receiver[n].type /\ receiver'[n].piece = receiver[n].piece
           /\ queue'[n] = Without(queue[n], receiver[n].piece)
           /\ But(n, {"receiver", "queue"})
<1>1. But(n, {"receiver", "queue"})
  BY DEF Dequeue, But, OfNode, OfLoop, streamVars
<1>2. queue'[n] = Without(queue[n], receiver[n].piece)
  BY DEF Dequeue, DeleteTransferQueueItem, RPiece, Types, TableTypes
<1>3. receiver[n].at = "dequeue" /\ Goto(n, "forget")
  BY DEF Dequeue, Rcv
<1> QED
  BY <1>1, <1>2, <1>3, GotoDoes

LEMMA SendDoes ==
    ASSUME Types, NEW n \in Exiting, NEW m \in Messages, Send(n, m)
    PROVE  toNode'[n] = IF linked[n] THEN Append(toNode[n], m) ELSE toNode[n]
<1>1. toNode[n] \in Seq(Messages)
  BY DEF Types, StreamTypes
<1>2. toNode[n] \o <<m>> = Append(toNode[n], m)
  BY <1>1
<1> QED
  BY <1>2 DEF Send, SendMessages, Types, StreamTypes

LEMMA ForgetDoes ==
    ASSUME Types, EndTypes, NEW n \in Exiting, Forget(n)
    PROVE  /\ receiver[n].at = "forget" /\ receiver'[n].at = "wait"
           /\ receiver'[n].type = None /\ receiver'[n].piece = None
           /\ pending'[n] = Without(pending[n], receiver[n].piece)
           /\ toNode'[n] = IF receiver[n].type = "succeeded" /\ linked[n]
                           THEN Append(toNode[n], Message("delete", receiver[n].piece, None))
                           ELSE toNode[n]
           /\ But(n, {"receiver", "pending", "toNode"})
<1>1. But(n, {"receiver", "pending", "toNode"})
  BY DEF Forget, But, OfNode, OfLoop, tables
<1>2. receiver[n].at = "forget" /\ Forgotten(n) /\ Back(n)
  BY DEF Forget, Rcv
<1>3. receiver[n].piece \in Piece
  BY <1>2, InHand DEF EndTypes
<1>4. Message("delete", receiver[n].piece, None) \in Messages
  BY <1>3, MessageIs
<1>5. toNode'[n] = IF receiver[n].type = "succeeded" /\ linked[n]
                   THEN Append(toNode[n], Message("delete", receiver[n].piece, None))
                   ELSE toNode[n]
  <2>1. CASE Deletable(n)
    BY <1>4, <2>1, SendDoes DEF Forget, Deletable, RPiece
  <2>2. CASE ~Deletable(n)
    BY <2>2 DEF Forget, Deletable
  <2> QED
    BY <2>1, <2>2
<1> QED
  BY <1>1, <1>2, <1>5, BackDoes, ForgottenDoes

LEMMA JudgeDoes ==
    ASSUME Types, NEW n \in Exiting, Judge(n)
    PROVE  /\ receiver[n].at = "judge"
           /\ \/ /\ ReturnWith(n, <<Bare("refused")>>)
                 /\ status[n].disqualified
                 /\ status'[n] = Updated(status[n], "finished", FALSE)
                 /\ queue'[n] = <<>>
                 /\ But(n, ReturnFields \union {"status", "queue"})
              \/ Return(n) /\ But(n, ReturnFields)
              \/ /\ ~status[n].disqualified
                 /\ \/ receiver'[n].at = "disqualify" /\ receiver'[n].type = "failed"
                    \/ receiver'[n].at = "record" /\ receiver'[n].type = "completed"
                 /\ But(n, {"receiver"})
<1>0. receiver[n].at = "judge"
  BY DEF Judge, Rcv
<1>1. CASE status[n].disqualified
  <2>1. But(n, ReturnFields \union {"status", "queue"})
    BY <1>1 DEF Judge, But, ReturnFields, OfNode, OfLoop
  <2> QED
    BY <1>0, <1>1, <2>1 DEF Judge, DeleteTransferQueueItems, Types, TableTypes
<1>2. CASE ~status[n].disqualified /\ ~progress[n].row
  BY <1>0, <1>2 DEF Judge, But, ReturnFields, OfNode, OfLoop
<1>3. CASE ~status[n].disqualified /\ progress[n].row
  <2>1. But(n, {"receiver"})
    BY <1>3 DEF Judge, But, OfNode, OfLoop, streamVars
  <2>2. PICK type, at : /\ type = IF Failed(progress[n]) THEN "failed" ELSE "completed"
                        /\ at = IF Failed(progress[n]) THEN "disqualify" ELSE "record"
    OBVIOUS
  <2>3. receiver' = [receiver EXCEPT ![n].type = type, ![n].at = at]
    BY <1>3, <2>2 DEF Judge
  <2>4. receiver'[n] = [receiver[n] EXCEPT !.type = type, !.at = at]
    BY <2>3 DEF Types, SessionTypes
  <2>5. receiver'[n].type = type /\ receiver'[n].at = at
    BY <2>4, InHand DEF Receivers
  <2> QED
    BY <1>0, <1>3, <2>1, <2>2, <2>5
<1> QED
  BY <1>1, <1>2, <1>3

LEMMA CondemnDoes ==
    ASSUME Types, NEW n \in Exiting, Condemn(n)
    PROVE  /\ receiver[n].at = "condemn" /\ receiver'[n].at = "disqualify"
           /\ receiver'[n].type = receiver[n].type
           /\ But(n, {"receiver"})
<1>1. But(n, {"receiver"})
  BY DEF Condemn, But, OfNode, OfLoop, streamVars
<1> QED
  BY <1>1, GotoDoes DEF Condemn, Rcv

LEMMA DisqualifyDoes ==
    ASSUME Types, NEW n \in Exiting, DisqualifyNode(n)
    PROVE  /\ receiver[n].at = "disqualify" /\ receiver'[n].at = "record"
           /\ receiver'[n].type = receiver[n].type
           /\ status'[n] = [status[n] EXCEPT !.disqualified = TRUE]
           /\ But(n, {"receiver", "status"})
<1>1. But(n, {"receiver", "status"})
  BY DEF DisqualifyNode, But, OfNode, OfLoop, streamVars
<1>2. status'[n] = [status[n] EXCEPT !.disqualified = TRUE]
  BY DEF DisqualifyNode, Types, TableTypes
<1> QED
  BY <1>1, <1>2, GotoDoes DEF DisqualifyNode, Rcv

LEMMA RecordDoes ==
    ASSUME Types, NEW n \in Exiting, RecordOutcome(n)
    PROVE  /\ receiver[n].at = "record" /\ receiver'[n].at = "announce"
           /\ receiver'[n].type = receiver[n].type
           /\ status'[n] = Updated(status[n], "finished", Verdict(n))
           /\ But(n, {"receiver", "status"})
<1>1. But(n, {"receiver", "status"})
  BY DEF RecordOutcome, But, OfNode, OfLoop, streamVars
<1>2. status'[n] = Updated(status[n], "finished", Verdict(n))
  BY DEF RecordOutcome, Types, TableTypes
<1> QED
  BY <1>1, <1>2, GotoDoes DEF RecordOutcome, Rcv

LEMMA AnnounceDoes ==
    ASSUME Types, NEW n \in Exiting, Announce(n)
    PROVE  /\ receiver[n].at = "announce" /\ receiver'[n].at = "clear"
           /\ receiver'[n].type = receiver[n].type
           /\ toNode'[n] = IF linked[n] THEN Append(toNode[n], Finished(Verdict(n)))
                           ELSE toNode[n]
           /\ But(n, {"receiver", "toNode"})
<1>1. But(n, {"receiver", "toNode"})
  BY DEF Announce, But, OfNode, OfLoop, tables
<1>2. toNode'[n] = IF linked[n] THEN Append(toNode[n], Finished(Verdict(n))) ELSE toNode[n]
  BY MessageIs, SendDoes DEF Announce
<1> QED
  BY <1>1, <1>2, GotoDoes DEF Announce, Rcv

LEMMA ClearDoes ==
    ASSUME Types, NEW n \in Exiting, ClearQueue(n)
    PROVE  /\ receiver[n].at = "clear" /\ queue'[n] = <<>>
           /\ \/ Return(n) /\ But(n, ReturnFields \union {"queue"})
              \/ /\ receiver'[n].at = "wait" /\ receiver'[n].type = None
                 /\ receiver'[n].piece = None
                 /\ receiver[n].type = "invalid"
                 /\ But(n, {"receiver", "queue"})
<1>0. receiver[n].at = "clear" /\ queue'[n] = <<>>
  BY DEF ClearQueue, Rcv, DeleteTransferQueueItems, Types, TableTypes
<1>1. CASE receiver[n].type = "invalid"
  <2>1. But(n, {"receiver", "queue"})
    BY <1>1 DEF ClearQueue, But, OfNode, OfLoop, streamVars
  <2> QED
    BY <1>0, <1>1, <2>1, BackDoes DEF ClearQueue
<1>2. CASE receiver[n].type # "invalid"
  BY <1>0, <1>2 DEF ClearQueue, But, ReturnFields, OfNode, OfLoop
<1> QED
  BY <1>1, <1>2

LEMMA ConnectDoes ==
    ASSUME Types, NEW n \in Exiting, Connect(n)
    PROVE  /\ worker[n] = "idle" /\ record[n] = "exiting" /\ session[n] = "closed"
           /\ worker'[n] = "running" /\ toSat'[n] = <<>>
           /\ \/ /\ status[n].disqualified
                 /\ status'[n] = Updated(status[n], "finished", FALSE)
                 /\ queue'[n] = <<>> /\ toNode'[n] = <<Bare("refused")>>
                 /\ But(n, {"worker", "toSat", "status", "queue", "toNode"})
              \/ /\ ~status[n].disqualified /\ status[n].finished
                 /\ status'[n] = [status[n] EXCEPT !.disqualified = ~status[n].success]
                 /\ toNode'[n] = <<Finished(status[n].success)>>
                 /\ But(n, {"worker", "toSat", "status", "toNode"})
              \/ /\ ~status[n].disqualified /\ ~status[n].initiated
                 /\ status'[n] = Updated(status[n], "initiated", FALSE)
                 /\ session'[n] = "initiated" /\ linked'[n] = TRUE /\ toNode'[n] = <<>>
                 /\ But(n, {"worker", "toSat", "status", "session", "linked", "toNode"})
              \/ /\ ~status[n].disqualified /\ ~status[n].finished /\ status[n].looped
                 /\ session'[n] = "open" /\ linked'[n] = TRUE /\ toNode'[n] = <<>>
                 /\ sender'[n].at = "list" /\ sender'[n].batch = sender[n].batch
                 /\ receiver'[n].at = "wait" /\ receiver'[n].type = receiver[n].type
                 /\ receiver'[n].piece = receiver[n].piece
                 /\ But(n, {"worker", "toSat", "session", "linked", "toNode", "sender", "receiver"})
              \/ /\ toNode'[n] = <<Bare("not ready")>>
                 /\ But(n, {"worker", "toSat", "toNode"})
<1>1. /\ worker[n] = "idle" /\ record[n] = "exiting" /\ session[n] = "closed"
      /\ worker'[n] = "running" /\ toSat'[n] = <<>>
  BY DEF Connect, Types, NodeTypes, StreamTypes
<1>2. CASE status[n].disqualified
  <2>1. But(n, {"worker", "toSat", "status", "queue", "toNode"})
    BY <1>2 DEF Connect, But, OfLoop, sessionVars
  <2>2. status'[n] = Updated(status[n], "finished", FALSE) /\ queue'[n] = <<>>
    BY <1>2 DEF Connect, DeleteTransferQueueItems, Types, TableTypes
  <2>3. toNode'[n] = <<Bare("refused")>>
    BY <1>2 DEF Connect, Types, StreamTypes
  <2> QED
    BY <1>1, <1>2, <2>1, <2>2, <2>3
<1>3. CASE /\ ~status[n].disqualified /\ status[n].finished
           /\ status' = [status EXCEPT ![n].disqualified = ~status[n].success]
           /\ toNode' = [toNode EXCEPT ![n] = <<Finished(status[n].success)>>]
           /\ UNCHANGED <<sessionVars, linked, queue>>
  <2>1. But(n, {"worker", "toSat", "status", "toNode"})
    BY <1>3 DEF Connect, But, OfLoop, sessionVars
  <2>2. status'[n] = [status[n] EXCEPT !.disqualified = ~status[n].success]
    BY <1>3 DEF Types, TableTypes
  <2>3. toNode'[n] = <<Finished(status[n].success)>>
    BY <1>3 DEF Types, StreamTypes
  <2> QED
    BY <1>1, <1>3, <2>1, <2>2, <2>3
<1>4. CASE /\ ~status[n].disqualified /\ ~status[n].initiated
           /\ status' = [status EXCEPT ![n] = Updated(status[n], "initiated", FALSE)]
           /\ session' = [session EXCEPT ![n] = "initiated"]
           /\ linked' = [linked EXCEPT ![n] = TRUE]
           /\ toNode' = [toNode EXCEPT ![n] = <<>>]
           /\ UNCHANGED <<queue, sender, receiver, pending>>
  <2>1. But(n, {"worker", "toSat", "status", "session", "linked", "toNode"})
    BY <1>4 DEF Connect, But, OfLoop
  <2>2. status'[n] = Updated(status[n], "initiated", FALSE)
    BY <1>4 DEF Types, TableTypes
  <2>3. session'[n] = "initiated" /\ linked'[n] = TRUE /\ toNode'[n] = <<>>
    BY <1>4 DEF Types, StreamTypes, SessionTypes
  <2> QED
    BY <1>1, <1>4, <2>1, <2>2, <2>3
<1>5. CASE /\ ~status[n].disqualified /\ ~status[n].finished /\ status[n].looped
           /\ session' = [session EXCEPT ![n] = "open"]
           /\ linked' = [linked EXCEPT ![n] = TRUE]
           /\ toNode' = [toNode EXCEPT ![n] = <<>>]
           /\ sender' = [sender EXCEPT ![n].at = "list"]
           /\ receiver' = [receiver EXCEPT ![n].at = "wait"]
           /\ UNCHANGED <<pending, status, queue>>
  <2>1. But(n, {"worker", "toSat", "session", "linked", "toNode", "sender", "receiver"})
    BY <1>5 DEF Connect, But, OfLoop
  <2>2. session'[n] = "open" /\ linked'[n] = TRUE /\ toNode'[n] = <<>>
    BY <1>5 DEF Types, StreamTypes, SessionTypes
  <2>3. sender'[n] = [sender[n] EXCEPT !.at = "list"]
    BY <1>5 DEF Types, SessionTypes
  <2>4. sender'[n].at = "list" /\ sender'[n].batch = sender[n].batch
    BY <2>3, InBatch DEF Senders
  <2>5. /\ receiver'[n].at = "wait" /\ receiver'[n].type = receiver[n].type
        /\ receiver'[n].piece = receiver[n].piece
    BY <1>5, GotoDoes DEF Goto
  <2> QED
    BY <1>1, <1>5, <2>1, <2>2, <2>4, <2>5
<1>6. CASE /\ toNode' = [toNode EXCEPT ![n] = <<Bare("not ready")>>]
           /\ UNCHANGED <<sessionVars, linked, status, queue>>
  <2>1. But(n, {"worker", "toSat", "toNode"})
    BY <1>6 DEF Connect, But, OfLoop, sessionVars
  <2>2. toNode'[n] = <<Bare("not ready")>>
    BY <1>6 DEF Types, StreamTypes
  <2> QED
    BY <1>1, <1>6, <2>1, <2>2
<1> QED
  BY <1>2, <1>3, <1>4, <1>5, <1>6 DEF Connect

NodeRest == UNCHANGED <<tables, sessionVars, OfLoop, exhausted>>

LEMMA NextMessageDoes ==
    ASSUME Types, NEW n \in Exiting, NextMessage(n), NodeRest
    PROVE  /\ worker[n] = "running" /\ toNode[n] # <<>> /\ toNode'[n] = Tail(toNode[n])
           /\ \/ /\ Head(toNode[n]) \in Transfers \union Deletions
                 /\ jobs'[n] = jobs[n] \union {Head(toNode[n])}
                 /\ But(n, {"jobs", "toNode"})
              \/ /\ Head(toNode[n]) \in Notices
                 /\ linked'[n] = FALSE
                 /\ worker'[n] = IF Head(toNode[n]).type = "completed" THEN "wiping"
                                 ELSE "leaving"
                 /\ record'[n] = IF Head(toNode[n]).type = "refused" THEN "cancelled"
                                 ELSE IF Head(toNode[n]).type = "not ready" THEN record[n]
                                 ELSE Head(toNode[n]).type
                 /\ But(n, {"worker", "record", "linked", "toNode"})
<1>1. worker[n] = "running" /\ toNode[n] # <<>> /\ toNode'[n] = Tail(toNode[n])
  BY DEF NextMessage, Types, StreamTypes
<1>2. PICK m : m = Head(toNode[n])
  OBVIOUS
<1>3. UNCHANGED <<blobs, toSat, status, queue, exhausted, session, sender, receiver,
                  pending, pieces, loop>>
  BY DEF NextMessage, NodeRest, tables, sessionVars, OfLoop
<1>4. CASE /\ m \in Transfers \union Deletions
           /\ jobs' = [jobs EXCEPT ![n] = @ \union {m}]
           /\ UNCHANGED <<worker, record, linked>>
  <2>1. jobs'[n] = jobs[n] \union {m}
    BY <1>4 DEF Types, NodeTypes
  <2>2. But(n, {"jobs", "toNode"})
    BY <1>3, <1>4 DEF But
  <2> QED
    BY <1>1, <1>2, <1>4, <2>1, <2>2
<1>5. CASE /\ m \in Notices
           /\ jobs' = jobs /\ linked' = [linked EXCEPT ![n] = FALSE]
           /\ \/ /\ m.type \in {"not ready", "refused", "failed"}
                 /\ worker' = [worker EXCEPT ![n] = "leaving"]
              \/ /\ m.type = "completed"
                 /\ worker' = [worker EXCEPT ![n] = "wiping"]
           /\ record' = [record EXCEPT ![n] =
                 IF m.type = "refused" THEN "cancelled"
                 ELSE IF m.type = "not ready" THEN record[n] ELSE m.type]
  <2>1. /\ linked'[n] = FALSE
        /\ worker'[n] = IF m.type = "completed" THEN "wiping" ELSE "leaving"
        /\ record'[n] = IF m.type = "refused" THEN "cancelled"
                        ELSE IF m.type = "not ready" THEN record[n] ELSE m.type
    BY <1>5 DEF Types, NodeTypes, StreamTypes
  <2>2. But(n, {"worker", "record", "linked", "toNode"})
    BY <1>3, <1>5 DEF But
  <2> QED
    BY <1>1, <1>2, <1>5, <2>1, <2>2
<1> QED
  BY <1>2, <1>4, <1>5, MessageCases

LEMMA StreamOverDoes ==
    ASSUME Types, NEW n \in Exiting, StreamOver(n), NodeRest
    PROVE  /\ worker[n] = "running" /\ toNode[n] = <<>> /\ ~linked[n]
           /\ worker'[n] = "leaving" /\ But(n, {"worker"})
<1>1. But(n, {"worker"})
  BY DEF StreamOver, But, NodeRest, tables, sessionVars, OfLoop
<1> QED
  BY <1>1 DEF StreamOver, Types, NodeTypes

LEMMA LeftDoes ==
    ASSUME Types, NEW n \in Exiting, Left(n), NodeRest
    PROVE  /\ worker[n] = "leaving" /\ jobs[n] = {}
           /\ worker'[n] = "idle" /\ But(n, {"worker"})
<1>1. But(n, {"worker"})
  BY DEF Left, But, NodeRest, tables, sessionVars, OfLoop
<1> QED
  BY <1>1 DEF Left, Types, NodeTypes

LEMMA WipeDoes ==
    ASSUME Types, NEW n \in Exiting, DeleteSatelliteData(n), NodeRest
    PROVE  /\ worker[n] = "wiping" /\ jobs[n] = {}
           /\ worker'[n] = "leaving" /\ blobs' = [blobs EXCEPT ![n] = {}]
           /\ But(n, {"worker", "blobs"})
<1>1. But(n, {"worker", "blobs"})
  BY DEF DeleteSatelliteData, But, NodeRest, tables, sessionVars, OfLoop
<1> QED
  BY <1>1 DEF DeleteSatelliteData, Types, NodeTypes

LEMMA ReplyDoes ==
    ASSUME Types, NEW n \in Exiting, NEW t, NEW p, Reply(n, t, p)
    PROVE  toSat'[n] = IF Answering(n) THEN Append(toSat[n], Answer(t, p)) ELSE toSat[n]
BY DEF Reply, Types, StreamTypes

LEMMA TransferDoes ==
    ASSUME Types, NEW n \in Exiting, NEW m \in jobs[n],
           Transfer(n, m) \/ TransferFails(n, m), NodeRest
    PROVE  /\ m \in Transfers /\ jobs'[n] = jobs[n] \ {m}
           /\ But(n, {"jobs", "toSat", "blobs"})
           /\ blobs' = blobs \/ blobs' = [blobs EXCEPT ![m.to] = @ \union {m.piece}]
           /\ \E t \in AnswerTypes :
                 /\ toSat'[n] = IF Answering(n) THEN Append(toSat[n], Answer(t, m.piece))
                                ELSE toSat[n]
                 /\ t = "succeeded" => blobs' = [blobs EXCEPT ![m.to] = @ \union {m.piece}]
<1>1. m \in Transfers
  BY JobIs DEF Transfer, TransferFails
<1>2. jobs'[n] = jobs[n] \ {m}
  BY DEF Transfer, TransferFails, JobDone, Types, NodeTypes
<1>3. But(n, {"jobs", "toSat", "blobs"})
  BY DEF Transfer, TransferFails, But, NodeRest, tables, sessionVars, OfLoop
<1>4. blobs' = blobs \/ blobs' = [blobs EXCEPT ![m.to] = @ \union {m.piece}]
  BY DEF Transfer, TransferFails
<1>5. \E t \in AnswerTypes :
         /\ Reply(n, t, m.piece)
         /\ t = "succeeded" => blobs' = [blobs EXCEPT ![m.to] = @ \union {m.piece}]
  BY DEF Transfer, TransferFails, AnswerTypes
<1> QED
  BY <1>1, <1>2, <1>3, <1>4, <1>5, ReplyDoes

LEMMA DeletePieceDoes ==
    ASSUME Types, NEW n \in Exiting, NEW m \in jobs[n], DeletePiece(n, m), NodeRest
    PROVE  /\ m \in Deletions /\ m.type = "delete" /\ jobs'[n] = jobs[n] \ {m}
           /\ blobs' = [blobs EXCEPT ![n] = @ \ {m.piece}]
           /\ But(n, {"jobs", "blobs"})
<1>1. But(n, {"jobs", "blobs"})
  BY DEF DeletePiece, But, NodeRest, tables, sessionVars, OfLoop
<1> QED
  BY <1>1, JobIs DEF DeletePiece, JobDone, Types, NodeTypes

LEMMA CrashDoes ==
    ASSUME Types, NEW n \in Exiting, NodeCrash(n), NodeRest
    PROVE  /\ worker'[n] = "idle" /\ jobs'[n] = {} /\ linked'[n] = FALSE /\ toNode'[n] = <<>>
           /\ But(n, {"worker", "jobs", "linked", "toNode"})
<1>1. But(n, {"worker", "jobs", "linked", "toNode"})
  BY DEF NodeCrash, But, NodeRest, tables, sessionVars, OfLoop
<1> QED
  BY <1>1 DEF NodeCrash, Types, NodeTypes, StreamTypes

LEMMA BreakDoes ==
    ASSUME Types, NEW n \in Exiting, SessionFails(n) \/ SessionNotices(n)
    PROVE  Return(n) /\ But(n, ReturnFields)
BY DEF SessionFails, SessionNotices, But, ReturnFields, OfNode, OfLoop, tables

LEMMA FirstProgressDoes ==
    ASSUME Types, NEW n \in Exiting, FirstProgress(n)
    PROVE  /\ session[n] = "initiated" /\ ReturnWith(n, <<Bare("not ready")>>)
           /\ But(n, ReturnFields)
BY DEF FirstProgress, But, ReturnFields, OfNode, OfLoop

LEMMA LapseDoes ==
    ASSUME Types, NEW n \in Exiting, NEW m, Lapse(m)
    PROVE  But(n, {})
BY DEF Lapse, But, OfLoop, workerVars, sessionVars

LEMMA AuditDoes ==
    ASSUME Types, NEW n \in Exiting, AuditDisqualifies(n)
    PROVE  /\ ~status[n].finished /\ ~status[n].disqualified
           /\ status'[n] = [status[n] EXCEPT !.disqualified = TRUE]
           /\ But(n, {"status"})
<1>1. But(n, {"status"})
  BY DEF AuditDisqualifies, But, OfLoop, streamVars, sessionVars
<1> QED
  BY <1>1 DEF AuditDisqualifies, Types, TableTypes

LEMMA StartDoes ==
    ASSUME Types, NEW n \in Exiting, Start
    PROVE  /\ loop.at = "idle"
           /\ \/ /\ status[n].looped /\ ~status[n].finished /\ ~status[n].disqualified
                 /\ n \in dormant
                 /\ status'[n] = Updated(status[n], "finished", FALSE)
                 /\ queue'[n] = <<>>
              \/ status'[n] = status[n] /\ queue'[n] = queue[n]
           /\ loop'.at = "collect" /\ loop'.todo = Segments /\ loop'.buffer = {}
           /\ loop'.nodes = IF ExitingNodes = {} THEN loop.nodes ELSE Unlooped
           /\ But(n, {"status", "queue", "loop"})
<1>1. But(n, {"status", "queue", "loop"})
  BY DEF Start, But, workerVars, sessionVars
<1>2. loop' = [at |-> "collect", todo |-> Segments, buffer |-> {},
               nodes |-> IF ExitingNodes = {} THEN loop.nodes ELSE Unlooped]
  BY DEF Start
<1>3. /\ loop.at = "idle" /\ loop'.at = "collect" /\ loop'.todo = Segments
      /\ loop'.buffer = {}
      /\ loop'.nodes = IF ExitingNodes = {} THEN loop.nodes ELSE Unlooped
  BY <1>2 DEF Start
<1>4. PICK ns : ns = {m \in ExitingNodes : status[m].looped /\ m \in dormant}
  OBVIOUS
<1>5. /\ status' = [m \in Exiting |-> IF m \in ns THEN Updated(status[m], "finished", FALSE)
                                    ELSE status[m]]
      /\ queue' = [m \in Exiting |-> IF m \in ns THEN <<>> ELSE queue[m]]
  BY <1>4 DEF Start, FailInactive
<1>6. n \in ns => /\ status[n].looped /\ ~status[n].finished /\ ~status[n].disqualified
                  /\ n \in dormant
  BY <1>4 DEF ExitingNodes
<1> QED
  BY <1>1, <1>3, <1>5, <1>6

LEMMA CollectDoes ==
    ASSUME Types, NEW n \in Exiting, NEW s \in Segments, Collect(s)
    PROVE  /\ loop.at = "collect" /\ loop'.at = "collect" /\ loop'.nodes = loop.nodes
           /\ loop'.todo = loop.todo \ {s} /\ loop.buffer \subseteq loop'.buffer
           /\ n \in loop.nodes => \A p \in Piece : p[1] = s /\ HoldsPiece(n, p)
                                                     => <<n, p>> \in loop'.buffer
           /\ But(n, {"loop"})
<1>1. But(n, {"loop"})
  BY DEF Collect, But, workerVars, tables, sessionVars
<1>2. PICK more : more = {x \in loop.nodes \X ({s} \X Numbers) : HoldsPiece(x[1], x[2])}
  OBVIOUS
<1>3. loop' = [loop EXCEPT !.todo = @ \ {s}, !.buffer = @ \union more]
  BY <1>2 DEF Collect
<1>4. /\ loop'.at = loop.at /\ loop'.nodes = loop.nodes
      /\ loop'.todo = loop.todo \ {s} /\ loop'.buffer = loop.buffer \union more
  BY <1>3 DEF Types, Loops
<1>5. ASSUME n \in loop.nodes, NEW p \in Piece, p[1] = s, HoldsPiece(n, p)
      PROVE  <<n, p>> \in more
  <2>1. p \in {s} \X Numbers
    BY <1>5 DEF Piece
  <2> QED
    BY <1>2, <1>5, <2>1
<1> QED
  BY <1>1, <1>4, <1>5 DEF Collect

LEMMA FlushDoes ==
    ASSUME Types, NEW n \in Exiting, Flush
    PROVE  /\ DOMAIN queue'[n] = DOMAIN queue[n] \union {p \in Piece : <<n, p>> \in loop.buffer}
           /\ \A p \in DOMAIN queue'[n] :
                 \/ p \in DOMAIN queue[n] /\ queue'[n][p] = queue[n][p]
                 \/ p \notin DOMAIN queue[n] /\ queue'[n][p] = [failed |-> 0, sent |-> 0]
           /\ loop'.at = loop.at /\ loop'.nodes = loop.nodes /\ loop'.todo = loop.todo
           /\ loop'.buffer = {}
           /\ But(n, {"queue", "loop"})
<1>1. But(n, {"queue", "loop"})
  BY DEF Flush, But, workerVars, sessionVars
<1>2. PICK new : new = {p \in Piece : <<n, p>> \in loop.buffer}
  OBVIOUS
<1>3. queue'[n] = [p \in DOMAIN queue[n] \union new |->
                  IF p \in DOMAIN queue[n] THEN queue[n][p] ELSE [failed |-> 0, sent |-> 0]]
  BY <1>2 DEF Flush
<1>4. loop' = [loop EXCEPT !.buffer = {}]
  BY DEF Flush
<1>5. loop'.at = loop.at /\ loop'.nodes = loop.nodes /\ loop'.todo = loop.todo /\ loop'.buffer = {}
  BY <1>4 DEF Types, Loops
<1> QED
  BY <1>1, <1>2, <1>3, <1>5

LEMMA FinishDoes ==
    ASSUME Types, NEW n \in Exiting, Finish
    PROVE  /\ loop.at = "collect" /\ loop.todo = {} /\ loop.buffer = {}
           /\ status'[n] = IF n \in loop.nodes THEN Updated(status[n], "looped", FALSE)
                           ELSE status[n]
           /\ loop'.at = "idle" /\ loop'.nodes = IF Ranged THEN loop.nodes ELSE {}
           /\ loop'.buffer = {}
           /\ But(n, {"status", "loop"})
<1>1. But(n, {"status", "loop"})
  BY DEF Finish, But, workerVars, sessionVars
<1> QED
  BY <1>1 DEF Finish, Collected, LoopOver, NotLooping

LEMMA LoopFailsDoes ==
    ASSUME Types, NEW n \in Exiting, LoopFails
    PROVE  /\ loop'.at = "idle" /\ loop'.nodes = IF Ranged THEN loop.nodes ELSE {}
           /\ loop'.buffer = {}
           /\ But(n, {"loop"})
<1>1. But(n, {"loop"})
  BY DEF LoopFails, But, streamVars, tables, sessionVars
<1> QED
  BY <1>1 DEF LoopFails, LoopOver, NotLooping

LEMMA RepairDoes ==
    ASSUME Types, NEW n \in Exiting, NEW p, NEW x, Repair(p, x)
    PROVE  /\ x \in Replacements(p[1]) /\ pieces[p[1]][p[2]] # None /\ pieces' = Moved(p, x)
           /\ blobs' = [blobs EXCEPT ![pieces[p[1]][p[2]]] = @ \ {p}, ![x] = @ \union {p}]
           /\ But(n, {"pieces", "blobs"})
<1>1. But(n, {"pieces", "blobs"})
  BY DEF Repair, But, streamVars, sessionVars
<1> QED
  BY <1>1 DEF Repair

LEMMA DeleteSegmentDoes ==
    ASSUME Types, NEW n \in Exiting, NEW s, DeleteSegment(s)
    PROVE  /\ pieces' = [pieces EXCEPT ![s] = [k \in Numbers |-> None]]
           /\ But(n, {"pieces"})
<1>1. But(n, {"pieces"})
  BY DEF DeleteSegment, But, workerVars, sessionVars
<1> QED
  BY <1>1 DEF DeleteSegment

-----------------------------------------------------------------------------
\* The steps, as one node sees them.

LEMMA LoopStays ==
    ASSUME Types, NEW n \in Exiting,
           \/ Connect(n) \/ FirstProgress(n) \/ SenderStep(n) \/ ReceiverStep(n)
           \/ SessionFails(n) \/ SessionNotices(n) \/ NodeStep(n)
           \/ NodeCrash(n) /\ UNCHANGED <<tables, sessionVars, OfLoop, exhausted>>
           \/ Lapse(n) \/ AuditDisqualifies(n)
    PROVE  loop' = loop
<1> USE DEF OfLoop
<1>1. CASE SenderStep(n)
  BY <1>1 DEF SenderStep, List, Discard, Trim, CountSend, Put, GiveUp, InvalidSegment,
     PieceGone, ReadSurplus, SendTransfer
<1>2. CASE ReceiverStep(n)
  BY <1>2 DEF ReceiverStep, Wait, Recv, RecvTimeout, ReadSucceeded, ReadNotFound, ReadFailed,
     UpdateSegment, CountProgress, Dequeue, Forget, Judge, Condemn, DisqualifyNode,
     RecordOutcome, Announce, ClearQueue
<1>3. CASE Connect(n)
  BY <1>3 DEF Connect
<1>4. CASE \/ FirstProgress(n) \/ SessionFails(n) \/ SessionNotices(n) \/ NodeStep(n)
           \/ NodeCrash(n) /\ UNCHANGED <<tables, sessionVars, OfLoop, exhausted>>
           \/ Lapse(n) \/ AuditDisqualifies(n)
  BY <1>4 DEF FirstProgress, SessionFails, SessionNotices, NodeStep, Lapse, AuditDisqualifies
<1> QED
  BY <1>1, <1>2, <1>3, <1>4

LEMMA Steps ==
    ASSUME Types, [Next]_vars, NEW n \in Exiting
    PROVE  \/ Connect(n) \/ FirstProgress(n) \/ SenderStep(n) \/ ReceiverStep(n)
           \/ SessionFails(n) \/ SessionNotices(n)
           \/ WorkerStep(n) /\ NodeRest
           \/ NodeCrash(n) /\ NodeRest
           \/ AuditDisqualifies(n)
           \/ Start \/ Flush \/ Finish \/ LoopFails \/ \E s \in Segments : Collect(s)
           \/ But(n, {"pieces", "blobs"})
<1>1. ASSUME NEW m \in Exiting,
             \/ Connect(m) \/ FirstProgress(m) \/ SenderStep(m) \/ ReceiverStep(m)
             \/ SessionFails(m) \/ SessionNotices(m) \/ NodeStep(m)
             \/ NodeCrash(m) /\ UNCHANGED <<tables, sessionVars, OfLoop, exhausted>>
             \/ Lapse(m) \/ AuditDisqualifies(m),
             m # n
      PROVE  But(n, {"pieces", "blobs"})
  <2>1. OwnSame(n) /\ loop' = loop
    BY <1>1, StepElsewhere, LoopStays DEF Elsewhere
  <2> QED
    BY <2>1 DEF OwnSame, But
<1>2. CASE Lapse(n)
  BY <1>2, LapseDoes DEF But
<1>3. CASE \E s \in Segments : DeleteSegment(s)
  BY <1>3, DeleteSegmentDoes DEF But
<1>4. CASE \E p \in Piece, x \in Nodes : Repair(p, x)
  BY <1>4, RepairDoes DEF But
<1>5. CASE UNCHANGED vars
  BY <1>5 DEF vars, workerVars, tables, sessionVars, But
<1>6. NodeStep(n) => WorkerStep(n) /\ NodeRest
  BY DEF NodeStep, NodeRest
<1> QED
  BY <1>1, <1>2, <1>3, <1>4, <1>5, <1>6 DEF Next, NodeRest

-----------------------------------------------------------------------------
\* The receiver keeps Ends.

LEMMA ReceiverChanged ==
    ASSUME NEW n \in Exiting, EndsInv(n), sender'[n] = sender[n],
           DOMAIN pending'[n] \subseteq DOMAIN pending[n],
           receiver'[n].at \in {"read", "update", "progress", "dequeue", "forget"}
              => receiver'[n].piece \in DOMAIN pending'[n],
           receiver'[n].at = "update" =>
              /\ receiver'[n].type \in {"succeeded", "not found"}
              /\ receiver'[n].seen[receiver'[n].piece[2]] = n
              /\ receiver'[n].type = "succeeded"
                    => pending'[n][receiver'[n].piece] \notin Held(receiver'[n].seen)
    PROVE  EndsInv(n)'
BY DEF EndsInv, Others, Held, Holding

LEMMA ReceiverHas ==
    ASSUME NEW n \in Exiting, EndsInv(n),
           receiver[n].at \in {"read", "update", "progress", "dequeue", "forget"}
    PROVE  receiver[n].piece \in DOMAIN pending[n]
BY DEF EndsInv

LEMMA ReceiverEnds ==
    ASSUME Types, Ends, NEW n \in Exiting, ReceiverStep(n)
    PROVE  EndsInv(n)'
<1>0. EndsInv(n) /\ EndTypes
  BY EndsTypes DEF Ends
<1>1. CASE Return(n)
  BY <1>1, EndsReturn DEF Return, Ends
<1>2. CASE Judge(n) /\ ReturnWith(n, <<Bare("refused")>>)
  BY <1>2, EndsReturn DEF Ends
<1>5. CASE Wait(n) \/ Condemn(n) \/ DisqualifyNode(n) \/ RecordOutcome(n) \/ Announce(n)
  <2>1. receiver'[n].at \in {"recv", "judge", "disqualify", "record", "announce", "clear"}
    BY <1>5, WaitDoes, CondemnDoes, DisqualifyDoes, RecordDoes, AnnounceDoes
  <2>2. sender'[n] = sender[n] /\ pending'[n] = pending[n]
    BY <1>5 DEF Wait, Condemn, DisqualifyNode, RecordOutcome, Announce
  <2> QED
    BY <1>0, <2>1, <2>2, ReceiverChanged
<1>6. CASE Recv(n) /\ ~Return(n)
  <2>1. /\ receiver'[n].at \in {"wait", "condemn", "read"}
        /\ receiver'[n].at = "read" => receiver'[n].piece \in DOMAIN pending[n]
        /\ sender'[n] = sender[n] /\ pending'[n] = pending[n]
    BY <1>6, RecvDoes DEF But
  <2> QED
    BY <1>0, <2>1, ReceiverChanged
<1>7. CASE ReadSucceeded(n) /\ ~Return(n)
  <2>1. CASE /\ pending'[n] = Without(pending[n], receiver[n].piece)
             /\ receiver'[n].at = "wait"
             /\ But(n, {"pending", "receiver"})
    <3>1. DOMAIN pending'[n] \subseteq DOMAIN pending[n] /\ sender'[n] = sender[n]
      BY <2>1 DEF Without, But
    <3> QED
      BY <1>0, <2>1, <3>1, ReceiverChanged
  <2>2. CASE /\ receiver'[n].at = "update" /\ receiver'[n].type = receiver[n].type
             /\ receiver'[n].piece = receiver[n].piece
             /\ receiver'[n].seen = pieces[receiver[n].piece[1]]
             /\ HoldsPiece(n, receiver[n].piece)
             /\ pending[n][receiver[n].piece] \notin Holders(receiver[n].piece[1])
             /\ But(n, {"receiver"})
    <3>1. sender'[n] = sender[n] /\ pending'[n] = pending[n]
      BY <2>2 DEF But
    <3>2. receiver[n].at = "read" /\ receiver[n].type = "succeeded"
      BY <1>7, ReadSucceededDoes
    <3>3. receiver'[n].seen[receiver'[n].piece[2]] = n
      BY <2>2 DEF HoldsPiece
    <3>4. pending'[n][receiver'[n].piece] \notin Held(receiver'[n].seen)
      BY <2>2, <3>1 DEF Holders
    <3> QED
      BY <1>0, <2>2, <3>1, <3>2, <3>3, <3>4, ReceiverHas, ReceiverChanged
  <2> QED
    BY <1>7, <2>1, <2>2, ReadSucceededDoes
<1>8. CASE ReadNotFound(n) /\ ~Return(n)
  <2>1. receiver[n].at = "read" /\ receiver[n].type = "not found"
    BY <1>8, ReadNotFoundDoes
  <2>2. /\ receiver'[n].at \in {"update", "dequeue"}
        /\ receiver'[n].type = receiver[n].type /\ receiver'[n].piece = receiver[n].piece
        /\ receiver'[n].at = "update" =>
              /\ receiver'[n].seen = pieces[receiver[n].piece[1]]
              /\ HoldsPiece(n, receiver[n].piece)
        /\ But(n, {"receiver"})
    BY <1>8, ReadNotFoundDoes
  <2>3. sender'[n] = sender[n] /\ pending'[n] = pending[n]
    BY <2>2 DEF But
  <2>4. receiver'[n].at = "update" => receiver'[n].seen[receiver'[n].piece[2]] = n
    BY <2>2 DEF HoldsPiece
  <2> QED
    BY <1>0, <2>1, <2>2, <2>3, <2>4, ReceiverHas, ReceiverChanged
<1>9. CASE ReadFailed(n) /\ ~Return(n)
  <2>1. /\ receiver[n].at = "read" /\ receiver'[n].at \in {"progress", "forget"}
        /\ receiver'[n].piece = receiver[n].piece
        /\ sender'[n] = sender[n] /\ pending'[n] = pending[n]
    BY <1>9, ReadFailedDoes DEF But
  <2> QED
    BY <1>0, <2>1, ReceiverHas, ReceiverChanged
<1>10. CASE UpdateSegment(n) /\ ~Return(n)
  <2>1. /\ receiver[n].at = "update" /\ receiver'[n].at = "progress"
        /\ receiver'[n].piece = receiver[n].piece
        /\ sender'[n] = sender[n] /\ pending'[n] = pending[n]
    BY <1>0, <1>10, UpdateDoes DEF But
  <2> QED
    BY <1>0, <2>1, ReceiverHas, ReceiverChanged
<1>11. CASE CountProgress(n) \/ Dequeue(n)
  <2>1. /\ receiver[n].at \in {"progress", "dequeue"} /\ receiver'[n].at \in {"dequeue", "forget"}
        /\ receiver'[n].piece = receiver[n].piece
        /\ sender'[n] = sender[n] /\ pending'[n] = pending[n]
    BY <1>11, CountProgressDoes, DequeueDoes DEF But
  <2> QED
    BY <1>0, <2>1, ReceiverHas, ReceiverChanged
<1>12. CASE Forget(n)
  <2>1. /\ receiver'[n].at = "wait" /\ pending'[n] = Without(pending[n], receiver[n].piece)
        /\ sender'[n] = sender[n]
    BY <1>0, <1>12, ForgetDoes DEF But
  <2>2. DOMAIN pending'[n] \subseteq DOMAIN pending[n]
    BY <2>1 DEF Without
  <2> QED
    BY <1>0, <2>1, <2>2, ReceiverChanged
<1>13. CASE Judge(n) /\ ~Return(n) /\ ~ReturnWith(n, <<Bare("refused")>>)
  <2>1. /\ receiver'[n].at \in {"disqualify", "record"}
        /\ sender'[n] = sender[n] /\ pending'[n] = pending[n]
    BY <1>13, JudgeDoes DEF But
  <2> QED
    BY <1>0, <2>1, ReceiverChanged
<1>14. CASE ClearQueue(n) /\ ~Return(n)
  <2>1. receiver'[n].at = "wait" /\ sender'[n] = sender[n] /\ pending'[n] = pending[n]
    BY <1>14, ClearDoes DEF But
  <2> QED
    BY <1>0, <2>1, ReceiverChanged
<1>15. CASE RecvTimeout(n)
  BY <1>1, <1>15, RecvTimeoutDoes
<1> QED
  BY <1>1, <1>2, <1>5, <1>6, <1>7, <1>8, <1>9, <1>10, <1>11, <1>12, <1>13, <1>14, <1>15
     DEF ReceiverStep

-----------------------------------------------------------------------------
\* Sessions.

SessionInv(n) ==
    /\ session[n] = "closed" => toSat[n] = <<>> /\ ~linked[n]
    /\ session[n] # "open" => /\ sender[n] = NotSending /\ receiver[n] = NotReceiving
                              /\ pending[n] = <<>>
    /\ linked[n] => worker[n] = "running"
    /\ worker[n] = "idle" => jobs[n] = {}
    /\ session[n] = "open" => status[n].looped

Sessions == \A n \in Exiting : SessionInv(n)

LEMMA Open ==
    ASSUME NEW n \in Exiting, SessionInv(n), Types
    PROVE  /\ SenderStep(n) => session[n] = "open"
           /\ ReceiverStep(n) => session[n] = "open"
<1>1. ASSUME sender[n] = NotSending, SenderStep(n) PROVE FALSE
  <2>1. sender[n].at = "idle" /\ DOMAIN sender[n].batch = {}
    BY <1>1, EmptyIs DEF NotSending
  <2> QED
    BY <1>1, <2>1 DEF SenderStep, List, Discard, Trim, CountSend, Put, At
<1>2. ASSUME receiver[n] = NotReceiving, ReceiverStep(n) PROVE FALSE
  <2>1. receiver[n].at = "idle"
    BY <1>2 DEF NotReceiving
  <2> QED
    BY <1>2, <2>1 DEF ReceiverStep, Rcv, Wait, Recv, RecvTimeout, ReadSucceeded, ReadNotFound, ReadFailed,
       UpdateSegment, CountProgress, Dequeue, Forget, Judge, Condemn, DisqualifyNode,
       RecordOutcome, Announce, ClearQueue
<1> QED
  BY <1>1, <1>2 DEF SessionInv

\* How a session goes on in a step of its own.
LEMMA SenderEffect ==
    ASSUME Types, NEW n \in Exiting, SenderStep(n)
    PROVE  /\ worker'[n] = worker[n] /\ jobs'[n] = jobs[n] /\ status'[n] = status[n]
           /\ record'[n] = record[n]
           /\ Return(n) \/ (session'[n] = session[n] /\ linked'[n] = linked[n])
<1>1. worker'[n] = worker[n] /\ jobs'[n] = jobs[n] /\ status'[n] = status[n] /\ record'[n] = record[n]
  BY DEF SenderStep, List, Discard, Trim, CountSend, Put, GiveUp, InvalidSegment, PieceGone,
         ReadSurplus, SendTransfer, OfNode, tables
<1> QED
  BY <1>1, SenderMoves

\* A status that was read and written.
LEMMA UpdatedTo ==
    ASSUME NEW st \in Exits, NEW u, NEW b \in BOOLEAN
    PROVE  /\ u = Updated(st, "initiated", b) =>
                 /\ u.finished = st.finished /\ u.success = b
                 /\ u.looped = st.looped /\ u.disqualified = st.disqualified
           /\ u = Updated(st, "looped", b) =>
                 /\ u.finished = st.finished /\ u.success = b
                 /\ u.looped /\ u.disqualified = st.disqualified
           /\ u = Updated(st, "finished", b) =>
                 /\ u.finished /\ u.success = b
                 /\ u.looped = st.looped /\ u.disqualified = st.disqualified
           /\ u = [st EXCEPT !.disqualified = b] =>
                 /\ u.finished = st.finished /\ u.success = st.success
                 /\ u.looped = st.looped /\ u.disqualified = b
<1>1. ASSUME u = [st EXCEPT !.initiated = TRUE, !.success = b]
      PROVE  /\ u.finished = st.finished /\ u.success = b
             /\ u.looped = st.looped /\ u.disqualified = st.disqualified
  BY <1>1 DEF Exits
<1>2. ASSUME u = [st EXCEPT !.looped = TRUE, !.success = b]
      PROVE  /\ u.finished = st.finished /\ u.success = b
             /\ u.looped /\ u.disqualified = st.disqualified
  BY <1>2 DEF Exits
<1>3. ASSUME u = [st EXCEPT !.finished = TRUE, !.success = b]
      PROVE  /\ u.finished /\ u.success = b
             /\ u.looped = st.looped /\ u.disqualified = st.disqualified
  BY <1>3 DEF Exits
<1>4. ASSUME u = [st EXCEPT !.disqualified = b]
      PROVE  /\ u.finished = st.finished /\ u.success = st.success
             /\ u.looped = st.looped /\ u.disqualified = b
  BY <1>4 DEF Exits
<1> QED
  BY <1>1, <1>2, <1>3, <1>4, UpdatedIs

LEMMA StatusFails ==
    ASSUME NEW n \in Exiting, status[n] \in Exits
    PROVE  /\ status'[n] = Updated(status[n], "initiated", FALSE) =>
                 /\ status'[n].finished = status[n].finished /\ ~status'[n].success
                 /\ status'[n].looped = status[n].looped
                 /\ status'[n].disqualified = status[n].disqualified
           /\ status'[n] = Updated(status[n], "looped", FALSE) =>
                 /\ status'[n].finished = status[n].finished /\ ~status'[n].success
                 /\ status'[n].looped
                 /\ status'[n].disqualified = status[n].disqualified
           /\ status'[n] = Updated(status[n], "finished", FALSE) =>
                 /\ status'[n].finished /\ ~status'[n].success
                 /\ status'[n].looped = status[n].looped
                 /\ status'[n].disqualified = status[n].disqualified
           /\ status'[n] = [status[n] EXCEPT !.disqualified = TRUE] =>
                 /\ status'[n].finished = status[n].finished
                 /\ status'[n].success = status[n].success
                 /\ status'[n].looped = status[n].looped /\ status'[n].disqualified
<1>1. PICK b \in BOOLEAN : b = FALSE
  OBVIOUS
<1>2. PICK c \in BOOLEAN : c = TRUE
  OBVIOUS
<1>3. status'[n] = Updated(status[n], "initiated", FALSE) =>
         /\ status'[n].finished = status[n].finished /\ ~status'[n].success
         /\ status'[n].looped = status[n].looped
         /\ status'[n].disqualified = status[n].disqualified
  BY <1>1, UpdatedTo
<1>4. status'[n] = Updated(status[n], "looped", FALSE) =>
         /\ status'[n].finished = status[n].finished /\ ~status'[n].success
         /\ status'[n].looped
         /\ status'[n].disqualified = status[n].disqualified
  BY <1>1, UpdatedTo
<1>5. status'[n] = Updated(status[n], "finished", FALSE) =>
         /\ status'[n].finished /\ ~status'[n].success
         /\ status'[n].looped = status[n].looped
         /\ status'[n].disqualified = status[n].disqualified
  BY <1>1, UpdatedTo
<1>6. status'[n] = [status[n] EXCEPT !.disqualified = TRUE] =>
         /\ status'[n].finished = status[n].finished
         /\ status'[n].success = status[n].success
         /\ status'[n].looped = status[n].looped /\ status'[n].disqualified
  BY <1>2, UpdatedTo
<1> QED
  BY <1>3, <1>4, <1>5, <1>6

LEMMA ReceiverEffect ==
    ASSUME Types, NEW n \in Exiting, ReceiverStep(n)
    PROVE  /\ worker'[n] = worker[n] /\ jobs'[n] = jobs[n] /\ record'[n] = record[n]
           /\ status[n].looped => status'[n].looped
           /\ \/ Return(n) \/ ReturnWith(n, <<Bare("refused")>>)
              \/ /\ session'[n] = session[n] /\ linked'[n] = linked[n] /\ sender'[n] = sender[n]
                 /\ status' = status \/ DisqualifyNode(n) \/ RecordOutcome(n)
<1>1. UNCHANGED <<worker, record, jobs>>
  BY DEF ReceiverStep, Wait, Recv, RecvTimeout, ReadSucceeded, ReadNotFound, ReadFailed,
         UpdateSegment, CountProgress, Dequeue, Forget, Judge, Condemn, DisqualifyNode,
         RecordOutcome, Announce, ClearQueue, OfNode
<1>2. \/ Return(n) \/ ReturnWith(n, <<Bare("refused")>>)
      \/ /\ session' = session /\ linked' = linked /\ sender' = sender
         /\ status' = status \/ DisqualifyNode(n) \/ RecordOutcome(n)
  <2>1. CASE Wait(n) \/ Recv(n) \/ RecvTimeout(n) \/ ReadSucceeded(n) \/ ReadNotFound(n)
    BY <2>1 DEF Wait, Recv, RecvTimeout, ReadSucceeded, ReadNotFound, streamVars, tables
  <2>2. CASE ReadFailed(n) \/ UpdateSegment(n) \/ CountProgress(n) \/ Dequeue(n) \/ Forget(n)
    BY <2>2 DEF ReadFailed, UpdateSegment, CountProgress, Dequeue, Forget, streamVars, tables
  <2>3. CASE Judge(n) \/ Condemn(n) \/ DisqualifyNode(n) \/ RecordOutcome(n) \/ Announce(n) \/ ClearQueue(n)
    BY <2>3 DEF Judge, Condemn, DisqualifyNode, RecordOutcome, Announce, ClearQueue, streamVars, tables
  <2> QED
    BY <2>1, <2>2, <2>3 DEF ReceiverStep
<1>3. status' = status \/ Judge(n) \/ DisqualifyNode(n) \/ RecordOutcome(n)
  BY DEF ReceiverStep, Wait, Recv, RecvTimeout, ReadSucceeded, ReadNotFound, ReadFailed,
         UpdateSegment, CountProgress, Dequeue, Forget, Condemn, Announce, ClearQueue, tables
<1>4. status[n].looped => status'[n].looped
  <2>1. status[n] \in Exits /\ Verdict(n) \in BOOLEAN
    BY DEF Types, TableTypes, Verdict
  <2>2. CASE Judge(n)
    <3>1. status'[n] = status[n] \/ status'[n] = Updated(status[n], "finished", FALSE)
      BY <2>2, JudgeDoes DEF But, ReturnFields
    <3> QED
      BY <2>1, <3>1, StatusFails
  <2>3. CASE DisqualifyNode(n)
    BY <2>1, <2>3, DisqualifyDoes, StatusFails
  <2>4. CASE RecordOutcome(n)
    BY <2>1, <2>4, RecordDoes, UpdatedTo
  <2> QED
    BY <1>3, <2>2, <2>3, <2>4
<1> QED
  BY <1>1, <1>2, <1>4

LEMMA SessionReturns ==
    ASSUME Types, NEW n \in Exiting, SessionInv(n), NEW ms, ReturnWith(n, ms),
           worker'[n] = worker[n], jobs'[n] = jobs[n]
    PROVE  SessionInv(n)'
<1>1. /\ session'[n] = "closed" /\ sender'[n] = NotSending
      /\ receiver'[n] = NotReceiving /\ pending'[n] = <<>>
      /\ linked'[n] = FALSE /\ toSat'[n] = <<>>
  BY DEF ReturnWith, Types, StreamTypes, SessionTypes
<1> QED
  BY <1>1 DEF SessionInv, NotSending, NotReceiving

LEMMA SessionKept ==
    ASSUME NEW n \in Exiting, SessionInv(n), session'[n] = "open", session[n] = "open",
           linked'[n] = linked[n], worker'[n] = worker[n], jobs'[n] = jobs[n],
           status[n].looped => status'[n].looped
    PROVE  SessionInv(n)'
BY DEF SessionInv

LEMMA SessionSame ==
    ASSUME NEW n \in Exiting, SessionInv(n),
           worker'[n] = worker[n], jobs'[n] = jobs[n], linked'[n] = linked[n],
           toSat'[n] = toSat[n], session'[n] = session[n], sender'[n] = sender[n],
           receiver'[n] = receiver[n], pending'[n] = pending[n],
           status[n].looped => status'[n].looped
    PROVE  SessionInv(n)'
BY DEF SessionInv, NotSending, NotReceiving

LEMMA NextSession ==
    ASSUME Types, NEW n \in Exiting, SessionInv(n), [Next]_vars
    PROVE  SessionInv(n)'
<1> USE DEF But
<1>0. /\ status[n] \in Exits /\ session[n] \in {"closed", "initiated", "open"}
      /\ linked[n] \in BOOLEAN
  BY DEF Types, TableTypes, SessionTypes, StreamTypes
<1>1. CASE SenderStep(n)
  BY <1>1, Open, SenderEffect, SessionReturns, SessionKept DEF Return
<1>2. CASE ReceiverStep(n)
  BY <1>2, Open, ReceiverEffect, SessionReturns, SessionKept DEF Return
<1>3. CASE Connect(n)
  <2>1. CASE session'[n] = "closed"
    <3>1. /\ linked'[n] = linked[n] /\ sender'[n] = sender[n] /\ receiver'[n] = receiver[n]
          /\ pending'[n] = pending[n] /\ session[n] = "closed" /\ toSat'[n] = <<>>
          /\ worker'[n] = "running"
      BY <1>3, <2>1, ConnectDoes
    <3> QED
      BY <2>1, <3>1 DEF SessionInv, NotSending, NotReceiving
  <2>2. CASE session'[n] = "initiated"
    <3>1. /\ sender'[n] = sender[n] /\ receiver'[n] = receiver[n]
          /\ pending'[n] = pending[n] /\ session[n] = "closed"
          /\ worker'[n] = "running"
      BY <1>3, <2>2, ConnectDoes
    <3> QED
      BY <2>2, <3>1 DEF SessionInv, NotSending, NotReceiving
  <2>3. CASE session'[n] = "open"
    <3>1. status[n].looped /\ status'[n] = status[n] /\ worker'[n] = "running"
      BY <1>3, <2>3, ConnectDoes
    <3> QED
      BY <2>3, <3>1 DEF SessionInv
  <2>4. session'[n] \in {"closed", "initiated", "open"}
    BY <1>3, ConnectTypes DEF Types, SessionTypes
  <2> QED
    BY <2>1, <2>2, <2>3, <2>4
<1>4. CASE FirstProgress(n)
  BY <1>4, FirstProgressDoes, SessionReturns DEF ReturnFields
<1>5. CASE SessionFails(n) \/ SessionNotices(n)
  BY <1>5, BreakDoes, SessionReturns DEF ReturnFields, Return
<1>6. CASE WorkerStep(n) /\ NodeRest
  <2>1. /\ session'[n] = session[n] /\ sender'[n] = sender[n] /\ receiver'[n] = receiver[n]
        /\ pending'[n] = pending[n] /\ status'[n] = status[n]
    BY <1>6 DEF NodeRest, tables, sessionVars
  <2>2. CASE NextMessage(n)
    <3>1. /\ worker[n] = "running" /\ toSat'[n] = toSat[n] /\ worker'[n] # "idle"
          /\ \/ worker'[n] = worker[n] /\ linked'[n] = linked[n]
             \/ ~linked'[n]
      BY <1>6, <2>2, NextMessageDoes
    <3> QED
      BY <2>1, <3>1 DEF SessionInv, NotSending, NotReceiving
  <2>3. CASE StreamOver(n) \/ Left(n) \/ DeleteSatelliteData(n)
    <3>1. /\ toSat'[n] = toSat[n] /\ linked'[n] = linked[n] /\ jobs'[n] = jobs[n]
          /\ worker'[n] = "idle" => jobs[n] = {}
          /\ worker[n] = "running" => ~linked[n]
      BY <1>6, <2>3, StreamOverDoes, LeftDoes, WipeDoes
    <3> QED
      BY <2>1, <3>1 DEF SessionInv, NotSending, NotReceiving
  <2>4. ASSUME NEW m \in jobs[n], Transfer(n, m) \/ TransferFails(n, m) \/ DeletePiece(n, m)
        PROVE  SessionInv(n)'
    <3>1. worker'[n] = worker[n] /\ linked'[n] = linked[n] /\ jobs'[n] \subseteq jobs[n]
      BY <1>6, <2>4, TransferDoes, DeletePieceDoes
    <3>2. session[n] = "closed" => toSat'[n] = toSat[n]
      BY <1>6, <2>4, TransferDoes, DeletePieceDoes DEF SessionInv, Answering
    <3> QED
      BY <2>1, <3>1, <3>2 DEF SessionInv, NotSending, NotReceiving
  <2> QED
    BY <1>6, <2>2, <2>3, <2>4 DEF WorkerStep, JobStep
<1>7. CASE NodeCrash(n) /\ NodeRest
  <2>1. /\ worker'[n] = "idle" /\ jobs'[n] = {} /\ linked'[n] = FALSE /\ toSat'[n] = toSat[n]
        /\ session'[n] = session[n] /\ sender'[n] = sender[n] /\ receiver'[n] = receiver[n]
        /\ pending'[n] = pending[n] /\ status'[n] = status[n]
    BY <1>7, CrashDoes
  <2> QED
    BY <2>1 DEF SessionInv, NotSending, NotReceiving
<1>8. ASSUME /\ worker'[n] = worker[n] /\ jobs'[n] = jobs[n] /\ linked'[n] = linked[n]
             /\ toSat'[n] = toSat[n]
             /\ session'[n] = session[n] /\ sender'[n] = sender[n] /\ receiver'[n] = receiver[n]
             /\ pending'[n] = pending[n],
             status[n].looped => status'[n].looped
      PROVE  SessionInv(n)'
  BY <1>8, SessionSame
<1>9. CASE AuditDisqualifies(n)
  BY <1>0, <1>8, <1>9, AuditDoes, StatusFails
<1>10. CASE Start
  BY <1>0, <1>8, <1>10, StartDoes, StatusFails
<1>11. CASE Finish
  BY <1>0, <1>8, <1>11, FinishDoes, StatusFails
<1>12. CASE Flush \/ LoopFails \/ \E s \in Segments : Collect(s)
  BY <1>8, <1>12, FlushDoes, LoopFailsDoes, CollectDoes
<1>13. CASE But(n, {"pieces", "blobs"})
  BY <1>8, <1>13
<1> QED
  BY <1>1, <1>2, <1>3, <1>4, <1>5, <1>6, <1>7, <1>9, <1>10, <1>11, <1>12, <1>13, Steps

LEMMA NextEnds ==
    ASSUME Types, Sessions, Ends, [Next]_vars
    PROVE  Ends'
<1> SUFFICES ASSUME NEW n \in Exiting PROVE EndsInv(n)'
  BY DEF Ends
<1> USE DEF But
<1>0. EndsInv(n) /\ SessionInv(n)
  BY DEF Ends, Sessions
<1>1. CASE SenderStep(n)
  BY <1>1, SenderEnds DEF Ends
<1>2. CASE ReceiverStep(n)
  BY <1>2, ReceiverEnds
<1>3. CASE Connect(n)
  <2>1. CASE sender'[n] = sender[n] /\ receiver'[n] = receiver[n]
    <3>1. pending'[n] = pending[n]
      BY <1>3, ConnectDoes
    <3> QED
      BY <1>0, <2>1, <3>1, EndsSame
  <2>2. CASE ~(sender'[n] = sender[n] /\ receiver'[n] = receiver[n])
    <3>1. /\ session[n] = "closed" /\ pending'[n] = pending[n]
          /\ sender'[n].at = "list" /\ sender'[n].batch = sender[n].batch
          /\ receiver'[n].at = "wait"
      BY <1>3, <2>2, ConnectDoes
    <3>2. sender[n] = NotSending
      BY <1>0, <3>1 DEF SessionInv
    <3>3. DOMAIN sender'[n].batch = {}
      BY <3>1, <3>2, EmptyIs DEF NotSending
    <3> QED
      BY <3>1, <3>3 DEF EndsInv, Holding, Others, Held
  <2> QED
    BY <2>1, <2>2
<1>4. CASE FirstProgress(n)
  BY <1>4, FirstProgressDoes, EndsReturn DEF Ends
<1>5. CASE SessionFails(n) \/ SessionNotices(n)
  BY <1>5, BreakDoes, EndsReturn DEF Return, Ends
<1>6. CASE (WorkerStep(n) \/ NodeCrash(n)) /\ NodeRest
  BY <1>0, <1>6, EndsSame DEF NodeRest, sessionVars
<1>7. CASE AuditDisqualifies(n)
  BY <1>0, <1>7, AuditDoes, EndsSame
<1>8. CASE Start \/ Flush \/ Finish \/ LoopFails \/ \E s \in Segments : Collect(s)
  BY <1>0, <1>8, StartDoes, FlushDoes, FinishDoes, LoopFailsDoes, CollectDoes, EndsSame
<1>9. CASE But(n, {"pieces", "blobs"})
  BY <1>0, <1>9, EndsSame
<1> QED
  BY <1>1, <1>2, <1>3, <1>4, <1>5, <1>6, <1>7, <1>8, <1>9, Steps

-----------------------------------------------------------------------------
\* The counts of the queue.

Sent(n, p) == sender[n].at = "put" /\ sender[n].piece = p
Excused(n, p) ==
    /\ receiver[n].at \in {"progress", "forget"} /\ receiver[n].type = "failed"
    /\ receiver[n].piece = p
InSession(n) == DOMAIN sender[n].batch \union DOMAIN pending[n]

\* A piece that is being handled was not sent more often than its batch says,
\* and may fail once more.
Bounded(n, p) ==
    p \in DOMAIN queue[n] =>
       /\ queue[n][p].failed <= MaxFailures /\ queue[n][p].sent <= MaxSends
       /\ p \in DOMAIN sender[n].batch =>
             queue[n][p].sent <= sender[n].batch[p].sent \/ Sent(n, p)
       /\ p \in InSession(n) => queue[n][p].failed < MaxFailures \/ Excused(n, p)

BoundsInv(n) ==
    /\ \A p \in Piece : Bounded(n, p)
    /\ sender[n].at = "count" => sender[n].batch[sender[n].piece].sent < MaxSends

FewerItems(n) ==
    \A p \in DOMAIN queue'[n] : p \in DOMAIN queue[n] /\ queue'[n][p] = queue[n][p]

LEMMA ItemsFewer ==
    ASSUME NEW n \in Exiting
    PROVE  /\ queue'[n] = queue[n] => FewerItems(n)
           /\ queue'[n] = <<>> => FewerItems(n)
           /\ \A p : queue'[n] = Without(queue[n], p) => FewerItems(n)
<1>1. ASSUME NEW p, queue'[n] = Without(queue[n], p)
      PROVE  FewerItems(n)
  BY <1>1 DEF FewerItems, Without
<1>2. queue'[n] = <<>> => FewerItems(n)
  BY EmptyIs DEF FewerItems
<1> QED
  BY <1>1, <1>2 DEF FewerItems

LEMMA BoundedKept ==
    ASSUME NEW n \in Exiting, NEW p, Bounded(n, p),
           p \in DOMAIN queue'[n] => p \in DOMAIN queue[n] /\ queue'[n][p] = queue[n][p],
           p \in DOMAIN sender'[n].batch =>
              /\ p \in DOMAIN sender[n].batch /\ sender'[n].batch[p] = sender[n].batch[p]
              /\ Sent(n, p) => Sent(n, p)',
           p \in InSession(n)' => p \in InSession(n) /\ (Excused(n, p) => Excused(n, p)')
    PROVE  Bounded(n, p)'
BY DEF Bounded

\* The queue is left alone or loses items, and so is the sender.
LEMMA BoundsKept ==
    ASSUME NEW n \in Exiting, BoundsInv(n),
           FewerItems(n),
           \A p \in DOMAIN sender'[n].batch :
              /\ p \in DOMAIN sender[n].batch /\ sender'[n].batch[p] = sender[n].batch[p]
              /\ Sent(n, p) => Sent(n, p)',
           \A p \in InSession(n)' : p \in InSession(n) /\ (Excused(n, p) => Excused(n, p)'),
           sender'[n].at = "count" => sender'[n].batch[sender'[n].piece].sent < MaxSends
    PROVE  BoundsInv(n)'
<1>1. ASSUME NEW p \in Piece PROVE Bounded(n, p)'
  <2>1. Bounded(n, p)
    BY DEF BoundsInv
  <2> QED
    BY <2>1, BoundedKept DEF FewerItems
<1> QED
  BY <1>1 DEF BoundsInv

LEMMA BoundsReturn ==
    ASSUME Types, NEW n \in Exiting, BoundsInv(n),
           FewerItems(n),
           sender'[n] = NotSending, pending'[n] = <<>>
    PROVE  BoundsInv(n)'
<1>1. DOMAIN sender'[n].batch = {} /\ sender'[n].at = "idle" /\ InSession(n)' = {}
  BY EmptyIs DEF NotSending, InSession
<1> QED
  BY <1>1, BoundsKept

LEMMA BoundsReceiver ==
    ASSUME NEW n \in Exiting, BoundsInv(n), sender'[n] = sender[n],
           FewerItems(n),
           DOMAIN pending'[n] \subseteq DOMAIN pending[n],
           \A p \in InSession(n)' : Excused(n, p) => Excused(n, p)'
    PROVE  BoundsInv(n)'
<1>1. /\ \A p : Sent(n, p) => Sent(n, p)'
      /\ InSession(n)' \subseteq InSession(n)
  BY DEF Sent, InSession
<1>2. sender'[n].at = "count" => sender'[n].batch[sender'[n].piece].sent < MaxSends
  BY DEF BoundsInv
<1> QED
  BY <1>1, <1>2, BoundsKept

LEMMA ForgetIs ==
    ASSUME NEW n \in Exiting, NEW p, pending'[n] = Without(pending[n], p)
    PROVE  /\ DOMAIN pending'[n] = DOMAIN pending[n] \ {p}
           /\ \A q \in DOMAIN pending'[n] : pending'[n][q] = pending[n][q]
BY DEF Without

LEMMA ListBounds ==
    ASSUME Types, NEW n \in Exiting, BoundsInv(n), List(n)
    PROVE  BoundsInv(n)'
<1>1. /\ sender'[n].at \in {"done", "batch"} /\ pending'[n] = <<>>
      /\ queue'[n] = queue[n]
      /\ sender'[n].batch = [p \in Incomplete(queue[n]) |-> queue[n][p]]
  BY ListDoes DEF But
<1>6. /\ DOMAIN sender'[n].batch = Incomplete(queue[n])
      /\ \A p \in Incomplete(queue[n]) : sender'[n].batch[p] = queue[n][p]
  BY <1>1
<1>2. queue[n] \in Queues
  BY DEF Types, TableTypes
<1>3. InSession(n)' = Incomplete(queue[n])
  BY <1>1, <1>6, EmptyIs DEF InSession
<1>4. ASSUME NEW p \in Incomplete(queue[n])
      PROVE  queue[n][p].failed < MaxFailures /\ queue[n][p].sent \in Nat
  BY <1>2, QueueIs, GracefulExitAssumption DEF Incomplete, Items
<1>5. ASSUME NEW p \in Piece PROVE Bounded(n, p)'
  <2>1. Bounded(n, p)
    BY DEF BoundsInv
  <2> QED
    BY <1>1, <1>3, <1>4, <1>6, <2>1 DEF Bounded
<1> QED
  BY <1>1, <1>5 DEF BoundsInv

LEMMA CountSendBounds ==
    ASSUME Types, NEW n \in Exiting, EndsInv(n), BoundsInv(n), CountSend(n)
    PROVE  BoundsInv(n)'
<1> DEFINE q == sender[n].piece
<1>1. /\ sender[n].at = "count" /\ sender'[n].at = "put" /\ sender'[n].piece = q
      /\ sender'[n].batch = sender[n].batch
      /\ pending'[n] = pending[n] /\ receiver'[n] = receiver[n]
      /\ queue'[n] = IF q \in DOMAIN queue[n] THEN [queue[n] EXCEPT ![q].sent = @ + 1]
                     ELSE queue[n]
  BY CountSendDoes DEF But
<1>2. /\ queue[n] \in Queues /\ \A p \in DOMAIN queue[n] : queue[n][p] \in Items
      /\ q \in DOMAIN sender[n].batch /\ sender[n].batch[q] \in Items
  BY <1>1, QueueIs, InBatch DEF Types, TableTypes, EndsInv, Holding
<1>3. sender[n].batch[q].sent < MaxSends
  BY <1>1 DEF BoundsInv
<1>4. /\ DOMAIN queue'[n] = DOMAIN queue[n]
      /\ \A p \in DOMAIN queue[n] : p # q => queue'[n][p] = queue[n][p]
      /\ q \in DOMAIN queue[n] => /\ queue'[n][q].failed = queue[n][q].failed
                                  /\ queue'[n][q].sent = queue[n][q].sent + 1
  BY <1>1, <1>2 DEF Items
<1>5. ASSUME NEW p \in Piece PROVE Bounded(n, p)'
  <2>1. Bounded(n, p)
    BY DEF BoundsInv
  <2>2. InSession(n)' = InSession(n) /\ (Excused(n, p) => Excused(n, p)')
    BY <1>1 DEF InSession, Excused
  <2>3. CASE p # q
    <3>1. ~Sent(n, p)
      BY <1>1 DEF Sent
    <3> QED
      BY <1>1, <1>4, <2>1, <2>2, <2>3, <3>1, BoundedKept
  <2>4. CASE p = q
    <3>1. ~Sent(n, p) /\ Sent(n, p)'
      BY <1>1, <2>4 DEF Sent
    <3>2. p \in DOMAIN queue[n] => queue'[n][p].sent <= MaxSends
      BY <1>2, <1>3, <1>4, <2>1, <2>4, <3>1, GracefulExitAssumption DEF Bounded, Items
    <3> QED
      BY <1>4, <2>1, <2>2, <2>4, <3>1, <3>2 DEF Bounded
  <2> QED
    BY <2>3, <2>4
<1> QED
  BY <1>1, <1>5 DEF BoundsInv

LEMMA PutBounds ==
    ASSUME Types, NEW n \in Exiting, EndsInv(n), BoundsInv(n), Put(n)
    PROVE  BoundsInv(n)'
<1> DEFINE q == sender[n].piece
<1>1. /\ sender[n].at = "put" /\ NextOf(n, q)
      /\ pending'[n] = With(pending[n], q, sender[n].to)
      /\ receiver'[n] = receiver[n] /\ queue'[n] = queue[n]
  BY PutDoes DEF But
<1>2. /\ DOMAIN sender'[n].batch = DOMAIN sender[n].batch \ {q}
      /\ \A p \in DOMAIN sender'[n].batch : sender'[n].batch[p] = sender[n].batch[p]
      /\ sender'[n].at \in {"list", "batch"}
  BY <1>1, NextIs
<1>3. q \in DOMAIN sender[n].batch /\ DOMAIN pending'[n] = DOMAIN pending[n] \union {q}
  BY <1>1 DEF EndsInv, Holding, With
<1>4. InSession(n)' = InSession(n)
  BY <1>2, <1>3 DEF InSession
<1>5. \A p \in DOMAIN sender'[n].batch : ~Sent(n, p)
  BY <1>2 DEF Sent
<1>6. \A p : Excused(n, p) => Excused(n, p)'
  BY <1>1 DEF Excused
<1> QED
  BY <1>1, <1>2, <1>4, <1>5, <1>6, ItemsFewer, BoundsKept

LEMMA SenderBounds ==
    ASSUME Types, NEW n \in Exiting, EndsInv(n), BoundsInv(n), SenderStep(n)
    PROVE  BoundsInv(n)'
<1> USE DEF But
<1>1. CASE Return(n) /\ FewerItems(n)
  BY <1>1, ReturnedEmpty, BoundsReturn
<1>2. ASSUME queue'[n] = queue[n], receiver'[n] = receiver[n], pending'[n] = pending[n],
             sender'[n].batch = sender[n].batch, sender[n].at # "put",
             sender'[n].at = "count" => sender'[n].batch[sender'[n].piece].sent < MaxSends
      PROVE  BoundsInv(n)'
  <2>1. \A p : ~Sent(n, p) /\ (Excused(n, p) => Excused(n, p)')
    BY <1>2 DEF Sent, Excused
  <2>2. InSession(n)' = InSession(n)
    BY <1>2 DEF InSession
  <2> QED
    BY <1>2, <2>1, <2>2, ItemsFewer, BoundsKept
<1>3. CASE List(n)
  BY <1>3, ListBounds
<1>4. CASE Discard(n)
  <2>1. /\ sender[n].at = "discard" /\ NextOf(n, sender[n].piece)
        /\ queue'[n] = Without(queue[n], sender[n].piece)
        /\ pending'[n] = pending[n] /\ receiver'[n] = receiver[n]
    BY <1>4, DiscardDoes
  <2>2. /\ DOMAIN sender'[n].batch \subseteq DOMAIN sender[n].batch
        /\ \A p \in DOMAIN sender'[n].batch : sender'[n].batch[p] = sender[n].batch[p]
        /\ sender'[n].at \in {"list", "batch"}
    BY <2>1, NextIs
  <2>3. \A p : ~Sent(n, p) /\ (Excused(n, p) => Excused(n, p)')
    BY <2>1 DEF Sent, Excused
  <2>4. InSession(n)' \subseteq InSession(n)
    BY <2>1, <2>2 DEF InSession
  <2> QED
    BY <2>1, <2>2, <2>3, <2>4, ItemsFewer, BoundsKept
<1>5. CASE Trim(n)
  BY <1>1, <1>2, <1>5, ItemsFewer, TrimDoes DEF ReturnFields
<1>6. CASE CountSend(n)
  BY <1>6, CountSendBounds
<1>7. CASE Put(n)
  BY <1>7, PutBounds
<1>8. ASSUME NEW p \in DOMAIN sender[n].batch,
             GiveUp(n, p) \/ InvalidSegment(n, p) \/ ReadSurplus(n, p)
      PROVE  BoundsInv(n)'
  <2>1. /\ queue'[n] = queue[n] /\ receiver'[n] = receiver[n] /\ pending'[n] = pending[n]
        /\ sender'[n].batch = sender[n].batch /\ sender[n].at = "batch"
        /\ sender'[n].at \in {"discard", "trim"}
    BY <1>8, GiveUpDoes, InvalidDoes, ReadSurplusDoes
  <2> QED
    BY <1>2, <2>1
<1>9. ASSUME NEW p \in DOMAIN sender[n].batch, PieceGone(n, p)
      PROVE  BoundsInv(n)'
  BY <1>1, <1>9, PieceGoneDoes, ItemsFewer
<1>10. ASSUME NEW p \in DOMAIN sender[n].batch, SendTransfer(n, p)
       PROVE  BoundsInv(n)'
  <2>1. CASE Return(n) /\ But(n, ReturnFields)
    BY <1>1, <2>1, ItemsFewer DEF ReturnFields
  <2>2. CASE ~(Return(n) /\ But(n, ReturnFields))
    <3>1. /\ queue'[n] = queue[n] /\ receiver'[n] = receiver[n] /\ pending'[n] = pending[n]
          /\ sender'[n].batch = sender[n].batch /\ sender[n].at = "batch"
          /\ sender'[n].piece = p /\ sender[n].batch[p].sent < MaxSends
      BY <1>10, <2>2, SendTransferDoes
    <3> QED
      BY <1>2, <3>1
  <2> QED
    BY <2>1, <2>2
<1> QED
  BY <1>3, <1>4, <1>5, <1>6, <1>7, <1>8, <1>9, <1>10 DEF SenderStep

LEMMA ReadFailedBounds ==
    ASSUME Types, NEW n \in Exiting, EndsInv(n), BoundsInv(n), ReadFailed(n)
    PROVE  BoundsInv(n)'
<1> DEFINE q == receiver[n].piece
<1>1. CASE Return(n) /\ But(n, ReturnFields)
  <2>1. queue'[n] = queue[n]
    BY <1>1 DEF But, ReturnFields
  <2> QED
    BY <1>1, <2>1, ItemsFewer, ReturnedEmpty, BoundsReturn
<1>2. CASE ~(Return(n) /\ But(n, ReturnFields))
  <2>1. /\ receiver[n].at = "read" /\ receiver[n].type = "failed" /\ q \in DOMAIN queue[n]
        /\ receiver'[n].at \in {"progress", "forget"}
        /\ receiver'[n].type = "failed" /\ receiver'[n].piece = q
        /\ queue'[n] = [queue[n] EXCEPT ![q].failed = queue[n][q].failed + 1]
        /\ sender'[n] = sender[n] /\ pending'[n] = pending[n]
    BY <1>2, ReadFailedDoes DEF But
  <2>2. queue[n] \in Queues /\ \A p \in DOMAIN queue[n] : queue[n][p] \in Items
    BY QueueIs DEF Types, TableTypes
  <2>3. /\ DOMAIN queue'[n] = DOMAIN queue[n]
        /\ \A p \in DOMAIN queue[n] : p # q => queue'[n][p] = queue[n][p]
        /\ queue'[n][q].failed = queue[n][q].failed + 1 /\ queue'[n][q].sent = queue[n][q].sent
    BY <2>1, <2>2 DEF Items
  <2>4. q \in DOMAIN pending[n] /\ q \in InSession(n) /\ InSession(n)' = InSession(n)
    BY <2>1, ReceiverHas DEF InSession
  <2>5. Excused(n, q)' /\ \A p : ~Excused(n, p)
    BY <2>1 DEF Excused
  <2>6. \A p : Sent(n, p) => Sent(n, p)'
    BY <2>1 DEF Sent
  <2>7. ASSUME NEW p \in Piece PROVE Bounded(n, p)'
    <3>1. Bounded(n, p)
      BY DEF BoundsInv
    <3>2. CASE p # q
      BY <2>1, <2>3, <2>4, <2>5, <2>6, <3>1, <3>2, BoundedKept
    <3>3. CASE p = q
      <4>1. queue'[n][q].failed <= MaxFailures
        BY <2>1, <2>2, <2>3, <2>4, <2>5, <3>1, <3>3, GracefulExitAssumption DEF Bounded, Items
      <4> QED
        BY <2>1, <2>3, <2>4, <2>5, <2>6, <3>1, <3>3, <4>1 DEF Bounded
    <3> QED
      BY <3>2, <3>3
  <2> QED
    BY <2>1, <2>7 DEF BoundsInv
<1> QED
  BY <1>1, <1>2

LEMMA ReceiverBounds ==
    ASSUME Types, NEW n \in Exiting, EndsInv(n), EndTypes, BoundsInv(n), ReceiverStep(n)
    PROVE  BoundsInv(n)'
<1> USE DEF But
<1>1. CASE Return(n) /\ FewerItems(n)
  BY <1>1, ReturnedEmpty, BoundsReturn
<1>2. ASSUME queue'[n] = queue[n] \/ queue'[n] = <<>> \/ queue'[n] = Without(queue[n], receiver[n].piece),
             pending'[n] = pending[n], sender'[n] = sender[n],
             ~(receiver[n].at \in {"progress", "forget"} /\ receiver[n].type = "failed")
      PROVE  BoundsInv(n)'
  <2>1. \A p : ~Excused(n, p)
    BY <1>2 DEF Excused
  <2> QED
    BY <1>2, <2>1, ItemsFewer, BoundsReceiver
<1>3. CASE Wait(n) \/ Condemn(n) \/ DisqualifyNode(n) \/ RecordOutcome(n) \/ Announce(n)
  <2>1. /\ receiver[n].at \notin {"progress", "forget"}
        /\ sender'[n] = sender[n] /\ pending'[n] = pending[n] /\ queue'[n] = queue[n]
    <3>1. CASE Wait(n)
      BY <3>1, WaitDoes
    <3>2. CASE Condemn(n) \/ DisqualifyNode(n)
      BY <3>2, CondemnDoes, DisqualifyDoes
    <3>3. CASE RecordOutcome(n) \/ Announce(n)
      BY <3>3, RecordDoes, AnnounceDoes
    <3> QED
      BY <1>3, <3>1, <3>2, <3>3
  <2> QED
    BY <1>2, <2>1
<1>4. CASE Recv(n) \/ RecvTimeout(n)
  <2>1. CASE Return(n) /\ But(n, ReturnFields)
    BY <1>1, <2>1, ItemsFewer DEF ReturnFields
  <2>2. CASE ~(Return(n) /\ But(n, ReturnFields))
    <3>1. /\ receiver[n].at \notin {"progress", "forget"}
          /\ sender'[n] = sender[n] /\ pending'[n] = pending[n] /\ queue'[n] = queue[n]
      BY <1>4, <2>2, RecvDoes, RecvTimeoutDoes
    <3> QED
      BY <1>2, <3>1
  <2> QED
    BY <2>1, <2>2
<1>5. CASE ReadSucceeded(n) \/ ReadNotFound(n)
  <2>1. CASE Return(n) /\ But(n, ReturnFields)
    BY <1>1, <2>1, ItemsFewer DEF ReturnFields
  <2>2. CASE pending'[n] = Without(pending[n], receiver[n].piece) /\ But(n, {"pending", "receiver"})
    <3>1. /\ receiver[n].at = "read" /\ sender'[n] = sender[n] /\ queue'[n] = queue[n]
      BY <1>5, <2>2, ReadSucceededDoes, ReadNotFoundDoes
    <3>2. \A p : ~Excused(n, p)
      BY <3>1 DEF Excused
    <3> QED
      BY <2>2, <3>1, <3>2, ItemsFewer, ForgetIs, BoundsReceiver
  <2>3. CASE But(n, {"receiver"})
    <3>1. /\ receiver[n].at = "read" /\ sender'[n] = sender[n] /\ queue'[n] = queue[n]
          /\ pending'[n] = pending[n]
      BY <1>5, <2>3, ReadSucceededDoes, ReadNotFoundDoes
    <3> QED
      BY <1>2, <3>1
  <2> QED
    <3> HIDE DEF But
    <3>1. CASE ReadSucceeded(n)
      BY <2>1, <2>2, <2>3, <3>1, ReadSucceededDoes
    <3>2. CASE ReadNotFound(n)
      BY <2>1, <2>3, <3>2, ReadNotFoundDoes
    <3> QED
      BY <1>5, <3>1, <3>2
<1>6. CASE ReadFailed(n)
  BY <1>6, ReadFailedBounds
<1>7. CASE UpdateSegment(n)
  BY <1>1, <1>2, <1>7, ItemsFewer, UpdateDoes DEF ReturnFields
<1>8. CASE CountProgress(n)
  <2>1. /\ receiver[n].at = "progress" /\ sender'[n] = sender[n] /\ queue'[n] = queue[n]
        /\ pending'[n] = pending[n]
        /\ receiver'[n].at = IF receiver[n].type = "failed" THEN "forget" ELSE "dequeue"
        /\ receiver'[n].type = receiver[n].type /\ receiver'[n].piece = receiver[n].piece
    BY <1>8, CountProgressDoes
  <2>2. \A p : Excused(n, p) => Excused(n, p)'
    BY <2>1 DEF Excused
  <2> QED
    BY <2>1, <2>2, ItemsFewer, BoundsReceiver
<1>9. CASE Dequeue(n)
  BY <1>2, <1>9, DequeueDoes
<1>10. CASE Forget(n)
  <2>1. /\ receiver[n].at = "forget" /\ sender'[n] = sender[n] /\ queue'[n] = queue[n]
        /\ pending'[n] = Without(pending[n], receiver[n].piece)
    BY <1>10, ForgetDoes
  <2>2. receiver[n].piece \in DOMAIN pending[n]
    BY <2>1, ReceiverHas
  <2>3. receiver[n].piece \notin InSession(n)'
    <3>1. receiver[n].piece \notin DOMAIN sender[n].batch
      <4>1. DOMAIN sender[n].batch \cap DOMAIN pending[n] = {}
        BY EndsSender
      <4> QED
        BY <2>2, <4>1
    <3>2. receiver[n].piece \notin DOMAIN pending'[n]
      <4>1. DOMAIN pending'[n] = DOMAIN pending[n] \ {receiver[n].piece}
        BY <2>1 DEF Without
      <4> QED
        BY <4>1
    <3> QED
      BY <2>1, <3>1, <3>2 DEF InSession
  <2>4. \A p \in InSession(n)' : ~Excused(n, p)
    BY <2>3 DEF Excused
  <2> QED
    BY <2>1, <2>4, ItemsFewer, ForgetIs, BoundsReceiver
<1>11. CASE Judge(n)
  <2>1. CASE ReturnWith(n, <<Bare("refused")>>) /\ queue'[n] = <<>>
    <3>1. sender'[n] = NotSending /\ pending'[n] = <<>>
      BY <2>1 DEF ReturnWith, Types, SessionTypes
    <3> QED
      BY <2>1, <3>1, ItemsFewer, BoundsReturn
  <2>2. CASE Return(n) /\ But(n, ReturnFields)
    BY <1>1, <2>2, ItemsFewer DEF ReturnFields
  <2>3. CASE But(n, {"receiver"})
    <3>1. /\ receiver[n].at = "judge" /\ sender'[n] = sender[n] /\ queue'[n] = queue[n]
          /\ pending'[n] = pending[n]
      BY <1>11, <2>3, JudgeDoes
    <3> QED
      BY <1>2, <3>1
  <2> QED
    <3> HIDE DEF But
    <3> QED
      BY <1>11, <2>1, <2>2, <2>3, JudgeDoes
<1>12. CASE ClearQueue(n)
  <2>1. receiver[n].at = "clear" /\ queue'[n] = <<>>
    BY <1>12, ClearDoes
  <2>2. CASE Return(n)
    BY <1>1, <2>1, <2>2, ItemsFewer
  <2>3. CASE But(n, {"receiver", "queue"})
    BY <1>2, <2>1, <2>3
  <2> QED
    BY <1>12, <2>2, <2>3, ClearDoes
<1> QED
  BY <1>3, <1>4, <1>5, <1>6, <1>7, <1>8, <1>9, <1>10, <1>11, <1>12 DEF ReceiverStep

LEMMA NextBounds ==
    ASSUME Types, Ends, Sessions, [Next]_vars, NEW n \in Exiting, BoundsInv(n)
    PROVE  BoundsInv(n)'
<1> USE DEF But
<1>0. EndsInv(n) /\ EndTypes
  BY EndsTypes DEF Ends
<1>1. ASSUME sender'[n] = sender[n], receiver'[n] = receiver[n], pending'[n] = pending[n],
             queue'[n] = queue[n] \/ queue'[n] = <<>>
      PROVE  BoundsInv(n)'
  <2>1. \A p : Excused(n, p) => Excused(n, p)'
    BY <1>1 DEF Excused
  <2> QED
    BY <1>1, <2>1, ItemsFewer, BoundsReceiver
<1>2. CASE SenderStep(n)
  BY <1>0, <1>2, SenderBounds
<1>3. CASE ReceiverStep(n)
  BY <1>0, <1>3, ReceiverBounds
<1>4. CASE Connect(n)
  <2>1. CASE sender'[n] = sender[n] /\ receiver'[n] = receiver[n]
    BY <1>1, <1>4, <2>1, ConnectDoes
  <2>2. CASE ~(sender'[n] = sender[n] /\ receiver'[n] = receiver[n])
    <3>1. /\ pending'[n] = pending[n] /\ queue'[n] = queue[n]
          /\ sender'[n].at = "list" /\ sender'[n].batch = sender[n].batch
      BY <1>4, <2>2, ConnectDoes
    <3>2. SessionInv(n) /\ session[n] = "closed"
      BY <1>4, ConnectDoes DEF Sessions
    <3>3. sender[n] = NotSending /\ pending[n] = <<>>
      BY <3>2 DEF SessionInv
    <3>4. DOMAIN sender'[n].batch = {} /\ InSession(n)' = {}
      BY <3>1, <3>3, EmptyIs DEF InSession, NotSending
    <3> QED
      BY <3>1, <3>4, ItemsFewer, BoundsKept
  <2> QED
    BY <2>1, <2>2
<1>5. CASE FirstProgress(n) \/ SessionFails(n) \/ SessionNotices(n)
  <2>1. queue'[n] = queue[n] /\ \E ms : ReturnWith(n, ms)
    BY <1>5, FirstProgressDoes, BreakDoes DEF Return, ReturnFields
  <2>2. sender'[n] = NotSending /\ pending'[n] = <<>>
    BY <2>1 DEF ReturnWith, Types, SessionTypes
  <2> QED
    BY <2>1, <2>2, ItemsFewer, BoundsReturn
<1>6. CASE (WorkerStep(n) \/ NodeCrash(n)) /\ NodeRest
  BY <1>1, <1>6 DEF NodeRest, sessionVars, tables
<1>7. CASE AuditDisqualifies(n) \/ Start \/ Finish \/ LoopFails \/ \E s \in Segments : Collect(s)
  BY <1>1, <1>7, AuditDoes, StartDoes, FinishDoes, LoopFailsDoes, CollectDoes
<1>8. CASE Flush
  <2>1. /\ sender'[n] = sender[n] /\ receiver'[n] = receiver[n] /\ pending'[n] = pending[n]
        /\ \A p \in DOMAIN queue'[n] :
              \/ p \in DOMAIN queue[n] /\ queue'[n][p] = queue[n][p]
              \/ p \notin DOMAIN queue[n] /\ queue'[n][p] = [failed |-> 0, sent |-> 0]
    BY <1>8, FlushDoes
  <2>2. ASSUME NEW p \in Piece PROVE Bounded(n, p)'
    <3>1. Bounded(n, p)
      BY DEF BoundsInv
    <3>2. /\ Sent(n, p) => Sent(n, p)'
          /\ Excused(n, p) => Excused(n, p)'
          /\ InSession(n)' = InSession(n)
      BY <2>1 DEF Sent, Excused, InSession
    <3>3. CASE p \in DOMAIN queue'[n] => p \in DOMAIN queue[n] /\ queue'[n][p] = queue[n][p]
      BY <2>1, <3>1, <3>2, <3>3, BoundedKept
    <3>4. CASE p \in DOMAIN queue'[n] /\ queue'[n][p] = [failed |-> 0, sent |-> 0]
      <4>1. queue'[n][p].failed = 0 /\ queue'[n][p].sent = 0
        BY <3>4
      <4>2. p \in DOMAIN sender[n].batch => sender[n].batch[p].sent \in Nat
        BY InBatch DEF Items
      <4> QED
        BY <2>1, <4>1, <4>2, GracefulExitAssumption DEF Bounded
    <3> QED
      BY <2>1, <3>3, <3>4
  <2> QED
    BY <2>1, <2>2 DEF BoundsInv
<1>9. CASE But(n, {"pieces", "blobs"})
  BY <1>1, <1>9
<1> QED
  BY <1>2, <1>3, <1>4, <1>5, <1>6, <1>7, <1>8, <1>9, Steps

-----------------------------------------------------------------------------
\* The states that are reached.

Basics == Types /\ Ends /\ Sessions /\ \A n \in Exiting : BoundsInv(n)

LEMMA InitBasics == Init => Basics
<1> SUFFICES ASSUME Init PROVE Basics
  OBVIOUS
<1>1. Types
  BY InitTypes
<1>2. ASSUME NEW n \in Exiting
      PROVE  EndsInv(n) /\ SessionInv(n) /\ BoundsInv(n)
  <2>1. /\ sender[n] = NotSending /\ receiver[n] = NotReceiving /\ pending[n] = <<>>
        /\ queue[n] = <<>> /\ session[n] = "closed" /\ toSat[n] = <<>> /\ ~linked[n]
        /\ worker[n] = "idle" /\ jobs[n] = {}
    BY <1>2 DEF Init
  <2>2. sender[n].at = "idle" /\ receiver[n].at = "idle" /\ DOMAIN sender[n].batch = {}
    BY <2>1, EmptyIs DEF NotSending, NotReceiving
  <2>3. EndsInv(n)
    BY <2>2 DEF EndsInv, Holding
  <2>4. SessionInv(n)
    BY <2>1 DEF SessionInv
  <2>5. BoundsInv(n)
    BY <2>1, <2>2, EmptyIs DEF BoundsInv, Bounded
  <2> QED
    BY <2>3, <2>4, <2>5
<1> QED
  BY <1>1, <1>2 DEF Basics, Ends, Sessions

LEMMA NextBasics == Basics /\ [Next]_vars => Basics'
<1> SUFFICES ASSUME Basics, [Next]_vars PROVE Basics'
  OBVIOUS
<1>1. Types' /\ Ends'
  BY NextTypes1, NextEnds, EndsTypes DEF Basics
<1>2. Sessions'
  BY NextSession DEF Basics, Sessions
<1>3. \A n \in Exiting : BoundsInv(n)'
  BY NextBounds DEF Basics
<1> QED
  BY <1>1, <1>2, <1>3 DEF Basics

\* What holds of types, of the two ends of a session, of the stream between
\* them, and of the counters of a queued piece (Process with its sender and
\* receiver, and Worker.Run), of every node at once.
THEOREM BasicsHold == Spec => []Basics
<1>1. Init => Basics
  BY InitBasics
<1>2. Basics /\ [Next]_vars => Basics'
  BY NextBasics
<1> QED
  BY <1>1, <1>2, PTL DEF Spec

LEMMA BasicsType == Basics => TypeOK
<1> SUFFICES ASSUME Basics PROVE TypeOK
  OBVIOUS
<1>1. Types
  BY DEF Basics
<1>2. ASSUME NEW n \in Exiting
      PROVE  /\ DOMAIN queue[n] \subseteq Piece
             /\ \A p \in DOMAIN queue[n] :
                   /\ queue[n][p].failed \in 0 .. MaxFailures
                   /\ queue[n][p].sent \in 0 .. MaxSends
             /\ DOMAIN pending[n] \subseteq Piece
             /\ session[n] = "closed" => /\ sender[n] = NotSending
                                         /\ receiver[n] = NotReceiving
                                         /\ pending[n] = <<>>
  <2>1. queue[n] \in Queues
    BY <1>1 DEF Types, TableTypes
  <2>2. DOMAIN queue[n] \subseteq Piece /\ \A p \in DOMAIN queue[n] : queue[n][p] \in Items
    BY <2>1, QueueIs
  <2>3. \A p \in DOMAIN queue[n] : queue[n][p].failed <= MaxFailures /\ queue[n][p].sent <= MaxSends
    BY <2>2 DEF Basics, BoundsInv, Bounded
  <2>4. \A p \in DOMAIN queue[n] : queue[n][p].failed \in 0 .. MaxFailures /\ queue[n][p].sent \in 0 .. MaxSends
    BY <2>2, <2>3, GracefulExitAssumption DEF Items
  <2>5. SessionInv(n)
    BY DEF Basics, Sessions
  <2>6. DOMAIN pending[n] \subseteq Piece
    BY <1>1, InHand
  <2> QED
    BY <2>2, <2>4, <2>5, <2>6 DEF SessionInv
<1> QED
  BY <1>1, <1>2 DEF TypeOK, Types, TableTypes, NodeTypes, Exits, Segment

\* The types: a piece that is queued has never failed more often, or been sent
\* more often, than the configuration allows, and a closed session leaves
\* nothing behind in the pending map or at its two ends (Process).
THEOREM TypeCorrect == Spec => []TypeOK
BY BasicsHold, BasicsType, PTL

-----------------------------------------------------------------------------
\* Where pieces are.

Cleared(s) == [pieces EXCEPT ![s] = [k \in Numbers |-> None]]

\* An update that the receiver of n makes after an upload.
Handed(n) ==
    /\ receiver[n].at = "update" /\ receiver[n].type = "succeeded"
    /\ pieces[receiver[n].piece[1]] = receiver[n].seen
    /\ pieces' = Moved(receiver[n].piece, pending[n][receiver[n].piece])

Repaired(q, x) ==
    /\ x \notin Holders(q[1]) /\ pieces[q[1]][q[2]] # None
    /\ pieces' = Moved(q, x)
    /\ blobs' = [blobs EXCEPT ![pieces[q[1]][q[2]]] = @ \ {q}, ![x] = @ \union {q}]

Custody ==
    \/ UNCHANGED <<pieces, blobs>>
    \/ /\ pieces' = pieces
       /\ \/ \E x \in Others, p \in Piece : blobs' = [blobs EXCEPT ![x] = @ \union {p}]
          \/ \E n \in Exiting : \E m \in jobs[n] :
                m.type = "delete" /\ blobs' = [blobs EXCEPT ![n] = @ \ {m.piece}]
          \/ \E n \in Exiting : worker[n] = "wiping" /\ blobs' = [blobs EXCEPT ![n] = {}]
    \/ /\ blobs' = blobs
       /\ \/ \E q \in Piece : pieces' = Moved(q, None)
          \/ \E n \in Exiting : Handed(n)
          \/ \E s \in Segments : pieces' = Cleared(s)
    \/ \E q \in Piece, x \in Others : Repaired(q, x)

LEMMA SenderCustody ==
    ASSUME Types, EndTypes, NEW n \in Exiting, SenderStep(n)
    PROVE  Custody
<1> USE DEF OfNode, tables
<1>1. blobs' = blobs
  BY DEF SenderStep, List, Discard, Trim, CountSend, Put, GiveUp, InvalidSegment, PieceGone,
         ReadSurplus, SendTransfer
<1>2. pieces' = pieces \/ Trim(n)
  BY DEF SenderStep, List, Discard, CountSend, Put, GiveUp, InvalidSegment, PieceGone,
         ReadSurplus, SendTransfer
<1>3. CASE Trim(n)
  <2>1. pieces' = pieces \/ pieces' = Moved(sender[n].piece, None)
    <3>1. CASE Unchanged(sender[n].piece, sender[n].seen)
      BY <1>3, <3>1 DEF Trim
    <3>2. CASE ~Unchanged(sender[n].piece, sender[n].seen)
      BY <1>3, <3>2 DEF Trim
    <3> QED
      BY <3>1, <3>2
  <2>2. sender[n].at = "trim"
    BY <1>3 DEF Trim, At
  <2>3. sender[n].piece \in Piece
    BY <2>2, InBatch DEF EndTypes, Holding
  <2> QED
    BY <1>1, <2>1, <2>3 DEF Custody
<1> QED
  BY <1>1, <1>2, <1>3 DEF Custody

LEMMA ReceiverCustody ==
    ASSUME Types, EndTypes, NEW n \in Exiting, EndsInv(n), ReceiverStep(n)
    PROVE  Custody
<1> USE DEF OfNode, tables
<1>1. blobs' = blobs
  BY DEF ReceiverStep, Wait, Recv, RecvTimeout, ReadSucceeded, ReadNotFound, ReadFailed,
         UpdateSegment, CountProgress, Dequeue, Forget, Judge, Condemn, DisqualifyNode,
         RecordOutcome, Announce, ClearQueue
<1>2. pieces' = pieces \/ UpdateSegment(n)
  BY DEF ReceiverStep, Wait, Recv, RecvTimeout, ReadSucceeded, ReadNotFound, ReadFailed,
         CountProgress, Dequeue, Forget, Judge, Condemn, DisqualifyNode,
         RecordOutcome, Announce, ClearQueue
<1>3. CASE UpdateSegment(n)
  <2>1. CASE Return(n) /\ But(n, ReturnFields)
    BY <1>1, <2>1 DEF Custody, But, ReturnFields
  <2>2. CASE ~(Return(n) /\ But(n, ReturnFields))
    <3>1. /\ receiver[n].at = "update"
          /\ pieces[receiver[n].piece[1]] = receiver[n].seen
          /\ pieces' = Moved(receiver[n].piece,
                  IF receiver[n].type = "succeeded" THEN pending[n][receiver[n].piece]
                  ELSE None)
      BY <1>3, <2>2, UpdateDoes
    <3>2. receiver[n].piece \in Piece
      BY <3>1, ReceiverHas, InHand
    <3>3. CASE receiver[n].type = "succeeded"
      BY <1>1, <3>1, <3>3 DEF Custody, Handed
    <3>4. CASE receiver[n].type # "succeeded"
      BY <1>1, <3>1, <3>2, <3>4 DEF Custody
    <3> QED
      BY <3>3, <3>4
  <2> QED
    BY <2>1, <2>2
<1> QED
  BY <1>1, <1>2, <1>3 DEF Custody

LEMMA WorkerCustody ==
    ASSUME Types, NEW n \in Exiting, WorkerStep(n), NodeRest
    PROVE  Custody
<1>1. pieces' = pieces
  BY DEF NodeRest, tables
<1>2. CASE NextMessage(n) \/ StreamOver(n) \/ Left(n)
  BY <1>1, <1>2 DEF Custody, NextMessage, StreamOver, Left
<1>3. CASE DeleteSatelliteData(n)
  BY <1>1, <1>3 DEF Custody, DeleteSatelliteData
<1>4. ASSUME NEW m \in jobs[n], Transfer(n, m) \/ TransferFails(n, m)
      PROVE  Custody
  <2>1. blobs' = blobs \/ blobs' = [blobs EXCEPT ![m.to] = @ \union {m.piece}]
    BY <1>4 DEF Transfer, TransferFails
  <2>2. m.to \in Others /\ m.piece \in Piece
    BY <1>4, JobIs DEF Transfer, TransferFails
  <2> QED
    BY <1>1, <2>1, <2>2 DEF Custody
<1>5. ASSUME NEW m \in jobs[n], DeletePiece(n, m)
      PROVE  Custody
  BY <1>1, <1>5 DEF Custody, DeletePiece
<1> QED
  BY <1>2, <1>3, <1>4, <1>5 DEF WorkerStep, JobStep

LEMMA NextCustody ==
    ASSUME Basics, [Next]_vars
    PROVE  Custody
<1>0. Types /\ EndTypes /\ \A n \in Exiting : EndsInv(n)
  BY EndsTypes DEF Basics, Ends
<1> USE DEF OfNode, tables, workerVars
<1>1. ASSUME NEW n \in Exiting, SenderStep(n) PROVE Custody
  BY <1>0, <1>1, SenderCustody
<1>2. ASSUME NEW n \in Exiting, ReceiverStep(n) PROVE Custody
  BY <1>0, <1>2, ReceiverCustody
<1>3. ASSUME NEW n \in Exiting, NodeStep(n) PROVE Custody
  BY <1>0, <1>3, WorkerCustody DEF NodeStep, NodeRest
<1>4. ASSUME NEW n \in Exiting,
             Connect(n) \/ FirstProgress(n) \/ SessionFails(n) \/ SessionNotices(n)
             \/ (NodeCrash(n) /\ UNCHANGED <<tables, sessionVars, OfLoop, exhausted>>)
             \/ Lapse(n) \/ AuditDisqualifies(n)
      PROVE  Custody
  BY <1>4 DEF Custody, Connect, FirstProgress, SessionFails, SessionNotices, NodeCrash, Lapse, AuditDisqualifies
<1>5. CASE Start \/ Flush \/ Finish \/ LoopFails \/ \E s \in Segments : Collect(s)
  BY <1>5 DEF Custody, Start, Flush, Finish, LoopFails, Collect
<1>6. ASSUME NEW s \in Segments, DeleteSegment(s) PROVE Custody
  BY <1>6 DEF Custody, DeleteSegment, Cleared
<1>7. ASSUME NEW p \in Piece, NEW x \in Nodes, Repair(p, x) PROVE Custody
  <2>1. x \in Others /\ Repaired(p, x)
    BY <1>7 DEF Repair, Repaired, Replacements, Others
  <2> QED
    BY <2>1 DEF Custody
<1>8. CASE UNCHANGED vars
  BY <1>8 DEF vars, Custody
<1> QED
  BY <1>1, <1>2, <1>3, <1>4, <1>5, <1>6, <1>7, <1>8 DEF Next

LEMMA MovedHolds ==
    ASSUME Types, NEW q \in Piece, NEW x, pieces' = Moved(q, x), NEW p \in Piece
    PROVE  pieces'[p[1]][p[2]] = IF p = q THEN x ELSE pieces[p[1]][p[2]]
<1>1. /\ pieces \in [Segments -> Segment] /\ p[1] \in Segments /\ q[1] \in Segments
      /\ p[2] \in Numbers /\ q[2] \in Numbers /\ pieces[q[1]] \in [Numbers -> Nodes \union {None}]
  BY DEF Types, TableTypes, Piece, Segment
<1>2. p = q <=> p[1] = q[1] /\ p[2] = q[2]
  BY DEF Piece
<1>3. pieces'[q[1]] = [pieces[q[1]] EXCEPT ![q[2]] = x]
  BY <1>1 DEF Moved
<1>4. p[1] # q[1] => pieces'[p[1]] = pieces[p[1]]
  BY <1>1 DEF Moved
<1> QED
  BY <1>1, <1>2, <1>3, <1>4

LEMMA ClearedHolds ==
    ASSUME Types, NEW s \in Segments, pieces' = Cleared(s), NEW p \in Piece
    PROVE  pieces'[p[1]][p[2]] = IF p[1] = s THEN None ELSE pieces[p[1]][p[2]]
<1>1. /\ pieces \in [Segments -> Segment] /\ p[1] \in Segments /\ p[2] \in Numbers
  BY DEF Types, TableTypes, Piece
<1> QED
  BY <1>1 DEF Cleared

LEMMA HandedIs ==
    ASSUME Types, NEW n \in Exiting, EndsInv(n), Handed(n)
    PROVE  /\ receiver[n].piece \in DOMAIN pending[n] /\ receiver[n].piece \in Piece
           /\ pending[n][receiver[n].piece] \in Others
           /\ pending[n][receiver[n].piece] \notin Holders(receiver[n].piece[1])
<1>1. receiver[n].piece \in DOMAIN pending[n]
  BY ReceiverHas DEF Handed
<1>2. pending[n][receiver[n].piece] \notin Held(receiver[n].seen)
  BY DEF EndsInv, Handed, Held, Others
<1> QED
  BY <1>1, <1>2, InHand DEF Handed, Holders

\* A piece that an exiting node still holds was there before, and is kept where
\* it was uploaded.
LEMMA Onward ==
    ASSUME Basics, [Next]_vars, NEW n \in Exiting, NEW p \in Piece, HoldsPiece(n, p)'
    PROVE  /\ HoldsPiece(n, p)
           /\ \A x \in Others : p \in blobs[x] => p \in blobs'[x]
           /\ p \in blobs[n] => \/ p \in blobs'[n] \/ worker[n] = "wiping"
                                \/ \E m \in jobs[n] : m.type = "delete" /\ m.piece = p
<1>0. Types /\ Custody /\ \A m \in Exiting : EndsInv(m)
  BY NextCustody DEF Basics, Ends
<1>1. /\ blobs \in [Nodes -> SUBSET Piece] /\ n \in Nodes /\ Others \subseteq Nodes
      /\ n \notin Others /\ n # None /\ None \notin Nodes
  BY <1>0, ExitWorkerAssumption, GracefulExitAssumption DEF Types, NodeTypes, Others
<1>2. ASSUME NEW q \in Piece, NEW x \in Others \union {None}, pieces' = Moved(q, x)
      PROVE  p # q /\ HoldsPiece(n, p)
  BY <1>0, <1>1, <1>2, MovedHolds DEF HoldsPiece
<1>3. HoldsPiece(n, p)
  <2>1. CASE pieces' = pieces
    BY <2>1 DEF HoldsPiece
  <2>2. CASE \E q \in Piece : pieces' = Moved(q, None)
    BY <1>2, <2>2
  <2>3. ASSUME NEW m \in Exiting, Handed(m) PROVE HoldsPiece(n, p)
    BY <1>0, <1>2, <2>3, HandedIs DEF Handed
  <2>4. ASSUME NEW s \in Segments, pieces' = Cleared(s) PROVE HoldsPiece(n, p)
    BY <1>0, <1>1, <2>4, ClearedHolds DEF HoldsPiece
  <2>5. ASSUME NEW q \in Piece, NEW x \in Others, Repaired(q, x) PROVE HoldsPiece(n, p)
    BY <1>2, <2>5 DEF Repaired
  <2> QED
    BY <1>0, <2>1, <2>2, <2>3, <2>4, <2>5 DEF Custody
<1>4. ASSUME NEW x \in Nodes, p \in blobs[x], p \notin blobs'[x]
      PROVE  /\ x \in Exiting
             /\ worker[x] = "wiping" \/ \E m \in jobs[x] : m.type = "delete" /\ m.piece = p
  <2>1. CASE blobs' = blobs
    BY <1>4, <2>1
  <2>2. ASSUME NEW y \in Others, NEW q \in Piece, blobs' = [blobs EXCEPT ![y] = @ \union {q}]
        PROVE  FALSE
    BY <1>1, <1>4, <2>2
  <2>3. ASSUME NEW m \in Exiting, NEW j \in jobs[m], j.type = "delete",
               blobs' = [blobs EXCEPT ![m] = @ \ {j.piece}]
        PROVE  x = m /\ j.piece = p
    BY <1>1, <1>4, <2>3, ExitWorkerAssumption
  <2>4. ASSUME NEW m \in Exiting, worker[m] = "wiping", blobs' = [blobs EXCEPT ![m] = {}]
        PROVE  x = m
    BY <1>1, <1>4, <2>4
  <2>5. ASSUME NEW q \in Piece, NEW y \in Others, Repaired(q, y)
        PROVE  FALSE
    <3>1. p # q
      BY <1>2, <2>5 DEF Repaired
    <3>2. pieces[q[1]][q[2]] \in Nodes
      BY <1>0, <2>5 DEF Repaired, Types, TableTypes, Segment, Piece
    <3> QED
      BY <1>1, <1>4, <2>5, <3>1, <3>2 DEF Repaired
  <2> QED
    BY <1>0, <1>4, <2>1, <2>2, <2>3, <2>4, <2>5 DEF Custody
<1> QED
  BY <1>1, <1>3, <1>4 DEF Others

-----------------------------------------------------------------------------
\* Messages.

Messaged(n) == {toNode[n][i] : i \in DOMAIN toNode[n]}

LEMMA MessagedIs ==
    ASSUME Types, NEW n \in Exiting
    PROVE  /\ Messaged(n) \subseteq Messages
           /\ \A m \in Messages : toNode'[n] = Append(toNode[n], m) =>
                                     Messaged(n)' = Messaged(n) \union {m}
           /\ \A m \in Messages : toNode'[n] = toNode[n] \o <<m>> =>
                                     Messaged(n)' = Messaged(n) \union {m}
           /\ \A m : toNode'[n] = <<m>> => Messaged(n)' = {m}
           /\ toNode'[n] = <<>> => Messaged(n)' = {}
           /\ toNode'[n] = toNode[n] => Messaged(n)' = Messaged(n)
           /\ toNode[n] # <<>> => Head(toNode[n]) \in Messaged(n)
           /\ toNode[n] # <<>> /\ toNode'[n] = Tail(toNode[n]) => Messaged(n)' \subseteq Messaged(n)
<1>1. toNode[n] \in Seq(Messages)
  BY DEF Types, StreamTypes
<1>2. Messaged(n) \subseteq Messages
  BY <1>1 DEF Messaged
<1>3. ASSUME NEW m \in Messages, toNode'[n] = Append(toNode[n], m)
      PROVE  Messaged(n)' = Messaged(n) \union {m}
  <2>1. /\ DOMAIN toNode'[n] = 1 .. (Len(toNode[n]) + 1) /\ DOMAIN toNode[n] = 1 .. Len(toNode[n])
        /\ Len(toNode[n]) \in Nat
        /\ \A i \in 1 .. Len(toNode[n]) : toNode'[n][i] = toNode[n][i]
        /\ toNode'[n][Len(toNode[n]) + 1] = m
    BY <1>1, <1>3
  <2>2. \A i \in DOMAIN toNode'[n] : i \in DOMAIN toNode[n] \/ i = Len(toNode[n]) + 1
    BY <2>1
  <2>3. DOMAIN toNode[n] \subseteq DOMAIN toNode'[n] /\ Len(toNode[n]) + 1 \in DOMAIN toNode'[n]
    BY <2>1
  <2>4. Messaged(n)' \subseteq Messaged(n) \union {m}
    BY <2>1, <2>2 DEF Messaged
  <2>5. Messaged(n) \union {m} \subseteq Messaged(n)'
    BY <2>1, <2>3 DEF Messaged
  <2> QED
    BY <2>4, <2>5
<1>4. ASSUME NEW m \in Messages, toNode'[n] = toNode[n] \o <<m>>
      PROVE  Messaged(n)' = Messaged(n) \union {m}
  <2>1. toNode[n] \o <<m>> = Append(toNode[n], m)
    BY <1>1
  <2> QED
    BY <1>3, <1>4, <2>1
<1>5. ASSUME NEW m, toNode'[n] = <<m>> PROVE Messaged(n)' = {m}
  BY <1>5 DEF Messaged
<1>6. toNode'[n] = <<>> => Messaged(n)' = {}
  BY DEF Messaged
<1>7. toNode'[n] = toNode[n] => Messaged(n)' = Messaged(n)
  BY DEF Messaged
<1>8. ASSUME toNode[n] # <<>> PROVE Head(toNode[n]) \in Messaged(n)
  BY <1>1, <1>8, HeadIs DEF Messaged
<1>9. ASSUME toNode[n] # <<>>, toNode'[n] = Tail(toNode[n])
      PROVE  Messaged(n)' \subseteq Messaged(n)
  <2>1. \A i \in DOMAIN toNode'[n] : i + 1 \in DOMAIN toNode[n] /\ toNode'[n][i] = toNode[n][i + 1]
    BY <1>1, <1>9, HeadIs
  <2> QED
    BY <2>1 DEF Messaged
<1> QED
  BY <1>2, <1>3, <1>4, <1>5, <1>6, <1>7, <1>8, <1>9

\* Messages that a session appends when it returns, or goes on.
LEMMA MessagedReturn ==
    ASSUME Types, NEW n \in Exiting, NEW m \in Messages
    PROVE  /\ Return(n) => Messaged(n)' = Messaged(n)
           /\ ReturnWith(n, <<m>>) => Messaged(n)' \subseteq Messaged(n) \union {m}
<1>1. Return(n) => Messaged(n)' = Messaged(n)
  BY ReturnedEmpty, MessagedIs
<1>2. ASSUME ReturnWith(n, <<m>>)
      PROVE  Messaged(n)' \subseteq Messaged(n) \union {m}
  <2>1. <<m>> \in Seq(Messages)
    OBVIOUS
  <2>2. toNode'[n] = IF linked[n] THEN toNode[n] \o <<m>> ELSE toNode[n]
    BY <1>2, <2>1, ReturnDoes
  <2> QED
    BY <2>2, MessagedIs
<1> QED
  BY <1>1, <1>2

\* What is on its way to a node, or handled there.
Given(n) == Messaged(n) \union jobs[n]

Deletion(n) ==
    /\ receiver[n].at = "forget" /\ receiver[n].type = "succeeded"
    /\ receiver[n].piece \in Piece

\* Where a message of a step comes from.
NewMessage(n, m) ==
    \/ m \in Transfers
    \/ m \in Notices
    \/ Deletion(n) /\ m = Message("delete", receiver[n].piece, None)

LEMMA MessageKinds ==
    /\ \A p \in Piece, x \in Others : Message("transfer", p, x) \in Transfers
    /\ \A p \in Piece : Message("delete", p, None) \in Deletions
    /\ \A t \in {"not ready", "refused", "failed", "completed"} : Bare(t) \in Notices
    /\ \A success : Finished(success) \in Notices
BY DEF Message, Bare, Finished, Transfers, Deletions, Notices

LEMMA SenderGiven ==
    ASSUME Types, NEW n \in Exiting, SenderStep(n), NEW m \in Given(n)'
    PROVE  m \in Given(n) \/ m \in Transfers
<1>1. jobs'[n] = jobs[n]
  BY SenderEffect
<1>2. Return(n) \/ toNode'[n] = toNode[n] \/ \E p \in DOMAIN sender[n].batch : SendTransfer(n, p)
  BY DEF SenderStep, List, Discard, Trim, CountSend, Put, GiveUp, InvalidSegment, PieceGone,
         ReadSurplus, streamVars
<1>3. ASSUME NEW p \in DOMAIN sender[n].batch, SendTransfer(n, p), ~Return(n)
      PROVE  Messaged(n)' = Messaged(n) \/ \E k \in Transfers : Messaged(n)' = Messaged(n) \union {k}
  <2>1. PICK x \in Others : toNode'[n] = IF linked[n] THEN Append(toNode[n], Message("transfer", p, x))
                                         ELSE toNode[n]
    BY <1>3, SendTransferDoes
  <2>2. Message("transfer", p, x) \in Transfers /\ Message("transfer", p, x) \in Messages
    BY InBatch, MessageKinds DEF Messages
  <2> QED
    BY <2>1, <2>2, MessagedIs
<1>4. Messaged(n)' = Messaged(n) \/ \E k \in Transfers : Messaged(n)' = Messaged(n) \union {k}
  BY <1>2, <1>3, ReturnedEmpty, MessagedIs
<1> QED
  BY <1>1, <1>4 DEF Given

LEMMA ReceiverGiven ==
    ASSUME Types, NEW n \in Exiting, EndsInv(n), EndTypes, ReceiverStep(n), NEW m \in Given(n)'
    PROVE  \/ m \in Given(n) \/ m = Bare("refused")
           \/ Announce(n) /\ m = Finished(Verdict(n))
           \/ Deletion(n) /\ m = Message("delete", receiver[n].piece, None)
<1>1. jobs'[n] = jobs[n]
  BY ReceiverEffect
<1>2. Return(n) \/ toNode'[n] = toNode[n] \/ Judge(n) \/ Forget(n) \/ Announce(n)
  BY DEF ReceiverStep, Wait, Recv, RecvTimeout, ReadSucceeded, ReadNotFound, ReadFailed,
         UpdateSegment, CountProgress, Dequeue, Condemn, DisqualifyNode,
         RecordOutcome, ClearQueue, streamVars
<1>3. ASSUME NEW k, Messaged(n)' \subseteq Messaged(n) \union {k}
      PROVE  m \in Given(n) \/ m = k
  BY <1>1, <1>3 DEF Given
<1>4. CASE toNode'[n] = toNode[n] \/ Return(n)
  BY <1>1, <1>4, ReturnedEmpty, MessagedIs DEF Given
<1>5. CASE Judge(n)
  <2>1. Bare("refused") \in Notices /\ Bare("refused") \in Messages
    BY MessageKinds DEF Messages
  <2>2. CASE ReturnWith(n, <<Bare("refused")>>)
    BY <1>3, <2>1, <2>2, MessagedReturn
  <2>3. CASE But(n, {"receiver"})
    BY <1>4, <2>3 DEF But
  <2> QED
    BY <1>4, <1>5, <2>2, <2>3, JudgeDoes
<1>6. CASE Announce(n)
  <2>1. Finished(Verdict(n)) \in Notices /\ Finished(Verdict(n)) \in Messages
    BY MessageKinds DEF Messages
  <2> QED
    BY <1>3, <1>6, <2>1, AnnounceDoes, MessagedIs
<1>7. CASE Forget(n)
  <2>1. /\ receiver[n].at = "forget"
        /\ toNode'[n] = IF receiver[n].type = "succeeded" /\ linked[n]
                        THEN Append(toNode[n], Message("delete", receiver[n].piece, None))
                        ELSE toNode[n]
    BY <1>7, ForgetDoes
  <2>2. receiver[n].piece \in Piece
    BY <2>1, ReceiverHas, InHand
  <2>3. Message("delete", receiver[n].piece, None) \in Messages
    BY <2>2, MessageKinds DEF Messages
  <2>4. CASE receiver[n].type = "succeeded" /\ linked[n]
    <3>1. Messaged(n)' = Messaged(n) \union {Message("delete", receiver[n].piece, None)}
      BY <2>1, <2>3, <2>4, MessagedIs
    <3> QED
      BY <1>1, <2>1, <2>2, <2>4, <3>1 DEF Given, Deletion
  <2> QED
    BY <1>4, <2>1, <2>4
<1> QED
  BY <1>2, <1>4, <1>5, <1>6, <1>7

LEMMA WorkerGiven ==
    ASSUME Types, NEW n \in Exiting, WorkerStep(n) \/ NodeCrash(n), NodeRest
    PROVE  Given(n)' \subseteq Given(n)
<1>1. CASE NextMessage(n)
  <2>1. toNode[n] # <<>> /\ toNode'[n] = Tail(toNode[n])
    BY <1>1, NextMessageDoes
  <2>2. jobs'[n] = jobs[n] \/ jobs'[n] = jobs[n] \union {Head(toNode[n])}
    BY <1>1, NextMessageDoes DEF But
  <2> QED
    BY <2>1, <2>2, MessagedIs DEF Given
<1>2. CASE StreamOver(n) \/ Left(n) \/ DeleteSatelliteData(n)
  <2>1. toNode'[n] = toNode[n] /\ jobs'[n] = jobs[n]
    BY <1>2 DEF StreamOver, Left, DeleteSatelliteData
  <2> QED
    BY <2>1, MessagedIs DEF Given
<1>3. ASSUME NEW m \in jobs[n], Transfer(n, m) \/ TransferFails(n, m) \/ DeletePiece(n, m)
      PROVE  Given(n)' \subseteq Given(n)
  <2>1. toNode'[n] = toNode[n] /\ jobs'[n] \subseteq jobs[n]
    BY <1>3, TransferDoes, DeletePieceDoes DEF But
  <2> QED
    BY <2>1, MessagedIs DEF Given
<1>4. CASE NodeCrash(n)
  BY <1>4, CrashDoes, MessagedIs DEF Given
<1> QED
  BY <1>1, <1>2, <1>3, <1>4 DEF WorkerStep, JobStep

LEMMA NextGiven ==
    ASSUME Basics, [Next]_vars, NEW n \in Exiting, NEW m \in Given(n)'
    PROVE  m \in Given(n) \/ NewMessage(n, m)
<1> USE DEF But
<1>0. Types /\ EndTypes /\ EndsInv(n)
  BY EndsTypes DEF Basics, Ends
<1>1. ASSUME toNode'[n] = toNode[n], jobs'[n] = jobs[n]
      PROVE  m \in Given(n)
  BY <1>0, <1>1, MessagedIs DEF Given
<1>2. CASE SenderStep(n)
  BY <1>0, <1>2, SenderGiven DEF NewMessage
<1>3. CASE ReceiverStep(n)
  BY <1>0, <1>3, ReceiverGiven, MessageKinds DEF NewMessage
<1>4. CASE (WorkerStep(n) \/ NodeCrash(n)) /\ NodeRest
  BY <1>0, <1>4, WorkerGiven
<1>5. CASE Connect(n)
  <2>1. jobs'[n] = jobs[n] /\ (toNode'[n] = <<>> \/ \E k \in Notices : toNode'[n] = <<k>>)
    BY <1>0, <1>5, ConnectDoes, MessageKinds
  <2> QED
    BY <1>0, <2>1, MessagedIs DEF Given, NewMessage
<1>6. CASE FirstProgress(n)
  <2>1. Bare("not ready") \in Notices /\ Bare("not ready") \in Messages
    BY MessageKinds DEF Messages
  <2>2. ReturnWith(n, <<Bare("not ready")>>) /\ jobs'[n] = jobs[n]
    BY <1>0, <1>6, FirstProgressDoes DEF ReturnFields
  <2> QED
    BY <1>0, <2>1, <2>2, MessagedReturn DEF Given, NewMessage
<1>7. CASE SessionFails(n) \/ SessionNotices(n)
  <2>1. Return(n) /\ jobs'[n] = jobs[n]
    BY <1>0, <1>7, BreakDoes DEF ReturnFields
  <2> QED
    BY <1>0, <1>1, <2>1, ReturnedEmpty
<1>8. CASE \/ AuditDisqualifies(n) \/ Start \/ Flush \/ Finish \/ LoopFails
           \/ \E s \in Segments : Collect(s)
  BY <1>0, <1>1, <1>8, AuditDoes, StartDoes, FlushDoes, FinishDoes, LoopFailsDoes, CollectDoes
<1>9. CASE But(n, {"pieces", "blobs"})
  BY <1>1, <1>9
<1> QED
  BY <1>0, <1>2, <1>3, <1>4, <1>5, <1>6, <1>7, <1>8, <1>9, Steps

-----------------------------------------------------------------------------
\* A piece is kept until it has been moved.

Leaving == {"progress", "dequeue", "forget"}

LeftInv(n) ==
    /\ receiver[n].at \in Leaving /\ receiver[n].type # "failed"
          => /\ receiver[n].type \in {"succeeded", "not found"}
             /\ ~HoldsPiece(n, receiver[n].piece)
    /\ \A m \in Given(n) : m.type = "delete" => ~HoldsPiece(n, m.piece)
    /\ \A p \in Piece \ Lost : HoldsPiece(n, p) => p \in blobs[n] \/ record[n] = "completed"
    /\ worker[n] = "running" => record[n] = "exiting"
    /\ worker[n] = "wiping" => record[n] = "completed"

\* Only the receiver itself gets to an answer.
LEMMA ReceiverOnly ==
    ASSUME Types, [Next]_vars, NEW n \in Exiting, ~ReceiverStep(n)
    PROVE  receiver'[n] = receiver[n] \/ receiver'[n].at \in {"idle", "wait"}
<1> USE DEF But
<1>1. ASSUME NEW ms, ReturnWith(n, ms) PROVE receiver'[n].at = "idle"
  BY <1>1 DEF ReturnWith, NotReceiving, Types, SessionTypes
<1>2. CASE SenderStep(n)
  BY <1>1, <1>2, SenderMoves DEF Return
<1>3. CASE Connect(n)
  BY <1>3, ConnectDoes
<1>4. CASE FirstProgress(n) \/ SessionFails(n) \/ SessionNotices(n)
  BY <1>1, <1>4, FirstProgressDoes, BreakDoes DEF Return
<1>5. CASE (WorkerStep(n) \/ NodeCrash(n)) /\ NodeRest
  BY <1>5 DEF NodeRest, sessionVars
<1>6. CASE \/ AuditDisqualifies(n) \/ Start \/ Flush \/ Finish \/ LoopFails
           \/ \E s \in Segments : Collect(s)
  BY <1>6, AuditDoes, StartDoes, FlushDoes, FinishDoes, LoopFailsDoes, CollectDoes
<1>7. CASE But(n, {"pieces", "blobs"})
  BY <1>7
<1> QED
  BY <1>2, <1>3, <1>4, <1>5, <1>6, <1>7, Steps

\* How the receiver gets past the update of a segment.
LEMMA NotOthers ==
    ASSUME NEW n \in Exiting
    PROVE  n # None /\ n \notin Others
BY ExitWorkerAssumption, GracefulExitAssumption DEF Others

LEMMA Leaves ==
    ASSUME Types, NEW n \in Exiting, EndsInv(n), EndTypes, ReceiverStep(n),
           receiver'[n].at \in Leaving, receiver'[n].type # "failed"
    PROVE  \/ /\ receiver[n].at \in Leaving /\ receiver[n].type = receiver'[n].type
              /\ receiver[n].piece = receiver'[n].piece
           \/ /\ receiver'[n].type \in {"succeeded", "not found"}
              /\ ~HoldsPiece(n, receiver[n].piece)'
<1> USE DEF But
<1>1. ASSUME Return(n) PROVE FALSE
  <2>0. receiver'[n] = NotReceiving
    BY <1>1, ReturnedEmpty
  <2>1. receiver'[n].at = "idle"
    BY <2>0 DEF NotReceiving
  <2> QED
    BY <2>1 DEF Leaving
<1>2. CASE Wait(n) \/ Condemn(n) \/ DisqualifyNode(n) \/ RecordOutcome(n) \/ Announce(n)
  BY <1>2, WaitDoes, CondemnDoes, DisqualifyDoes, RecordDoes, AnnounceDoes DEF Leaving
<1>3. CASE Recv(n) \/ RecvTimeout(n)
  BY <1>1, <1>3, RecvDoes, RecvTimeoutDoes DEF Leaving
<1>4. CASE ReadSucceeded(n)
  BY <1>1, <1>4, ReadSucceededDoes DEF Leaving
<1>5. CASE ReadNotFound(n)
  <2>1. /\ receiver[n].type = "not found" /\ receiver'[n].type = receiver[n].type
        /\ receiver'[n].piece = receiver[n].piece
        /\ ~HoldsPiece(n, receiver[n].piece) /\ pieces' = pieces
    BY <1>1, <1>5, ReadNotFoundDoes DEF Leaving
  <2> QED
    BY <2>1 DEF HoldsPiece
<1>6. CASE ReadFailed(n)
  BY <1>1, <1>6, ReadFailedDoes DEF Leaving
<1>7. CASE UpdateSegment(n)
  <2>1. /\ receiver[n].at = "update"
        /\ receiver'[n].type = receiver[n].type /\ receiver'[n].piece = receiver[n].piece
        /\ pieces' = Moved(receiver[n].piece,
              IF receiver[n].type = "succeeded" THEN pending[n][receiver[n].piece]
              ELSE None)
    BY <1>1, <1>7, UpdateDoes
  <2>2. /\ receiver[n].type \in {"succeeded", "not found"}
        /\ receiver[n].piece \in Piece /\ pending[n][receiver[n].piece] \in Others
    BY <2>1, ReceiverHas, InHand DEF EndsInv, Others, Held
  <2>3. n # None /\ n \notin Others
    BY NotOthers
  <2>5. n # IF receiver[n].type = "succeeded" THEN pending[n][receiver[n].piece] ELSE None
    BY <2>2, <2>3
  <2>6. pieces'[receiver[n].piece[1]][receiver[n].piece[2]] =
           IF receiver[n].type = "succeeded" THEN pending[n][receiver[n].piece] ELSE None
    BY <2>1, <2>2, MovedHolds
  <2>4. pieces'[receiver[n].piece[1]][receiver[n].piece[2]] # n
    BY <2>5, <2>6
  <2> QED
    BY <2>1, <2>2, <2>4 DEF HoldsPiece
<1>8. CASE CountProgress(n) \/ Dequeue(n)
  BY <1>8, CountProgressDoes, DequeueDoes DEF Leaving
<1>9. CASE Forget(n)
  BY <1>9, ForgetDoes DEF Leaving
<1>10. CASE Judge(n)
  <2>1. CASE ReturnWith(n, <<Bare("refused")>>)
    BY <2>1 DEF ReturnWith, NotReceiving, Types, SessionTypes, Leaving
  <2>2. CASE ~ReturnWith(n, <<Bare("refused")>>)
    BY <1>1, <1>10, <2>2, JudgeDoes DEF Leaving
  <2> QED
    BY <2>1, <2>2
<1>11. CASE ClearQueue(n)
  BY <1>1, <1>11, ClearDoes DEF Leaving
<1> QED
  BY <1>2, <1>3, <1>4, <1>5, <1>6, <1>7, <1>8, <1>9, <1>10, <1>11 DEF ReceiverStep

\* What becomes of a node and of its record.
LEMMA NextWorker ==
    ASSUME Types, [Next]_vars, NEW n \in Exiting
    PROVE  \/ record'[n] = record[n]
              /\ \/ worker'[n] = worker[n] \/ worker'[n] \in {"leaving", "idle"}
                 \/ worker'[n] = "running" /\ record[n] = "exiting"
           \/ /\ worker[n] = "running" /\ worker'[n] \in {"leaving", "wiping"}
              /\ worker'[n] = "wiping" => record'[n] = "completed"
<1> USE DEF But
<1>1. CASE NextMessage(n) /\ NodeRest
  <2>1. CASE But(n, {"jobs", "toNode"})
    BY <2>1
  <2>2. CASE ~But(n, {"jobs", "toNode"})
    <3>1. /\ worker[n] = "running"
          /\ worker'[n] = IF Head(toNode[n]).type = "completed" THEN "wiping" ELSE "leaving"
          /\ record'[n] = IF Head(toNode[n]).type = "refused" THEN "cancelled"
                          ELSE IF Head(toNode[n]).type = "not ready" THEN record[n]
                          ELSE Head(toNode[n]).type
      <4> HIDE DEF But
      <4> QED
        BY <1>1, <2>2, NextMessageDoes
    <3> QED
      BY <3>1
  <2> QED
    BY <2>1, <2>2
<1>2. CASE (StreamOver(n) \/ Left(n) \/ DeleteSatelliteData(n)) /\ NodeRest
  BY <1>2, StreamOverDoes, LeftDoes, WipeDoes
<1>3. CASE JobStep(n) /\ NodeRest
  BY <1>3, TransferDoes, DeletePieceDoes DEF JobStep
<1>4. CASE NodeCrash(n) /\ NodeRest
  BY <1>4, CrashDoes
<1>5. CASE Connect(n)
  BY <1>5, ConnectDoes
<1>6. CASE SenderStep(n) \/ ReceiverStep(n)
  BY <1>6, SenderEffect, ReceiverEffect
<1>7. CASE FirstProgress(n) \/ SessionFails(n) \/ SessionNotices(n)
  BY <1>7, FirstProgressDoes, BreakDoes DEF ReturnFields
<1>8. CASE \/ AuditDisqualifies(n) \/ Start \/ Flush \/ Finish \/ LoopFails
           \/ \E s \in Segments : Collect(s)
  BY <1>8, AuditDoes, StartDoes, FlushDoes, FinishDoes, LoopFailsDoes, CollectDoes
<1>9. CASE But(n, {"pieces", "blobs"})
  BY <1>9
<1> QED
  BY <1>1, <1>2, <1>3, <1>4, <1>5, <1>6, <1>7, <1>8, <1>9, Steps DEF WorkerStep

LEMMA NextLeft ==
    ASSUME Basics, [Next]_vars, NEW n \in Exiting, LeftInv(n)
    PROVE  LeftInv(n)'
<1>0. Types /\ EndTypes /\ EndsInv(n)
  BY EndsTypes DEF Basics, Ends
<1>1. ASSUME receiver'[n].at \in Leaving, receiver'[n].type # "failed"
      PROVE  /\ receiver'[n].type \in {"succeeded", "not found"}
             /\ ~HoldsPiece(n, receiver[n].piece)'
  <2>1. CASE \/ /\ receiver[n].at \in Leaving /\ receiver[n].type = receiver'[n].type
                /\ receiver[n].piece = receiver'[n].piece
    <3>1. /\ receiver[n].type \in {"succeeded", "not found"}
          /\ ~HoldsPiece(n, receiver[n].piece)
      BY <1>1, <2>1 DEF LeftInv
    <3>2. receiver[n].piece \in Piece
      <4>1. receiver[n].piece \in DOMAIN pending[n]
        BY <1>0, <2>1, ReceiverHas DEF Leaving
      <4> QED
        BY <1>0, <4>1, InHand
    <3>3. PICK p \in Piece : p = receiver[n].piece
      BY <3>2
    <3>4. ~HoldsPiece(n, p)'
      BY <3>1, <3>3, Onward
    <3> QED
      BY <2>1, <3>1, <3>3, <3>4 DEF HoldsPiece
  <2>2. CASE ReceiverStep(n)
    BY <1>0, <1>1, <2>1, <2>2, Leaves DEF HoldsPiece
  <2>3. CASE ~ReceiverStep(n)
    BY <1>0, <1>1, <2>1, <2>3, ReceiverOnly DEF Leaving
  <2> QED
    BY <2>2, <2>3
<1>2. ASSUME NEW m \in Given(n)', m.type = "delete", HoldsPiece(n, m.piece)'
      PROVE  FALSE
  <2>1. CASE m \in Given(n)
    <3>1. m \in Messages
      BY <1>0, <2>1, MessagedIs DEF Given, Types, NodeTypes, Messages
    <3>2. m.piece \in Piece /\ ~HoldsPiece(n, m.piece)
      BY <1>2, <2>1, <3>1 DEF LeftInv, Messages, Transfers, Deletions, Notices
    <3>3. PICK p \in Piece : p = m.piece
      BY <3>2
    <3> QED
      BY <1>2, <3>2, <3>3, Onward DEF HoldsPiece
  <2>2. CASE Deletion(n) /\ m = Message("delete", receiver[n].piece, None)
    <3>1. m.piece = receiver[n].piece /\ receiver[n].piece \in Piece
      BY <2>2 DEF Message, Deletion
    <3>2. ~HoldsPiece(n, receiver[n].piece)
      BY <2>2 DEF LeftInv, Deletion, Leaving
    <3>3. PICK p \in Piece : p = receiver[n].piece
      BY <3>1
    <3> QED
      BY <1>2, <3>1, <3>2, <3>3, Onward DEF HoldsPiece
  <2> QED
    BY <1>2, <2>1, <2>2, NextGiven DEF NewMessage, Transfers, Notices
<1>3. ASSUME NEW p \in Piece \ Lost, HoldsPiece(n, p)', p \notin blobs'[n], record'[n] # "completed"
      PROVE  FALSE
  <2>1. HoldsPiece(n, p)
    BY <1>3, Onward
  <2>2. CASE p \in blobs[n]
    <3>1. worker[n] = "wiping" \/ \E m \in jobs[n] : m.type = "delete" /\ m.piece = p
      BY <1>3, <2>2, Onward
    <3>2. ~\E m \in jobs[n] : m.type = "delete" /\ m.piece = p
      BY <2>1 DEF LeftInv, Given
    <3>3. record[n] = "completed" /\ worker[n] # "running"
      BY <3>1, <3>2 DEF LeftInv
    <3> QED
      BY <1>0, <1>3, <3>3, NextWorker
  <2>3. CASE p \notin blobs[n]
    <3>1. record[n] = "completed" /\ worker[n] # "running"
      BY <2>1, <2>3 DEF LeftInv
    <3> QED
      BY <1>0, <1>3, <3>1, NextWorker
  <2> QED
    BY <2>2, <2>3
<1>4. /\ worker'[n] = "running" => record'[n] = "exiting"
      /\ worker'[n] = "wiping" => record'[n] = "completed"
  BY <1>0, NextWorker DEF LeftInv
<1> QED
  BY <1>1, <1>2, <1>3, <1>4 DEF LeftInv, HoldsPiece

LEMMA InitLeft == Init => \A n \in Exiting : LeftInv(n)
<1> SUFFICES ASSUME Init, NEW n \in Exiting PROVE LeftInv(n)
  OBVIOUS
<1>1. /\ receiver[n] = NotReceiving /\ toNode[n] = <<>> /\ jobs[n] = {} /\ worker[n] = "idle"
  BY DEF Init
<1>2. receiver[n].at \notin Leaving /\ Given(n) = {}
  BY <1>1 DEF NotReceiving, Leaving, Given, Messaged
<1>3. \A p \in Piece \ Lost : HoldsPiece(n, p) => p \in blobs[n]
  BY ExitWorkerAssumption DEF Init, HoldsPiece
<1> QED
  BY <1>1, <1>2, <1>3 DEF LeftInv

-----------------------------------------------------------------------------
\* What a node is told is what was recorded.

Told(n, t) == record[n] = t \/ \E m \in Given(n) : m.type = t
Telling(n) == session[n] = "closed" \/ receiver[n].at = "clear"

OutcomeInv(n) ==
    /\ status[n].success => status[n].looped
    /\ Told(n, "completed") => status[n].finished /\ status[n].success /\ Telling(n)
    /\ Told(n, "failed") =>
          /\ status[n].finished /\ ~status[n].success
          /\ \/ Telling(n)
             \/ status[n].disqualified /\ ~(receiver[n].at = "record" /\ Verdict(n))
    /\ receiver[n].at \in {"condemn", "disqualify"} => ~Verdict(n)
    /\ receiver[n].at \in {"record", "announce", "clear"} =>
          Verdict(n) \/ status[n].disqualified
    /\ receiver[n].at \in {"announce", "clear"} =>
          status[n].finished /\ status[n].success = Verdict(n)
    /\ n \in loop.nodes => ~status[n].looped

Results == {"completed", "failed"}

ToldNothing(n) == \A t \in Results : Told(n, t)' => Told(n, t)

LEMMA GivenTypes ==
    /\ Bare("refused").type = "refused" /\ Bare("not ready").type = "not ready"
    /\ \A m \in Transfers : m.type = "transfer"
    /\ \A p : Message("delete", p, None).type = "delete"
    /\ \A success : Finished(success).type = IF success THEN "completed" ELSE "failed"
BY DEF Bare, Finished, Message, Transfers

LEMMA ToldFrom ==
    ASSUME NEW n, record'[n] = record[n],
           \A m \in Given(n)' : m \in Given(n) \/ m.type \notin Results
    PROVE  ToldNothing(n)
BY DEF ToldNothing, Told

LEMMA NextTold ==
    ASSUME Basics, [Next]_vars, NEW n \in Exiting, ~Announce(n), ~Connect(n)
    PROVE  ToldNothing(n)
<1> USE DEF But
<1>0. Types /\ EndTypes /\ EndsInv(n)
  BY EndsTypes DEF Basics, Ends
<1>1. ASSUME toNode'[n] = toNode[n], jobs'[n] = jobs[n], record'[n] = record[n]
      PROVE  ToldNothing(n)
  <2>1. Given(n)' = Given(n)
    BY <1>0, <1>1, MessagedIs DEF Given
  <2> QED
    BY <1>1, <2>1, ToldFrom
<1>2. CASE SenderStep(n)
  BY <1>0, <1>2, SenderEffect, SenderGiven, GivenTypes, ToldFrom DEF Results
<1>3. CASE ReceiverStep(n)
  BY <1>0, <1>3, ReceiverEffect, ReceiverGiven, GivenTypes, ToldFrom DEF Results
<1>4. CASE (WorkerStep(n) \/ NodeCrash(n)) /\ NodeRest
  <2>1. Given(n)' \subseteq Given(n)
    BY <1>0, <1>4, WorkerGiven
  <2>2. record'[n] = record[n] \/ record'[n] = "cancelled"
        \/ \E m \in Given(n) : record'[n] = m.type
    <3>1. CASE NextMessage(n)
      <4>1. toNode[n] # <<>>
        BY <1>0, <1>4, <3>1, NextMessageDoes
      <4>2. Head(toNode[n]) \in Given(n)
        BY <1>0, <4>1, MessagedIs DEF Given
      <4>3. record'[n] = record[n] \/ record'[n] = "cancelled" \/ record'[n] = Head(toNode[n]).type
        BY <1>0, <1>4, <3>1, NextMessageDoes
      <4> QED
        BY <4>2, <4>3
    <3>2. CASE ~NextMessage(n)
      BY <1>4, <3>2 DEF WorkerStep, JobStep, StreamOver, Left, DeleteSatelliteData,
         Transfer, TransferFails, DeletePiece, NodeCrash
    <3> QED
      BY <3>1, <3>2
  <2> QED
    BY <2>1, <2>2 DEF ToldNothing, Told, Results
<1>5. CASE FirstProgress(n)
  <2>1. Bare("not ready") \in Messages
    BY MessageKinds DEF Messages
  <2>2. ReturnWith(n, <<Bare("not ready")>>) /\ jobs'[n] = jobs[n] /\ record'[n] = record[n]
    BY <1>0, <1>5, FirstProgressDoes DEF ReturnFields
  <2>3. Given(n)' \subseteq Given(n) \union {Bare("not ready")}
    BY <1>0, <2>1, <2>2, MessagedReturn DEF Given
  <2> QED
    BY <2>2, <2>3, GivenTypes, ToldFrom DEF Results
<1>6. CASE SessionFails(n) \/ SessionNotices(n)
  <2>1. Return(n) /\ jobs'[n] = jobs[n] /\ record'[n] = record[n]
    BY <1>0, <1>6, BreakDoes DEF ReturnFields
  <2> QED
    BY <1>0, <1>1, <2>1, ReturnedEmpty
<1>7. CASE \/ AuditDisqualifies(n) \/ Start \/ Flush \/ Finish \/ LoopFails
           \/ \E s \in Segments : Collect(s)
  BY <1>0, <1>1, <1>7, AuditDoes, StartDoes, FlushDoes, FinishDoes, LoopFailsDoes, CollectDoes
<1>8. CASE But(n, {"pieces", "blobs"})
  BY <1>1, <1>8
<1> QED
  BY <1>0, <1>2, <1>3, <1>4, <1>5, <1>6, <1>7, <1>8, Steps

\* The session and the status stay.
LEMMA OutcomeSame ==
    ASSUME NEW n \in Exiting, OutcomeInv(n), ToldNothing(n),
           status'[n].finished = status[n].finished, status'[n].success = status[n].success,
           status'[n].looped = status[n].looped,
           status[n].disqualified => status'[n].disqualified,
           session'[n] = session[n], receiver'[n] = receiver[n],
           n \in loop'.nodes => n \in loop.nodes
    PROVE  OutcomeInv(n)'
BY DEF OutcomeInv, ToldNothing, Results, Telling, Verdict

\* The session returns.
LEMMA OutcomeReturns ==
    ASSUME NEW n \in Exiting, OutcomeInv(n), ToldNothing(n),
           status[n].finished => status'[n].finished,
           status'[n].success = status[n].success \/ ~status'[n].success,
           Told(n, "completed") => status'[n].success = status[n].success,
           status'[n].looped = status[n].looped,
           session'[n] = "closed", receiver'[n] = NotReceiving,
           n \in loop'.nodes => n \in loop.nodes
    PROVE  OutcomeInv(n)'
<1>1. receiver'[n].at = "idle"
  BY DEF NotReceiving
<1> QED
  BY <1>1 DEF OutcomeInv, ToldNothing, Results, Telling

LEMMA OutcomeConnect ==
    ASSUME Types, NEW n \in Exiting, SessionInv(n), OutcomeInv(n), Connect(n)
    PROVE  OutcomeInv(n)'
<1> USE DEF But
<1>0. status[n] \in Exits /\ status[n].success \in BOOLEAN /\ (~status[n].success) \in BOOLEAN
  BY DEF Types, TableTypes, Exits
<1>1. /\ record'[n] = "exiting" /\ jobs'[n] = {} /\ session[n] = "closed"
      /\ receiver[n].at = "idle" /\ loop' = loop
  <2>1. worker[n] = "idle" /\ session[n] = "closed" /\ record'[n] = record[n] /\ jobs'[n] = jobs[n]
        /\ record[n] = "exiting" /\ loop' = loop
    BY ConnectDoes
  <2>2. receiver[n] = NotReceiving
    BY <2>1 DEF SessionInv
  <2> QED
    BY <2>1, <2>2 DEF SessionInv, NotReceiving
<1>2. ASSUME NEW m, toNode'[n] = <<m>>, NEW t \in Results
      PROVE  Told(n, t)' => m.type = t
  BY <1>1, <1>2, MessagedIs DEF Told, Given, Results
<1>3. ASSUME toNode'[n] = <<>>, NEW t \in Results
      PROVE  ~Told(n, t)'
  BY <1>1, <1>3, MessagedIs DEF Told, Given, Results
<1>4. CASE /\ status[n].disqualified
           /\ status'[n] = Updated(status[n], "finished", FALSE)
           /\ toNode'[n] = <<Bare("refused")>>
           /\ session'[n] = session[n] /\ receiver'[n] = receiver[n]
  <2>1. \A t \in Results : ~Told(n, t)'
    BY <1>2, <1>4, GivenTypes DEF Results
  <2>2. status'[n].finished /\ ~status'[n].success /\ status'[n].looped = status[n].looped
    BY <1>0, <1>4, StatusFails
  <2> QED
    BY <1>1, <1>4, <2>1, <2>2 DEF OutcomeInv, Results
<1>5. CASE /\ ~status[n].disqualified /\ status[n].finished
           /\ status'[n] = [status[n] EXCEPT !.disqualified = ~status[n].success]
           /\ toNode'[n] = <<Finished(status[n].success)>>
           /\ session'[n] = session[n] /\ receiver'[n] = receiver[n]
  <2>1. \A t \in Results : Told(n, t)' => t = IF status[n].success THEN "completed" ELSE "failed"
    <3>1. PICK b \in BOOLEAN : b = status[n].success
      BY <1>0
    <3>2. toNode'[n] = <<Finished(b)>>
      BY <1>5, <3>1
    <3>3. Finished(b).type = IF b THEN "completed" ELSE "failed"
      BY GivenTypes
    <3> QED
      BY <1>2, <3>1, <3>2, <3>3
  <2>2. PICK b \in BOOLEAN : b = ~status[n].success
    BY <1>0
  <2>3. status'[n] = [status[n] EXCEPT !.disqualified = b]
    BY <1>5, <2>2
  <2>4. /\ status'[n].finished = status[n].finished /\ status'[n].success = status[n].success
        /\ status'[n].looped = status[n].looped
    BY <1>0, <2>3, UpdatedTo
  <2> QED
    BY <1>1, <1>5, <2>1, <2>4 DEF OutcomeInv, Results, Telling
<1>6. CASE /\ ~status[n].disqualified /\ ~status[n].initiated
           /\ status'[n] = Updated(status[n], "initiated", FALSE)
           /\ toNode'[n] = <<>> /\ receiver'[n] = receiver[n]
  <2>1. status'[n].finished = status[n].finished /\ ~status'[n].success /\ status'[n].looped = status[n].looped
    BY <1>0, <1>6, StatusFails
  <2> QED
    BY <1>1, <1>3, <1>6, <2>1 DEF OutcomeInv, Results
<1>7. CASE /\ toNode'[n] = <<>> /\ receiver'[n].at = "wait" /\ status'[n] = status[n]
  BY <1>1, <1>3, <1>7 DEF OutcomeInv, Results
<1>8. CASE /\ toNode'[n] = <<Bare("not ready")>> /\ status'[n] = status[n]
           /\ session'[n] = session[n] /\ receiver'[n] = receiver[n]
  <2>1. \A t \in Results : ~Told(n, t)'
    BY <1>2, <1>8, GivenTypes DEF Results
  <2> QED
    BY <1>1, <1>8, <2>1 DEF OutcomeInv, Results
<1> QED
  BY <1>4, <1>5, <1>6, <1>7, <1>8, ConnectDoes

LEMMA StatusSet ==
    ASSUME NEW n \in Exiting, status[n] \in Exits, NEW b \in BOOLEAN,
           status'[n] = Updated(status[n], "finished", b)
    PROVE  /\ status'[n].finished /\ status'[n].success = b
           /\ status'[n].looped = status[n].looped
           /\ status'[n].disqualified = status[n].disqualified
<1>1. status'[n] = [status[n] EXCEPT !.finished = TRUE, !.success = b]
  BY UpdatedIs
<1> QED
  BY <1>1 DEF Exits

LEMMA OutcomeReceiver ==
    ASSUME Basics, [Next]_vars, NEW n \in Exiting, OutcomeInv(n), ReceiverStep(n)
    PROVE  OutcomeInv(n)'
<1> USE DEF But
<1>0. /\ Types /\ EndTypes /\ EndsInv(n) /\ SessionInv(n)
      /\ session[n] = "open" /\ status[n].looped /\ status[n] \in Exits /\ ~Connect(n)
      /\ Verdict(n) \in BOOLEAN
  <2>1. Types /\ EndTypes /\ EndsInv(n) /\ SessionInv(n)
    BY EndsTypes DEF Basics, Ends, Sessions
  <2>2. session[n] = "open"
    BY <2>1, Open
  <2> QED
    BY <2>1, <2>2, ConnectDoes DEF SessionInv, Types, TableTypes, Verdict
<1>1. ASSUME Return(n), status'[n] = status[n], loop' = loop, ToldNothing(n)
      PROVE  OutcomeInv(n)'
  BY <1>0, <1>1, ReturnedEmpty, OutcomeReturns
\* The receiver is at none of its last places.
<1>2. ASSUME receiver'[n].at \notin {"condemn", "disqualify", "record", "announce", "clear"},
             receiver[n].at \notin {"announce", "clear"},
             session'[n] = session[n], status'[n] = status[n], loop' = loop, ToldNothing(n)
      PROVE  OutcomeInv(n)'
  BY <1>0, <1>2 DEF OutcomeInv, ToldNothing, Results, Telling
<1>3. ASSUME ~Announce(n) PROVE ToldNothing(n)
  BY <1>0, <1>3, NextTold
\* An outcome is under way.
<1>4. CASE Wait(n) \/ ReadFailed(n) \/ CountProgress(n) \/ Dequeue(n) \/ Forget(n)
  <2>1. /\ receiver[n].at \in {"wait", "read", "progress", "dequeue", "forget"}
        /\ Return(n) \/ receiver'[n].at \in {"recv", "judge", "progress", "forget", "dequeue", "wait"}
        /\ Return(n) \/ session'[n] = session[n]
        /\ status'[n] = status[n] /\ loop' = loop
    <3>1. CASE Wait(n)
      BY <1>0, <3>1, WaitDoes
    <3>2. CASE ReadFailed(n)
      BY <1>0, <3>2, ReadFailedDoes DEF ReturnFields
    <3>3. CASE CountProgress(n) \/ Dequeue(n)
      BY <1>0, <3>3, CountProgressDoes, DequeueDoes
    <3>4. CASE Forget(n)
      BY <1>0, <3>4, ForgetDoes
    <3> QED
      BY <1>4, <3>1, <3>2, <3>3, <3>4
  <2>2. ~Announce(n)
    BY <2>1 DEF Announce, Rcv
  <2> QED
    BY <1>1, <1>2, <1>3, <2>1, <2>2
<1>5. CASE ReadSucceeded(n) \/ ReadNotFound(n) \/ UpdateSegment(n) \/ RecvTimeout(n)
  <2>1. /\ receiver[n].at \in {"read", "update", "recv"}
        /\ Return(n) \/ receiver'[n].at \in {"update", "progress", "dequeue", "wait"}
        /\ Return(n) \/ session'[n] = session[n]
        /\ status'[n] = status[n] /\ loop' = loop
    <3>1. CASE ReadSucceeded(n)
      BY <1>0, <3>1, ReadSucceededDoes DEF ReturnFields
    <3>2. CASE ReadNotFound(n)
      BY <1>0, <3>2, ReadNotFoundDoes DEF ReturnFields
    <3>3. CASE UpdateSegment(n)
      BY <1>0, <3>3, UpdateDoes DEF ReturnFields
    <3>4. CASE RecvTimeout(n)
      <4>1. receiver[n].at = "recv"
        BY <3>4 DEF RecvTimeout
      <4> QED
        BY <1>0, <3>4, <4>1, RecvTimeoutDoes DEF ReturnFields
    <3> QED
      BY <1>5, <3>1, <3>2, <3>3, <3>4
  <2>2. ~Announce(n)
    BY <2>1 DEF Announce, Rcv
  <2> QED
    BY <1>1, <1>2, <1>3, <2>1, <2>2
<1>6. CASE Recv(n)
  <2>1. receiver[n].at = "recv" /\ ~Announce(n)
    BY <1>6 DEF Recv, Announce, Rcv
  <2>2. CASE Return(n) /\ But(n, ReturnFields)
    BY <1>1, <1>3, <2>1, <2>2 DEF ReturnFields
  <2>3. CASE ~(Return(n) /\ But(n, ReturnFields))
    <3>1. /\ session'[n] = session[n] /\ status'[n] = status[n] /\ loop' = loop
          /\ \/ receiver'[n].at \in {"read", "wait"}
             \/ receiver'[n].at = "condemn" /\ receiver'[n].type = "invalid"
      BY <1>0, <1>6, <2>3, RecvDoes
    <3>2. CASE receiver'[n].at \in {"read", "wait"}
      BY <1>2, <1>3, <2>1, <3>1, <3>2
    <3>3. CASE receiver'[n].at = "condemn" /\ receiver'[n].type = "invalid"
      <4>1. ToldNothing(n)
        BY <1>3, <2>1
      <4> QED
        BY <1>0, <2>1, <3>1, <3>3, <4>1 DEF OutcomeInv, ToldNothing, Results, Telling, Verdict
    <3> QED
      BY <3>1, <3>2, <3>3
  <2> QED
    BY <2>2, <2>3
<1>7. CASE Judge(n)
  <2>1. receiver[n].at = "judge" /\ ~Announce(n)
    BY <1>7 DEF Judge, Announce, Rcv
  <2>2. ToldNothing(n)
    BY <1>3, <2>1
  <2>3. ~Told(n, "completed") /\ (Told(n, "failed") => status[n].disqualified)
    BY <1>0, <2>1 DEF OutcomeInv, Telling
  <2>4. CASE /\ ReturnWith(n, <<Bare("refused")>>)
             /\ status'[n] = Updated(status[n], "finished", FALSE)
             /\ But(n, ReturnFields \union {"status", "queue"})
    <3>1. session'[n] = "closed" /\ receiver'[n] = NotReceiving /\ loop' = loop
      BY <1>0, <2>4 DEF ReturnWith, Types, SessionTypes, ReturnFields
    <3>2. status'[n].finished /\ ~status'[n].success /\ status'[n].looped = status[n].looped
      BY <1>0, <2>4, StatusFails
    <3> QED
      BY <2>2, <2>3, <3>1, <3>2, OutcomeReturns
  <2>5. CASE Return(n) /\ But(n, ReturnFields)
    BY <1>1, <2>2, <2>5 DEF ReturnFields
  <2>6. CASE /\ ~status[n].disqualified
             /\ \/ receiver'[n].at = "disqualify" /\ receiver'[n].type = "failed"
                \/ receiver'[n].at = "record" /\ receiver'[n].type = "completed"
             /\ But(n, {"receiver"})
    <3>1. session'[n] = session[n] /\ status'[n] = status[n] /\ loop' = loop
      BY <2>6
    <3>2. \A t \in Results : ~Told(n, t)'
      BY <2>2, <2>3, <2>6 DEF ToldNothing, Results
    <3> QED
      BY <1>0, <2>6, <3>1, <3>2 DEF OutcomeInv, Results, Verdict
  <2> QED
    <3> HIDE DEF But
    <3> QED
      BY <1>0, <1>7, <2>4, <2>5, <2>6, JudgeDoes
<1>8. CASE Condemn(n)
  <2>1. /\ receiver[n].at = "condemn" /\ receiver'[n].at = "disqualify"
        /\ receiver'[n].type = receiver[n].type
        /\ session'[n] = session[n] /\ status'[n] = status[n] /\ loop' = loop
    BY <1>0, <1>8, CondemnDoes
  <2>2. ToldNothing(n)
    BY <1>3, <2>1 DEF Announce, Rcv
  <2> QED
    BY <1>0, <2>1, <2>2 DEF OutcomeInv, ToldNothing, Results, Telling, Verdict
<1>9. CASE DisqualifyNode(n)
  <2>1. /\ receiver[n].at = "disqualify" /\ receiver'[n].at = "record"
        /\ receiver'[n].type = receiver[n].type
        /\ session'[n] = session[n] /\ loop' = loop
        /\ status'[n] = [status[n] EXCEPT !.disqualified = TRUE]
    BY <1>0, <1>9, DisqualifyDoes
  <2>2. ToldNothing(n)
    BY <1>3, <2>1 DEF Announce, Rcv
  <2>3. /\ status'[n].finished = status[n].finished /\ status'[n].success = status[n].success
        /\ status'[n].looped = status[n].looped /\ status'[n].disqualified
    BY <1>0, <2>1, StatusFails
  <2> QED
    BY <1>0, <2>1, <2>2, <2>3 DEF OutcomeInv, ToldNothing, Results, Telling, Verdict
<1>10. CASE RecordOutcome(n)
  <2>1. /\ receiver[n].at = "record" /\ receiver'[n].at = "announce"
        /\ receiver'[n].type = receiver[n].type
        /\ session'[n] = session[n] /\ loop' = loop
        /\ status'[n] = Updated(status[n], "finished", Verdict(n))
    BY <1>0, <1>10, RecordDoes
  <2>2. ToldNothing(n)
    BY <1>3, <2>1 DEF Announce, Rcv
  <2>3. /\ status'[n].finished /\ status'[n].success = Verdict(n)
        /\ status'[n].looped = status[n].looped /\ status'[n].disqualified = status[n].disqualified
    <3>1. PICK b \in BOOLEAN : b = Verdict(n)
      BY <1>0
    <3>2. status'[n] = Updated(status[n], "finished", b)
      BY <2>1, <3>1
    <3>3. /\ status'[n].finished /\ status'[n].success = b
          /\ status'[n].looped = status[n].looped
          /\ status'[n].disqualified = status[n].disqualified
      BY <1>0, <3>2, StatusSet
    <3> QED
      BY <3>1, <3>3
  <2>4. ~Told(n, "completed") /\ (Told(n, "failed") => status[n].disqualified /\ ~Verdict(n))
    BY <1>0, <2>1 DEF OutcomeInv, Telling
  <2>5. Verdict(n)' = Verdict(n)
    BY <2>1 DEF Verdict
  <2> QED
    BY <1>0, <2>1, <2>2, <2>3, <2>4, <2>5 DEF OutcomeInv, ToldNothing, Results, Telling
<1>11. CASE Announce(n)
  <2>1. /\ receiver[n].at = "announce" /\ receiver'[n].at = "clear"
        /\ receiver'[n].type = receiver[n].type
        /\ session'[n] = session[n] /\ status'[n] = status[n] /\ loop' = loop
        /\ jobs'[n] = jobs[n] /\ record'[n] = record[n]
    BY <1>0, <1>11, AnnounceDoes
  <2>2. ASSUME NEW m \in Given(n)', m \notin Given(n), m.type \in Results
        PROVE  m.type = IF Verdict(n) THEN "completed" ELSE "failed"
    BY <1>0, <1>11, <2>1, <2>2, ReceiverGiven, GivenTypes DEF Results, Deletion
  <2>3. \A t \in Results : Told(n, t)' => Told(n, t) \/ t = IF Verdict(n) THEN "completed" ELSE "failed"
    BY <2>1, <2>2 DEF Told
  <2>4. ~Told(n, "completed")
    BY <1>0, <2>1 DEF OutcomeInv, Telling
  <2>5. Told(n, "failed") => ~Verdict(n)
    BY <1>0, <2>1 DEF OutcomeInv
  <2>6. Verdict(n)' = Verdict(n)
    BY <2>1 DEF Verdict
  <2> QED
    BY <1>0, <2>1, <2>3, <2>4, <2>5, <2>6 DEF OutcomeInv, Results, Telling
<1>12. CASE ClearQueue(n)
  <2>1. receiver[n].at = "clear" /\ ~Announce(n)
    BY <1>12 DEF ClearQueue, Announce, Rcv
  <2>2. ToldNothing(n)
    BY <1>3, <2>1
  <2>3. CASE Return(n) /\ But(n, ReturnFields \union {"queue"})
    BY <1>1, <2>2, <2>3 DEF ReturnFields
  <2>4. CASE /\ receiver'[n].at = "wait" /\ receiver[n].type = "invalid"
             /\ But(n, {"receiver", "queue"})
    <3>1. /\ session'[n] = session[n] /\ status'[n] = status[n] /\ loop' = loop
      BY <2>4
    <3>2. ~Verdict(n)
      BY <2>4 DEF Verdict
    <3> QED
      BY <1>0, <2>1, <2>2, <2>4, <3>1, <3>2 DEF OutcomeInv, ToldNothing, Results, Telling
  <2> QED
    <3> HIDE DEF But
    <3> QED
      BY <1>0, <1>12, <2>3, <2>4, ClearDoes
<1> QED
  BY <1>4, <1>5, <1>6, <1>7, <1>8, <1>9, <1>10, <1>11, <1>12 DEF ReceiverStep

LEMMA OutcomeLoop ==
    ASSUME ~Ranged, Basics, [Next]_vars, NEW n \in Exiting, OutcomeInv(n),
           Start \/ Finish \/ LoopFails \/ Flush \/ \E s \in Segments : Collect(s)
    PROVE  OutcomeInv(n)'
<1> USE DEF But
<1>0. Types /\ EndTypes /\ status[n] \in Exits /\ SessionInv(n)
  BY EndsTypes DEF Basics, Types, TableTypes, Sessions
<1>1. ToldNothing(n)
  <2>1. record'[n] = record[n] /\ toNode'[n] = toNode[n] /\ jobs'[n] = jobs[n]
    BY <1>0, StartDoes, FinishDoes, LoopFailsDoes, FlushDoes, CollectDoes
  <2>2. Given(n)' = Given(n)
    BY <1>0, <2>1, MessagedIs DEF Given
  <2> QED
    BY <2>1, <2>2, ToldFrom
<1>2. session'[n] = session[n] /\ receiver'[n] = receiver[n]
  BY <1>0, StartDoes, FinishDoes, LoopFailsDoes, FlushDoes, CollectDoes
<1>3. CASE Start
  <2>1. loop'.nodes = Unlooped
    BY <1>0, <1>3, StartDoes DEF Start
  <2>2. n \in loop'.nodes => ~status[n].looped
    BY <2>1 DEF Unlooped
  <2>3. CASE /\ status[n].looped /\ ~status[n].finished /\ ~status[n].disqualified
             /\ status'[n] = Updated(status[n], "finished", FALSE)
    <3>1. /\ status'[n].finished /\ ~status'[n].success /\ status'[n].looped = status[n].looped
          /\ status'[n].disqualified = status[n].disqualified
      BY <1>0, <2>3, StatusFails
    <3>2. ~Told(n, "completed") /\ ~Told(n, "failed")
      BY <2>3 DEF OutcomeInv
    <3>3. receiver[n].at \notin {"announce", "clear"}
      BY <2>3 DEF OutcomeInv
    <3> QED
      BY <1>1, <1>2, <2>2, <3>1, <3>2, <3>3 DEF OutcomeInv, ToldNothing, Results, Telling, Verdict
  <2>4. CASE status'[n] = status[n]
    BY <1>1, <1>2, <2>2, <2>4 DEF OutcomeInv, ToldNothing, Results, Telling, Verdict
  <2> QED
    BY <1>0, <1>3, <2>3, <2>4, StartDoes
<1>4. CASE Finish
  <2>1. /\ loop'.nodes = {}
        /\ status'[n] = IF n \in loop.nodes THEN Updated(status[n], "looped", FALSE)
                        ELSE status[n]
    BY <1>0, <1>4, FinishDoes
  <2>2. CASE n \in loop.nodes
    <3>1. ~status[n].looped /\ ~status[n].success
      BY <2>2 DEF OutcomeInv
    <3>2. /\ status'[n].finished = status[n].finished /\ ~status'[n].success
          /\ status'[n].looped /\ status'[n].disqualified = status[n].disqualified
      BY <1>0, <2>1, <2>2, StatusFails
    <3>3. status[n].success = FALSE /\ status'[n].success = FALSE
      <4>1. status'[n].success \in BOOLEAN /\ status[n].success \in BOOLEAN
        BY NextTypes1, <1>0 DEF Types, TableTypes, Exits
      <4> QED
        BY <3>1, <3>2, <4>1
    <3> QED
      BY <1>1, <1>2, <2>1, <3>1, <3>2, <3>3 DEF OutcomeInv, ToldNothing, Results, Telling, Verdict
  <2>3. CASE n \notin loop.nodes
    BY <1>1, <1>2, <2>1, <2>3 DEF OutcomeInv, ToldNothing, Results, Telling, Verdict
  <2> QED
    BY <2>2, <2>3
<1>5. CASE LoopFails \/ Flush \/ \E s \in Segments : Collect(s)
  <2>1. status'[n] = status[n] /\ (n \in loop'.nodes => n \in loop.nodes)
    BY <1>0, <1>5, LoopFailsDoes, FlushDoes, CollectDoes
  <2> QED
    BY <1>1, <1>2, <2>1, OutcomeSame
<1> QED
  BY <1>3, <1>4, <1>5

LEMMA NextOutcome ==
    ASSUME ~Ranged, Basics, [Next]_vars, NEW n \in Exiting, OutcomeInv(n)
    PROVE  OutcomeInv(n)'
<1> USE DEF But
<1>0. Types /\ EndTypes /\ EndsInv(n) /\ SessionInv(n) /\ status[n] \in Exits
  BY EndsTypes DEF Basics, Ends, Sessions, Types, TableTypes
<1>1. CASE Connect(n)
  BY <1>0, <1>1, OutcomeConnect
<1>2. CASE ReceiverStep(n)
  BY <1>2, OutcomeReceiver
<1>3. ASSUME ~Connect(n), ~ReceiverStep(n) PROVE ToldNothing(n)
  BY <1>3, NextTold DEF ReceiverStep
<1>4. ASSUME ~Connect(n), ~ReceiverStep(n), NEW ms, ReturnWith(n, ms),
             status'[n] = status[n], loop' = loop
      PROVE  OutcomeInv(n)'
  <2>1. session'[n] = "closed" /\ receiver'[n] = NotReceiving
    BY <1>0, <1>4 DEF ReturnWith, Types, SessionTypes
  <2> QED
    BY <1>3, <1>4, <2>1, OutcomeReturns
<1>5. CASE SenderStep(n) /\ ~Connect(n) /\ ~ReceiverStep(n)
  <2>1. status'[n] = status[n] /\ loop' = loop
    BY <1>0, <1>5, SenderEffect, LoopStays
  <2>2. CASE Return(n)
    BY <1>4, <1>5, <2>1, <2>2 DEF Return
  <2>3. CASE ~Return(n)
    BY <1>0, <1>3, <1>5, <2>1, <2>3, SenderMoves, OutcomeSame
  <2> QED
    BY <2>2, <2>3
<1>6. CASE (FirstProgress(n) \/ SessionFails(n) \/ SessionNotices(n)) /\ ~Connect(n) /\ ~ReceiverStep(n)
  BY <1>0, <1>4, <1>6, FirstProgressDoes, BreakDoes DEF Return, ReturnFields
<1>7. CASE (WorkerStep(n) \/ NodeCrash(n)) /\ NodeRest /\ ~Connect(n) /\ ~ReceiverStep(n)
  BY <1>3, <1>7, OutcomeSame DEF NodeRest, tables, sessionVars, OfLoop
<1>8. CASE AuditDisqualifies(n) /\ ~Connect(n) /\ ~ReceiverStep(n)
  <2>1. /\ status'[n].finished = status[n].finished /\ status'[n].success = status[n].success
        /\ status'[n].looped = status[n].looped /\ status'[n].disqualified
        /\ session'[n] = session[n] /\ receiver'[n] = receiver[n] /\ loop' = loop
    BY <1>0, <1>8, AuditDoes, StatusFails
  <2> QED
    BY <1>3, <1>8, <2>1, OutcomeSame
<1>9. CASE Start \/ Finish \/ LoopFails \/ Flush \/ \E s \in Segments : Collect(s)
  BY <1>9, OutcomeLoop
<1>10. CASE But(n, {"pieces", "blobs"}) /\ ~Connect(n) /\ ~ReceiverStep(n)
  BY <1>3, <1>10, OutcomeSame
<1> QED
  <2> HIDE DEF But
  <2> QED
    BY <1>0, <1>1, <1>2, <1>5, <1>6, <1>7, <1>8, <1>9, <1>10, Steps

LEMMA InitOutcome == Init => \A n \in Exiting : OutcomeInv(n)
<1> SUFFICES ASSUME Init, NEW n \in Exiting PROVE OutcomeInv(n)
  OBVIOUS
<1>1. /\ receiver[n] = NotReceiving /\ toNode[n] = <<>> /\ jobs[n] = {} /\ record[n] = "exiting"
      /\ status[n] = NoExit /\ loop = NotLooping
  BY DEF Init
<1>2. receiver[n].at = "idle" /\ Given(n) = {} /\ ~status[n].success /\ loop.nodes = {}
  BY <1>1 DEF NotReceiving, Given, Messaged, NoExit, NotLooping
<1> QED
  BY <1>1, <1>2 DEF OutcomeInv, Told

Settled == Basics /\ \A n \in Exiting : LeftInv(n) /\ OutcomeInv(n)

LEMMA SettledHolds == ASSUME ~Ranged PROVE Spec => []Settled
<1>1. Init => Settled
  BY InitBasics, InitLeft, InitOutcome DEF Settled
<1>2. Settled /\ [Next]_vars => Settled'
  BY NextBasics, NextLeft, NextOutcome DEF Settled
<1> QED
  BY <1>1, <1>2, PTL DEF Spec

\* What the node has recorded of its exit (ExitCompleted and ExitFailed of the
\* worker) is what the satellite has (UpdateExitStatus), as long as the chore
\* collects the pieces and not the observer of the ranged loop.
THEOREM OutcomesAgreed == ASSUME ~Ranged PROVE Spec => []OutcomesAgree
<1>1. Settled => OutcomesAgree
  BY DEF Settled, OutcomeInv, Told, OutcomesAgree
<1> QED
  BY <1>1, SettledHolds, PTL

\* An exiting node keeps what the satellite expects it to hold until its exit has
\* succeeded: it deletes a piece only when it is told to, which the satellite
\* does after it changed the segment (handleSucceeded, DeletePiece).
THEOREM PiecesKept == ASSUME ~Ranged PROVE Spec => []KeptUntilMoved
<1>1. Settled => KeptUntilMoved
  BY DEF Settled, LeftInv, OutcomeInv, Told, KeptUntilMoved
<1> QED
  BY <1>1, SettledHolds, PTL

-----------------------------------------------------------------------------
\* Outcomes are kept.

\* The loop is about to mark the node.
Looping(n) == n \in loop.nodes /\ loop.at = "collect" /\ Collected

\* What a step may do to the status of a node.
StatusStep(n) ==
    /\ status[n].initiated => status'[n].initiated
    /\ status[n].looped => status'[n].looped
    /\ status[n].finished => status'[n].finished
    /\ status[n].disqualified => status'[n].disqualified
    /\ status'[n].looped => status[n].looped \/ Looping(n)
    /\ status'[n].finished => status[n].finished \/ status[n].looped \/ status[n].disqualified
    /\ status'[n].success => status[n].success \/ (RecordOutcome(n) /\ Verdict(n))
    /\ status[n].finished /\ status[n].success /\ ~status'[n].success =>
          status[n].disqualified \/ n \in loop.nodes \/ ~status[n].initiated \/ RecordOutcome(n)
    /\ status'[n].finished /\ ~status[n].finished =>
          session'[n] # "open" \/ n \in dormant \/ receiver'[n].at = "announce"

LEMMA StatusInitiated ==
    ASSUME NEW n \in Exiting, status[n] \in Exits, NEW b \in BOOLEAN,
           \/ status'[n] = Updated(status[n], "initiated", b)
           \/ status'[n] = Updated(status[n], "looped", b)
           \/ status'[n] = Updated(status[n], "finished", b)
           \/ status'[n] = [status[n] EXCEPT !.disqualified = b]
    PROVE  status[n].initiated => status'[n].initiated
<1>1. \/ status'[n] = [status[n] EXCEPT !.initiated = TRUE, !.success = b]
      \/ status'[n] = [status[n] EXCEPT !.looped = TRUE, !.success = b]
      \/ status'[n] = [status[n] EXCEPT !.finished = TRUE, !.success = b]
      \/ status'[n] = [status[n] EXCEPT !.disqualified = b]
  BY UpdatedIs
<1> QED
  BY <1>1 DEF Exits

LEMMA StatusSame ==
    ASSUME NEW n \in Exiting, status'[n] = status[n]
    PROVE  StatusStep(n)
BY DEF StatusStep

LEMMA StatusSetFails ==
    ASSUME NEW n \in Exiting, status[n] \in Exits,
           status'[n] = Updated(status[n], "finished", FALSE),
           status[n].looped \/ status[n].disqualified,
           status[n].disqualified \/ ~status[n].finished,
           session'[n] # "open" \/ n \in dormant
    PROVE  StatusStep(n)
<1>1. PICK b \in BOOLEAN : b = FALSE
  OBVIOUS
<1>2. status'[n] = Updated(status[n], "finished", b)
  BY <1>1
<1>3. status[n].initiated => status'[n].initiated
  BY <1>2, StatusInitiated
<1>4. /\ status'[n].finished /\ ~status'[n].success /\ status'[n].looped = status[n].looped
      /\ status'[n].disqualified = status[n].disqualified
  BY StatusFails
<1> QED
  BY <1>3, <1>4 DEF StatusStep

LEMMA StatusDisqualified ==
    ASSUME NEW n \in Exiting, status[n] \in Exits, NEW b \in BOOLEAN,
           status'[n] = [status[n] EXCEPT !.disqualified = b],
           status[n].disqualified => b
    PROVE  StatusStep(n)
<1>3. status[n].initiated => status'[n].initiated
  BY StatusInitiated
<1>4. /\ status'[n].finished = status[n].finished /\ status'[n].success = status[n].success
      /\ status'[n].looped = status[n].looped /\ status'[n].disqualified = b
  BY UpdatedTo
<1> QED
  BY <1>3, <1>4 DEF StatusStep

LEMMA StatusOther ==
    ASSUME NEW n \in Exiting, status[n] \in Exits,
           \/ /\ status'[n] = Updated(status[n], "initiated", FALSE)
              /\ ~status[n].initiated
           \/ /\ status'[n] = Updated(status[n], "looped", FALSE)
              /\ Looping(n)
    PROVE  StatusStep(n)
<1>1. PICK b \in BOOLEAN : b = FALSE
  OBVIOUS
<1>2. status[n].initiated => status'[n].initiated
  BY <1>1, StatusInitiated
<1>3. CASE /\ status'[n] = Updated(status[n], "initiated", FALSE)
           /\ ~status[n].initiated
  <2>1. /\ status'[n].finished = status[n].finished /\ ~status'[n].success
        /\ status'[n].looped = status[n].looped
        /\ status'[n].disqualified = status[n].disqualified
    BY <1>3, StatusFails
  <2> QED
    BY <1>2, <1>3, <2>1 DEF StatusStep
<1>4. CASE /\ status'[n] = Updated(status[n], "looped", FALSE)
           /\ Looping(n)
  <2>1. /\ status'[n].finished = status[n].finished /\ ~status'[n].success
        /\ status'[n].looped
        /\ status'[n].disqualified = status[n].disqualified
    BY <1>4, StatusFails
  <2> QED
    BY <1>2, <1>4, <2>1 DEF StatusStep, Looping
<1> QED
  BY <1>3, <1>4

LEMMA StatusRecorded ==
    ASSUME Types, NEW n \in Exiting, RecordOutcome(n), status[n].looped
    PROVE  StatusStep(n)
<1>0. status[n] \in Exits /\ Verdict(n) \in BOOLEAN
  BY DEF Types, TableTypes, Verdict
<1>1. PICK b \in BOOLEAN : b = Verdict(n)
  BY <1>0
<1>2. status'[n] = Updated(status[n], "finished", b) /\ receiver'[n].at = "announce"
  BY <1>1, RecordDoes
<1>3. status[n].initiated => status'[n].initiated
  BY <1>0, <1>2, StatusInitiated
<1>4. /\ status'[n].finished /\ status'[n].success = b /\ status'[n].looped = status[n].looped
      /\ status'[n].disqualified = status[n].disqualified
  BY <1>0, <1>2, StatusSet
<1> QED
  BY <1>1, <1>2, <1>3, <1>4 DEF StatusStep

LEMMA ConnectStatus ==
    ASSUME Types, NEW n \in Exiting, Connect(n)
    PROVE  StatusStep(n)
<1> USE DEF But
<1>0. status[n] \in Exits /\ (~status[n].success) \in BOOLEAN
  BY DEF Types, TableTypes
<1>1. CASE /\ status[n].disqualified
           /\ status'[n] = Updated(status[n], "finished", FALSE)
           /\ session'[n] = session[n]
  BY <1>0, <1>1, StatusSetFails, ConnectDoes
<1>2. CASE /\ ~status[n].disqualified
           /\ status'[n] = [status[n] EXCEPT !.disqualified = ~status[n].success]
  <2>1. PICK b \in BOOLEAN : b = ~status[n].success
    BY <1>0
  <2> QED
    BY <1>0, <1>2, <2>1, StatusDisqualified
<1>3. CASE ~status[n].initiated /\ status'[n] = Updated(status[n], "initiated", FALSE)
  BY <1>0, <1>3, StatusOther
<1>4. CASE status'[n] = status[n]
  BY <1>4, StatusSame
<1> QED
  BY <1>1, <1>2, <1>3, <1>4, ConnectDoes

LEMMA NextStatus ==
    ASSUME Basics, [Next]_vars, NEW n \in Exiting
    PROVE  StatusStep(n)
<1> USE DEF But
<1>0. Types /\ EndTypes /\ SessionInv(n) /\ status[n] \in Exits
  BY EndsTypes DEF Basics, Sessions, Types, TableTypes
<1>1. CASE Connect(n)
  BY <1>0, <1>1, ConnectStatus
<1>2. CASE ReceiverStep(n)
  <2>1. session[n] = "open" /\ status[n].looped
    BY <1>0, <1>2, Open DEF SessionInv
  <2>2. CASE Judge(n)
    <3>1. CASE /\ ReturnWith(n, <<Bare("refused")>>)
               /\ status[n].disqualified
               /\ status'[n] = Updated(status[n], "finished", FALSE)
      <4>1. session'[n] = "closed"
        BY <1>0, <3>1 DEF ReturnWith, Types, SessionTypes
      <4> QED
        BY <1>0, <3>1, <4>1, StatusSetFails
    <3>2. CASE status'[n] = status[n]
      BY <3>2, StatusSame
    <3> QED
      BY <1>0, <2>2, <3>1, <3>2, JudgeDoes DEF ReturnFields
  <2>3. CASE DisqualifyNode(n)
    <3>1. PICK b \in BOOLEAN : b = TRUE
      OBVIOUS
    <3> QED
      BY <1>0, <2>3, <3>1, DisqualifyDoes, StatusDisqualified
  <2>4. CASE RecordOutcome(n)
    BY <1>0, <2>1, <2>4, StatusRecorded
  <2>5. status' = status \/ Judge(n) \/ DisqualifyNode(n) \/ RecordOutcome(n)
    BY <1>2 DEF ReceiverStep, Wait, Recv, RecvTimeout, ReadSucceeded, ReadNotFound, ReadFailed,
       UpdateSegment, CountProgress, Dequeue, Forget, Condemn, Announce, ClearQueue, tables
  <2> QED
    BY <2>2, <2>3, <2>4, <2>5, StatusSame
<1>3. CASE SenderStep(n)
  BY <1>0, <1>3, SenderEffect, StatusSame
<1>4. CASE FirstProgress(n) \/ SessionFails(n) \/ SessionNotices(n)
  BY <1>0, <1>4, FirstProgressDoes, BreakDoes, StatusSame DEF ReturnFields
<1>5. CASE (WorkerStep(n) \/ NodeCrash(n)) /\ NodeRest
  BY <1>5, StatusSame DEF NodeRest, tables
<1>6. CASE AuditDisqualifies(n)
  <2>1. PICK b \in BOOLEAN : b = TRUE
    OBVIOUS
  <2> QED
    BY <1>0, <1>6, <2>1, AuditDoes, StatusDisqualified
<1>7. CASE Start
  BY <1>0, <1>7, StartDoes, StatusSetFails, StatusSame
<1>8. CASE Finish
  BY <1>0, <1>8, FinishDoes, StatusOther, StatusSame DEF Looping, Collected
<1>9. CASE Flush \/ LoopFails \/ \E s \in Segments : Collect(s)
  BY <1>0, <1>9, FlushDoes, LoopFailsDoes, CollectDoes, StatusSame
<1>10. CASE But(n, {"pieces", "blobs"})
  BY <1>10, StatusSame
<1> QED
  <2> HIDE DEF But
  <2> QED
    BY <1>0, <1>1, <1>2, <1>3, <1>4, <1>5, <1>6, <1>7, <1>8, <1>9, <1>10, Steps

StartedInv(n) ==
    /\ n \in loop.nodes => status[n].initiated
    /\ status[n].looped => status[n].initiated
    /\ status[n].finished => status[n].looped \/ status[n].disqualified

LEMMA NextStarted ==
    ASSUME Basics, [Next]_vars, NEW n \in Exiting, StartedInv(n)
    PROVE  StartedInv(n)'
<1>0. Types /\ EndTypes /\ StatusStep(n)
  BY NextStatus, EndsTypes DEF Basics
<1>1. n \in loop'.nodes => n \in loop.nodes \/ status[n].initiated
  <2> USE DEF But
  <2>1. CASE Start
    BY <1>0, <2>1, StartDoes DEF Unlooped, ExitingNodes
  <2>2. CASE Finish \/ LoopFails \/ Flush \/ \E s \in Segments : Collect(s)
    BY <1>0, <2>2, FinishDoes, LoopFailsDoes, FlushDoes, CollectDoes
  <2>3. ASSUME ~Start, ~(Finish \/ LoopFails \/ Flush \/ \E s \in Segments : Collect(s))
        PROVE  loop' = loop
    <3>1. CASE \/ Connect(n) \/ FirstProgress(n) \/ SenderStep(n) \/ ReceiverStep(n)
               \/ SessionFails(n) \/ SessionNotices(n) \/ AuditDisqualifies(n)
      BY <1>0, <3>1, LoopStays
    <3>2. CASE (WorkerStep(n) \/ NodeCrash(n)) /\ NodeRest
      BY <3>2 DEF NodeRest, OfLoop
    <3>3. CASE But(n, {"pieces", "blobs"})
      BY <3>3
    <3> QED
      BY <1>0, <2>3, <3>1, <3>2, <3>3, Steps
  <2> QED
    BY <2>1, <2>2, <2>3
<1> QED
  BY <1>0, <1>1 DEF StartedInv, StatusStep, Looping

FinishedInv(n) ==
    session[n] = "open" /\ status[n].finished /\ receiver[n].at \notin {"announce", "clear"} =>
       /\ status[n].disqualified /\ ~status[n].success
       /\ ~(receiver[n].at = "record" /\ Verdict(n))

\* How the receiver gets to a verdict.
LEMMA ReceiverVerdict ==
    ASSUME Types, NEW n \in Exiting, EndsInv(n), EndTypes, ReceiverStep(n), session'[n] = "open",
           receiver'[n].at \notin {"announce", "clear"}
    PROVE  /\ receiver[n].at \notin {"announce", "record"}
           /\ receiver[n].at = "clear" => receiver[n].type = "invalid" /\ receiver'[n].at = "wait"
           /\ receiver'[n].at = "record" /\ Verdict(n)' =>
                 \/ receiver[n].at = "judge" /\ ~status[n].disqualified
                 \/ receiver[n].at = "disqualify" /\ Verdict(n)
<1> USE DEF But
<1>1. ASSUME NEW ms, ReturnWith(n, ms) PROVE FALSE
  BY <1>1 DEF ReturnWith, Types, SessionTypes
<1>2. ~Return(n)
  BY <1>1 DEF Return
<1>3. CASE Wait(n) \/ ReadFailed(n) \/ CountProgress(n) \/ Dequeue(n)
  <2>1. CASE Wait(n)
    BY <1>2, <2>1, WaitDoes
  <2>2. CASE ReadFailed(n)
    BY <1>2, <2>2, ReadFailedDoes
  <2>3. CASE CountProgress(n) \/ Dequeue(n)
    BY <1>2, <2>3, CountProgressDoes, DequeueDoes
  <2> QED
    BY <1>3, <2>1, <2>2, <2>3
<1>4. CASE ReadSucceeded(n) \/ ReadNotFound(n) \/ UpdateSegment(n) \/ RecvTimeout(n) \/ Forget(n)
  <2>1. CASE ReadSucceeded(n)
    BY <1>2, <2>1, ReadSucceededDoes
  <2>2. CASE ReadNotFound(n)
    BY <1>2, <2>2, ReadNotFoundDoes
  <2>3. CASE UpdateSegment(n) \/ RecvTimeout(n)
    BY <1>2, <2>3, UpdateDoes, RecvTimeoutDoes
  <2>4. CASE Forget(n)
    BY <1>2, <2>4, ForgetDoes
  <2> QED
    BY <1>4, <2>1, <2>2, <2>3, <2>4
<1>5. CASE Recv(n)
  BY <1>2, <1>5, RecvDoes
<1>6. CASE Judge(n)
  BY <1>1, <1>2, <1>6, JudgeDoes
<1>7. CASE Condemn(n)
  BY <1>7, CondemnDoes
<1>8. CASE DisqualifyNode(n)
  BY <1>8, DisqualifyDoes DEF Verdict
<1>9. CASE RecordOutcome(n) \/ Announce(n)
  BY <1>9, RecordDoes, AnnounceDoes
<1>10. CASE ClearQueue(n)
  BY <1>2, <1>10, ClearDoes
<1> QED
  BY <1>3, <1>4, <1>5, <1>6, <1>7, <1>8, <1>9, <1>10 DEF ReceiverStep

LEMMA NextOpen ==
    ASSUME Types, [Next]_vars, NEW n \in Exiting, ~ReceiverStep(n), session'[n] = "open"
    PROVE  \/ session[n] = "open" /\ receiver'[n] = receiver[n]
           \/ session[n] = "closed" /\ ~status[n].finished /\ status'[n] = status[n]
<1> USE DEF But
<1>1. ASSUME NEW ms, ReturnWith(n, ms) PROVE FALSE
  BY <1>1 DEF ReturnWith, Types, SessionTypes
<1>2. CASE SenderStep(n)
  BY <1>1, <1>2, SenderMoves DEF Return
<1>3. CASE Connect(n)
  BY <1>3, ConnectDoes
<1>4. CASE FirstProgress(n) \/ SessionFails(n) \/ SessionNotices(n)
  BY <1>1, <1>4, FirstProgressDoes, BreakDoes DEF Return
<1>5. CASE (WorkerStep(n) \/ NodeCrash(n)) /\ NodeRest
  BY <1>5 DEF NodeRest, sessionVars
<1>6. CASE \/ AuditDisqualifies(n) \/ Start \/ Flush \/ Finish \/ LoopFails
           \/ \E s \in Segments : Collect(s)
  BY <1>6, AuditDoes, StartDoes, FlushDoes, FinishDoes, LoopFailsDoes, CollectDoes
<1>7. CASE But(n, {"pieces", "blobs"})
  BY <1>7
<1> QED
  BY <1>2, <1>3, <1>4, <1>5, <1>6, <1>7, Steps

LEMMA NextFinished ==
    ASSUME Basics, dormant = {}, [Next]_vars, NEW n \in Exiting, OutcomeInv(n), FinishedInv(n)
    PROVE  FinishedInv(n)'
<1> SUFFICES ASSUME session'[n] = "open", status'[n].finished,
                    receiver'[n].at \notin {"announce", "clear"}
             PROVE  /\ status'[n].disqualified /\ ~status'[n].success
                    /\ ~(receiver'[n].at = "record" /\ Verdict(n)')
  BY DEF FinishedInv
<1>0. Types /\ EndTypes /\ EndsInv(n) /\ SessionInv(n) /\ StatusStep(n)
  BY NextStatus, EndsTypes DEF Basics, Ends, Sessions
<1>1. status[n].finished
  BY <1>0 DEF StatusStep
<1>2. CASE ReceiverStep(n)
  <2>1. session[n] = "open"
    BY <1>0, <1>2, Open
  <2>2. ~RecordOutcome(n)
    <3>1. RecordOutcome(n) => receiver'[n].at = "announce"
      BY <1>0, RecordDoes
    <3> QED
      BY <3>1
  <2>3. CASE receiver[n].at = "clear"
    <3>1. ~Verdict(n) /\ receiver'[n].at = "wait"
      BY <1>0, <1>2, <2>3, ReceiverVerdict DEF Verdict
    <3>2. status[n].disqualified /\ ~status[n].success
      BY <2>3, <3>1 DEF OutcomeInv
    <3> QED
      BY <1>0, <2>2, <3>1, <3>2 DEF StatusStep
  <2>4. CASE receiver[n].at # "clear"
    <3>1. receiver[n].at # "announce"
      BY <1>0, <1>2, ReceiverVerdict
    <3>2. status[n].disqualified /\ ~status[n].success
      BY <1>1, <2>1, <2>4, <3>1 DEF FinishedInv
    <3>3. ~(receiver'[n].at = "record" /\ Verdict(n)')
      BY <1>0, <1>2, <3>2, ReceiverVerdict DEF OutcomeInv
    <3> QED
      BY <1>0, <2>2, <3>2, <3>3 DEF StatusStep
  <2> QED
    BY <2>3, <2>4
<1>3. CASE ~ReceiverStep(n)
  <2>1. session[n] = "open" /\ receiver'[n] = receiver[n]
    BY <1>0, <1>1, <1>3, NextOpen
  <2>2. /\ status[n].disqualified /\ ~status[n].success
        /\ ~(receiver[n].at = "record" /\ Verdict(n))
    BY <1>1, <2>1 DEF FinishedInv
  <2>3. ~RecordOutcome(n)
    BY <1>3 DEF ReceiverStep
  <2> QED
    BY <1>0, <2>1, <2>2, <2>3 DEF StatusStep, Verdict
<1> QED
  BY <1>2, <1>3

LEMMA NextDormant ==
    ASSUME Sleepers = {}, dormant = {}, [Next]_vars
    PROVE  dormant' = {}
<1> USE DEF tables, OfNode, OfLoop
<1>1. ASSUME NEW n \in Exiting PROVE /\ \A b, c : IncrementProgress(n, b, c) => dormant' = {}
                                     /\ ~Lapse(n)
  BY DEF IncrementProgress, Lapse
<1>2. ASSUME NEW n \in Exiting, SenderStep(n) PROVE dormant' = {}
  BY <1>1, <1>2 DEF SenderStep, List, Discard, Trim, CountSend, Put, GiveUp, InvalidSegment,
     PieceGone, ReadSurplus, SendTransfer
<1>3. ASSUME NEW n \in Exiting, ReceiverStep(n) PROVE dormant' = {}
  BY <1>1, <1>3 DEF ReceiverStep, Wait, Recv, RecvTimeout, ReadSucceeded, ReadNotFound, ReadFailed,
     UpdateSegment, CountProgress, Dequeue, Forget, Judge, Condemn, DisqualifyNode,
     RecordOutcome, Announce, ClearQueue
<1>4. ASSUME NEW n \in Exiting,
             \/ Connect(n) \/ FirstProgress(n) \/ SessionFails(n) \/ SessionNotices(n)
             \/ NodeStep(n)
             \/ NodeCrash(n) /\ UNCHANGED <<tables, sessionVars, OfLoop, exhausted>>
             \/ AuditDisqualifies(n)
      PROVE  dormant' = {}
  BY <1>1, <1>4 DEF Connect, FirstProgress, SessionFails, SessionNotices, NodeStep, AuditDisqualifies
<1>5. CASE \/ Start \/ Flush \/ Finish \/ LoopFails
           \/ \E s \in Segments : Collect(s) \/ DeleteSegment(s)
           \/ \E p \in Piece, x \in Nodes : Repair(p, x)
  BY <1>5 DEF Start, Flush, Finish, LoopFails, Collect, DeleteSegment, Repair
<1>6. CASE UNCHANGED vars
  BY <1>6 DEF vars
<1> QED
  BY <1>1, <1>2, <1>3, <1>4, <1>5, <1>6 DEF Next

Awake == Settled /\ dormant = {} /\ \A n \in Exiting : StartedInv(n) /\ FinishedInv(n)

LEMMA InitAwake == Init => Awake
<1> SUFFICES ASSUME Init PROVE Awake
  OBVIOUS
<1>1. Settled /\ dormant = {}
  BY InitBasics, InitLeft, InitOutcome DEF Settled, Init
<1>2. ASSUME NEW n \in Exiting PROVE StartedInv(n) /\ FinishedInv(n)
  <2>1. status[n] = NoExit /\ loop = NotLooping
    BY DEF Init
  <2>2. ~status[n].looped /\ ~status[n].finished /\ loop.nodes = {}
    BY <2>1 DEF NoExit, NotLooping
  <2> QED
    BY <2>2 DEF StartedInv, FinishedInv
<1> QED
  BY <1>1, <1>2 DEF Awake

LEMMA NextAwake ==
    ASSUME ~Ranged, Sleepers = {}, Awake, [Next]_vars
    PROVE  Awake'
<1>1. Settled' /\ dormant' = {}
  BY NextBasics, NextLeft, NextOutcome, NextDormant DEF Settled, Awake
<1>2. ASSUME NEW n \in Exiting PROVE StartedInv(n)' /\ FinishedInv(n)'
  BY NextStarted, NextFinished DEF Settled, Awake
<1> QED
  BY <1>1, <1>2 DEF Awake

LEMMA Keeps ==
    ASSUME Awake, [Next]_vars, NEW n \in Exiting, status[n].finished
    PROVE  /\ status'[n].finished
           /\ status'[n].success # status[n].success
                => status[n].success /\ status[n].disqualified
<1>0. /\ Basics /\ StatusStep(n) /\ OutcomeInv(n) /\ StartedInv(n) /\ FinishedInv(n)
      /\ Types /\ EndTypes /\ Types' /\ SessionInv(n)
  BY NextStatus, NextBasics, EndsTypes DEF Awake, Settled, Basics, Sessions
<1>1. status[n].success \in BOOLEAN /\ status'[n].success \in BOOLEAN
  BY <1>0 DEF Types, TableTypes, Exits
<1>2. RecordOutcome(n) => status[n].disqualified /\ ~Verdict(n)
  <2>1. RecordOutcome(n) => session[n] = "open" /\ receiver[n].at = "record"
    BY <1>0, Open, RecordDoes DEF ReceiverStep
  <2> QED
    BY <2>1, <1>0 DEF FinishedInv
<1>3. status'[n].success => status[n].success
  BY <1>0, <1>2 DEF StatusStep
<1>4. status[n].success /\ ~status'[n].success => status[n].disqualified
  BY <1>0, <1>2 DEF StatusStep, StartedInv, OutcomeInv
<1> QED
  BY <1>0, <1>1, <1>3, <1>4 DEF StatusStep

\* The outcome of an exit is decided once, except that a disqualification takes
\* a success back (handleDisqualifiedNode), as long as no exit fails for
\* inactivity and the chore collects the pieces.
THEOREM OutcomesKept == ASSUME ~Ranged, Sleepers = {} PROVE Spec => OutcomeKept
<1>1. Init => Awake
  BY InitAwake
<1>2. Awake /\ [Next]_vars => Awake'
  BY NextAwake
<1>3. ASSUME Awake, [Next]_vars
      PROVE  [\A n \in Exiting : status[n].finished =>
                 /\ status'[n].finished
                 /\ status'[n].success # status[n].success
                       => status[n].success /\ status[n].disqualified]_vars
  BY <1>3, Keeps
<1> QED
  BY <1>1, <1>2, <1>3, PTL DEF Spec, OutcomeKept

-----------------------------------------------------------------------------
\* Nothing is forgotten.

Safe(n, p) == HoldsPiece(n, p) => p \in exhausted[n]
AllSafe(n) == \A p \in Piece : Safe(n, p)

\* An exit that cannot succeed any more.
Doomed(n) == status[n].disqualified \/ status[n].finished

\* The pieces of a node whose collection is over are queued.
Queued(n) ==
    status[n].looped /\ ~Doomed(n) =>
       \A p \in Piece : Safe(n, p) \/ p \in DOMAIN queue[n]

Collecting(n) ==
    loop.at = "collect" /\ n \in loop.nodes =>
       \A p \in Piece : \/ Safe(n, p) \/ Doomed(n) \/ p \in DOMAIN queue[n]
                        \/ p[1] \in loop.todo \/ <<n, p>> \in loop.buffer

Spent(n) ==
    \A p \in DOMAIN queue[n] : queue[n][p].failed >= MaxFailures => p \in exhausted[n]

SenderSafe(n) ==
    /\ sender[n].at = "discard" => Safe(n, sender[n].piece)
    /\ sender[n].at = "done" /\ ~Doomed(n) => AllSafe(n)

ReceiverSafe(n) ==
    /\ receiver[n].at = "judge" => sender[n].at = "done"
    /\ receiver[n].at = "dequeue" => receiver[n].type # "failed"
    /\ receiver[n].at = "record" /\ Verdict(n) => AllSafe(n)

SuccessSafe(n) == status[n].success => AllSafe(n)

LEMMA ExhaustedGrows ==
    ASSUME Types, EndTypes, [Next]_vars, NEW n \in Exiting
    PROVE  exhausted[n] \subseteq exhausted'[n]
<1> USE DEF But
<1>1. CASE SenderStep(n)
  <2>1. ASSUME NEW p \in DOMAIN sender[n].batch, GiveUp(n, p)
        PROVE  exhausted[n] \subseteq exhausted'[n]
    BY <2>1, GiveUpDoes
  <2>2. ASSUME NEW p \in DOMAIN sender[n].batch,
               InvalidSegment(n, p) \/ PieceGone(n, p) \/ ReadSurplus(n, p) \/ SendTransfer(n, p)
        PROVE  exhausted' = exhausted
    BY <2>2 DEF InvalidSegment, PieceGone, ReadSurplus, SendTransfer
  <2>3. CASE List(n) \/ Discard(n) \/ Trim(n) \/ CountSend(n) \/ Put(n)
    BY <2>3 DEF List, Discard, Trim, CountSend, Put
  <2> QED
    BY <1>1, <2>1, <2>2, <2>3 DEF SenderStep
<1>2. CASE ReceiverStep(n)
  <2>1. CASE ReadFailed(n)
    BY <2>1, ReadFailedDoes DEF ReturnFields
  <2>2. CASE ~ReadFailed(n)
    BY <1>2, <2>2 DEF ReceiverStep, Wait, Recv, RecvTimeout, ReadSucceeded, ReadNotFound,
       UpdateSegment, CountProgress, Dequeue, Forget, Judge, Condemn, DisqualifyNode,
       RecordOutcome, Announce, ClearQueue
  <2> QED
    BY <2>1, <2>2
<1>3. CASE Connect(n) \/ FirstProgress(n) \/ SessionFails(n) \/ SessionNotices(n)
  BY <1>3 DEF Connect, FirstProgress, SessionFails, SessionNotices
<1>4. CASE (WorkerStep(n) \/ NodeCrash(n)) /\ NodeRest
  BY <1>4 DEF NodeRest
<1>5. CASE \/ AuditDisqualifies(n) \/ Start \/ Flush \/ Finish \/ LoopFails
           \/ \E s \in Segments : Collect(s)
  BY <1>5 DEF AuditDisqualifies, Start, Flush, Finish, LoopFails, Collect
<1>6. CASE But(n, {"pieces", "blobs"})
  BY <1>6
<1> QED
  <2> HIDE DEF But
  <2> QED
    BY <1>1, <1>2, <1>3, <1>4, <1>5, <1>6, Steps

LEMMA SafeStays ==
    ASSUME Basics, [Next]_vars, NEW n \in Exiting, NEW p \in Piece, Safe(n, p)
    PROVE  Safe(n, p)'
<1>1. Types /\ EndTypes
  BY EndsTypes DEF Basics
<1>2. exhausted[n] \subseteq exhausted'[n]
  BY <1>1, ExhaustedGrows
<1>3. HoldsPiece(n, p)' => HoldsPiece(n, p)
  BY Onward
<1> QED
  BY <1>2, <1>3 DEF Safe

LEMMA AllSafeStays ==
    ASSUME Basics, [Next]_vars, NEW n \in Exiting, AllSafe(n)
    PROVE  AllSafe(n)'
BY SafeStays DEF AllSafe

LEMMA DoomedStays ==
    ASSUME Basics, [Next]_vars, NEW n \in Exiting, Doomed(n)
    PROVE  Doomed(n)'
BY NextStatus DEF Doomed, StatusStep

-----------------------------------------------------------------------------
\* What a step may do to the queue of a node.

\* No item is used up but by the receiver.
ItemsKnown(n) ==
    \A p \in DOMAIN queue'[n] : queue'[n][p].failed >= MaxFailures =>
       \/ p \in DOMAIN queue[n] /\ queue[n][p].failed >= MaxFailures
       \/ p \in exhausted'[n]

Removable(n, p) ==
    \/ sender[n].at = "discard" /\ p = sender[n].piece
    \/ ~HoldsPiece(n, p)
    \/ receiver[n].at = "dequeue" /\ p = receiver[n].piece
    \/ status[n].disqualified
    \/ receiver[n].at = "clear"
    \/ n \in dormant

QueueStep(n) ==
    /\ ItemsKnown(n)
    /\ \A p \in DOMAIN queue[n] : p \in DOMAIN queue'[n] \/ Removable(n, p)

LEMMA QueueSame ==
    ASSUME NEW n \in Exiting, queue'[n] = queue[n]
    PROVE  QueueStep(n)
BY DEF QueueStep, ItemsKnown

LEMMA QueueEmptied ==
    ASSUME NEW n \in Exiting, queue'[n] = <<>>,
           status[n].disqualified \/ receiver[n].at = "clear" \/ n \in dormant
    PROVE  QueueStep(n)
BY EmptyIs DEF QueueStep, ItemsKnown, Removable

LEMMA QueueWithout ==
    ASSUME NEW n \in Exiting, NEW p, queue'[n] = Without(queue[n], p), Removable(n, p)
    PROVE  QueueStep(n)
BY DEF QueueStep, ItemsKnown, Without

LEMMA QueueSender ==
    ASSUME Types, NEW n \in Exiting, SenderStep(n)
    PROVE  QueueStep(n)
<1> USE DEF But
<1>1. CASE Discard(n)
  BY <1>1, DiscardDoes, QueueWithout DEF Removable
<1>2. CASE CountSend(n)
  <2>1. CASE sender[n].piece \notin DOMAIN queue[n]
    BY <1>2, <2>1, CountSendDoes, QueueSame
  <2>2. CASE sender[n].piece \in DOMAIN queue[n]
    <3>0. queue[n] \in Queues
      BY DEF Types, TableTypes
    <3>1. queue'[n] = [queue[n] EXCEPT ![sender[n].piece].sent = @ + 1]
      BY <1>2, <2>2, CountSendDoes
    <3>2. /\ DOMAIN queue'[n] = DOMAIN queue[n]
          /\ \A p \in DOMAIN queue[n] : queue'[n][p].failed = queue[n][p].failed
      BY <3>0, <3>1, QueueIs DEF Queues, Items
    <3> QED
      BY <3>2 DEF QueueStep, ItemsKnown
  <2> QED
    BY <2>1, <2>2
<1>3. CASE List(n) \/ Trim(n) \/ Put(n)
  BY <1>3, ListDoes, TrimDoes, PutDoes, QueueSame DEF ReturnFields
<1>4. ASSUME NEW p \in DOMAIN sender[n].batch, PieceGone(n, p)
      PROVE  QueueStep(n)
  BY <1>4, PieceGoneDoes, QueueWithout DEF Removable
<1>5. ASSUME NEW p \in DOMAIN sender[n].batch,
             GiveUp(n, p) \/ InvalidSegment(n, p) \/ ReadSurplus(n, p) \/ SendTransfer(n, p)
      PROVE  QueueStep(n)
  BY <1>5, QueueSame DEF GiveUp, InvalidSegment, ReadSurplus, SendTransfer, tables
<1> QED
  BY <1>1, <1>2, <1>3, <1>4, <1>5 DEF SenderStep

LEMMA QueueReceiver ==
    ASSUME Types, NEW n \in Exiting, ReceiverStep(n)
    PROVE  QueueStep(n)
<1> USE DEF But
<1>1. CASE ReadFailed(n)
  <2>1. CASE queue'[n] = queue[n]
    BY <2>1, QueueSame
  <2>2. CASE queue'[n] # queue[n]
    <3>0. queue[n] \in Queues /\ receiver[n].piece \in DOMAIN queue[n]
      BY <1>1, <2>2, ReadFailedDoes DEF Types, TableTypes, ReturnFields
    <3>1. PICK count : /\ count = queue[n][receiver[n].piece].failed + 1
                       /\ queue'[n] = [queue[n] EXCEPT ![receiver[n].piece].failed = count]
                       /\ exhausted'[n] = IF count < MaxFailures THEN exhausted[n]
                                          ELSE exhausted[n] \union {receiver[n].piece}
      BY <1>1, <2>2, ReadFailedDoes DEF ReturnFields
    <3>2. count \in Nat /\ MaxFailures \in Nat
      BY <3>0, <3>1, QueueIs, GracefulExitAssumption DEF Items
    <3>3. /\ DOMAIN queue'[n] = DOMAIN queue[n]
          /\ \A p \in DOMAIN queue[n] : p # receiver[n].piece => queue'[n][p] = queue[n][p]
          /\ queue'[n][receiver[n].piece].failed = count
      BY <3>0, <3>1, QueueIs DEF Queues, Items
    <3> QED
      BY <3>1, <3>2, <3>3 DEF QueueStep, ItemsKnown
  <2> QED
    BY <2>1, <2>2
<1>2. CASE Dequeue(n)
  BY <1>2, DequeueDoes, QueueWithout DEF Removable
<1>3. CASE Judge(n)
  BY <1>3, JudgeDoes, QueueEmptied, QueueSame DEF ReturnFields
<1>4. CASE ClearQueue(n)
  BY <1>4, ClearDoes, QueueEmptied
<1>5. CASE ~(ReadFailed(n) \/ Dequeue(n) \/ Judge(n) \/ ClearQueue(n))
  <2>1. queue' = queue
    BY <1>5 DEF ReceiverStep, Wait, Recv, RecvTimeout, ReadSucceeded, ReadNotFound,
       UpdateSegment, CountProgress, Forget, Condemn, DisqualifyNode, RecordOutcome,
       Announce, tables
  <2> QED
    BY <2>1, QueueSame
<1> QED
  BY <1>1, <1>2, <1>3, <1>4, <1>5

LEMMA NextQueue ==
    ASSUME Types, [Next]_vars, NEW n \in Exiting
    PROVE  QueueStep(n)
<1> USE DEF But
<1>1. CASE SenderStep(n) \/ ReceiverStep(n)
  BY <1>1, QueueSender, QueueReceiver
<1>2. CASE Connect(n)
  BY <1>2, ConnectDoes, QueueEmptied, QueueSame
<1>3. CASE FirstProgress(n) \/ SessionFails(n) \/ SessionNotices(n)
  BY <1>3, FirstProgressDoes, BreakDoes, QueueSame DEF ReturnFields
<1>4. CASE (WorkerStep(n) \/ NodeCrash(n)) /\ NodeRest
  BY <1>4, QueueSame DEF NodeRest, tables
<1>5. CASE Start
  BY <1>5, StartDoes, QueueEmptied, QueueSame
<1>6. CASE Flush
  <2>1. \A p \in DOMAIN queue'[n] :
           \/ p \in DOMAIN queue[n] /\ queue'[n][p] = queue[n][p]
           \/ queue'[n][p] = [failed |-> 0, sent |-> 0]
    BY <1>6, FlushDoes
  <2>2. DOMAIN queue[n] \subseteq DOMAIN queue'[n]
    BY <1>6, FlushDoes
  <2>3. ~([failed |-> 0, sent |-> 0].failed >= MaxFailures)
    BY GracefulExitAssumption
  <2> QED
    BY <2>1, <2>2, <2>3 DEF QueueStep, ItemsKnown
<1>7. CASE AuditDisqualifies(n) \/ Finish \/ LoopFails \/ \E s \in Segments : Collect(s)
  BY <1>7, AuditDoes, FinishDoes, LoopFailsDoes, CollectDoes, QueueSame
<1>8. CASE But(n, {"pieces", "blobs"})
  BY <1>8, QueueSame
<1> QED
  <2> HIDE DEF But
  <2> QED
    BY <1>1, <1>2, <1>3, <1>4, <1>5, <1>6, <1>7, <1>8, Steps

-----------------------------------------------------------------------------
\* What a step may do to the two ends of a session, and to the loop.

LEMMA EndsStay ==
    ASSUME Types, [Next]_vars, NEW n \in Exiting, ~SenderStep(n), ~ReceiverStep(n)
    PROVE  \/ sender'[n] = sender[n] /\ receiver'[n] = receiver[n]
           \/ /\ sender'[n].at \in {"idle", "list"}
              /\ receiver'[n].at \in {"idle", "wait"}
<1> USE DEF But
<1>1. ASSUME NEW ms, ReturnWith(n, ms)
      PROVE  sender'[n].at = "idle" /\ receiver'[n].at = "idle"
  BY <1>1 DEF ReturnWith, NotSending, NotReceiving, Types, SessionTypes
<1>2. CASE Connect(n)
  BY <1>2, ConnectDoes
<1>3. CASE FirstProgress(n) \/ SessionFails(n) \/ SessionNotices(n)
  BY <1>1, <1>3, FirstProgressDoes, BreakDoes DEF Return
<1>4. CASE (WorkerStep(n) \/ NodeCrash(n)) /\ NodeRest
  BY <1>4 DEF NodeRest, sessionVars
<1>5. CASE \/ AuditDisqualifies(n) \/ Start \/ Flush \/ Finish \/ LoopFails
           \/ \E s \in Segments : Collect(s)
  BY <1>5, AuditDoes, StartDoes, FlushDoes, FinishDoes, LoopFailsDoes, CollectDoes
<1>6. CASE But(n, {"pieces", "blobs"})
  BY <1>6
<1> QED
  <2> HIDE DEF But
  <2> QED
    BY <1>2, <1>3, <1>4, <1>5, <1>6, Steps

LEMMA GoneIs ==
    ASSUME NEW n \in Exiting, NEW p \in Piece, ~Exists(p[1])
    PROVE  ~HoldsPiece(n, p)
BY NotOthers DEF Exists, Holders, Held, HoldsPiece, Piece

\* How the sender gets to an item to discard, and to its end.
LEMMA SenderGets ==
    ASSUME ~Flaky, Types, EndTypes, NEW n \in Exiting, SenderStep(n)
    PROVE  /\ sender[n].at # "done"
           /\ receiver'[n] = receiver[n] \/ receiver'[n].at = "idle"
           /\ sender'[n].at = "done" => Incomplete(queue[n]) = {} /\ queue'[n] = queue[n]
           /\ sender'[n].at = "discard" => Safe(n, sender[n].piece)'
<1> USE DEF But
<1>0. DOMAIN sender[n].batch \subseteq Piece
  BY InBatch
<1>1. ASSUME Return(n) PROVE sender'[n].at = "idle" /\ receiver'[n].at = "idle"
  <2>1. sender'[n] = NotSending /\ receiver'[n] = NotReceiving
    BY <1>1, ReturnedEmpty
  <2> QED
    BY <2>1 DEF NotSending, NotReceiving
<1>2. CASE List(n)
  BY <1>2, ListDoes
<1>3. CASE Discard(n) \/ CountSend(n) \/ Put(n)
  BY <1>3, DiscardDoes, CountSendDoes, PutDoes, NextIs
<1>4. CASE Trim(n)
  <2>1. CASE Return(n)
    BY <1>1, <1>4, <2>1, TrimDoes
  <2>2. CASE ~Return(n)
    <3>1. PICK p \in Piece : p = sender[n].piece
      BY <1>0, <1>4, TrimDoes DEF EndTypes, Holding
    <3>2. /\ sender[n].at = "trim" /\ pieces' = Moved(p, None) /\ receiver'[n] = receiver[n]
          /\ sender'[n].at = "discard" /\ sender'[n].piece = p
      BY <1>4, <2>2, <3>1, TrimDoes
    <3>3. ~HoldsPiece(n, p)'
      BY <3>2, MovedHolds, NotOthers DEF HoldsPiece
    <3> QED
      BY <3>2, <3>3 DEF Safe
  <2> QED
    BY <2>1, <2>2
<1>5. ASSUME NEW p \in DOMAIN sender[n].batch, GiveUp(n, p)
      PROVE  /\ sender[n].at = "batch" /\ sender'[n].at = "discard" /\ receiver'[n] = receiver[n]
             /\ Safe(n, sender[n].piece)'
  BY <1>5, GiveUpDoes DEF Safe
<1>6. ASSUME NEW p \in DOMAIN sender[n].batch, InvalidSegment(n, p)
      PROVE  /\ sender[n].at = "batch" /\ sender'[n].at = "discard" /\ receiver'[n] = receiver[n]
             /\ Safe(n, sender[n].piece)'
  <2>1. ~HoldsPiece(n, p)
    BY <1>0, <1>6, InvalidDoes, GoneIs
  <2>2. ~HoldsPiece(n, p)'
    BY <1>6, <2>1, InvalidDoes DEF HoldsPiece
  <2> QED
    BY <1>6, <2>2, InvalidDoes DEF Safe
<1>7. ASSUME NEW p \in DOMAIN sender[n].batch, PieceGone(n, p)
      PROVE  sender[n].at = "batch" /\ sender'[n].at = "idle" /\ receiver'[n].at = "idle"
  BY <1>1, <1>7, PieceGoneDoes DEF PieceGone, Incoming, At
<1>8. ASSUME NEW p \in DOMAIN sender[n].batch, ReadSurplus(n, p) \/ SendTransfer(n, p)
      PROVE  /\ sender[n].at = "batch" /\ sender'[n].at \in {"trim", "count", "idle"}
             /\ receiver'[n] = receiver[n] \/ receiver'[n].at = "idle"
  BY <1>1, <1>8, ReadSurplusDoes, SendTransferDoes
<1> QED
  BY <1>2, <1>3, <1>4, <1>5, <1>6, <1>7, <1>8 DEF SenderStep

\* How the receiver gets to the end of the session.
LEMMA ReceiverGets ==
    ASSUME Types, NEW n \in Exiting, ReceiverStep(n)
    PROVE  \/ sender'[n].at = "idle" /\ receiver'[n].at = "idle"
           \/ /\ sender'[n] = sender[n]
              /\ receiver'[n].at = "judge" => sender[n].at = "done"
              /\ receiver'[n].at = "dequeue" => receiver'[n].type # "failed"
              /\ receiver'[n].at = "record" /\ Verdict(n)' =>
                    \/ receiver[n].at = "judge" /\ ~status[n].disqualified
                    \/ receiver[n].at = "disqualify" /\ Verdict(n)
<1> USE DEF But
<1>1. ASSUME NEW ms, ReturnWith(n, ms)
      PROVE  sender'[n].at = "idle" /\ receiver'[n].at = "idle"
  BY <1>1 DEF ReturnWith, NotSending, NotReceiving, Types, SessionTypes
<1>2. ASSUME Return(n) PROVE sender'[n].at = "idle" /\ receiver'[n].at = "idle"
  BY <1>1, <1>2 DEF Return
<1>3. CASE Wait(n)
  BY <1>3, WaitDoes
<1>4. CASE ReadFailed(n)
  BY <1>2, <1>4, ReadFailedDoes
<1>5. CASE CountProgress(n) \/ Dequeue(n)
  BY <1>5, CountProgressDoes, DequeueDoes
<1>6. CASE ReadSucceeded(n)
  BY <1>2, <1>6, ReadSucceededDoes
<1>7. CASE ReadNotFound(n)
  BY <1>2, <1>7, ReadNotFoundDoes
<1>8. CASE UpdateSegment(n)
  <2>1. Return(n) \/ (sender' = sender /\ receiver'[n].at = "progress")
    <3>1. receiver[n] \in Receivers
      BY InHand
    <3> QED
      BY <1>8, <3>1 DEF UpdateSegment, Rcv, Types, SessionTypes, Receivers
  <2> QED
    BY <1>2, <2>1
<1>9. CASE RecvTimeout(n)
  BY <1>2, <1>9, RecvTimeoutDoes
<1>10. CASE Forget(n)
  <2>1. sender' = sender /\ receiver'[n].at = "wait"
    BY <1>10, BackDoes DEF Forget
  <2> QED
    BY <2>1
<1>11. CASE Recv(n)
  BY <1>2, <1>11, RecvDoes
<1>12. CASE Judge(n)
  BY <1>1, <1>2, <1>12, JudgeDoes
<1>13. CASE Condemn(n)
  BY <1>13, CondemnDoes
<1>14. CASE DisqualifyNode(n)
  BY <1>14, DisqualifyDoes DEF Verdict
<1>15. CASE RecordOutcome(n) \/ Announce(n)
  BY <1>15, RecordDoes, AnnounceDoes
<1>16. CASE ClearQueue(n)
  BY <1>2, <1>16, ClearDoes
<1> QED
  BY <1>3, <1>4, <1>5, <1>6, <1>7, <1>8, <1>9, <1>10, <1>11, <1>12, <1>13, <1>14, <1>15, <1>16
     DEF ReceiverStep

Swept(n, s) ==
    /\ loop.at = "collect" /\ loop'.nodes = loop.nodes /\ loop'.todo = loop.todo \ {s}
    /\ loop.buffer \subseteq loop'.buffer
    /\ n \in loop.nodes => \A p \in Piece : p[1] = s /\ HoldsPiece(n, p) => <<n, p>> \in loop'.buffer

Flushed(n) ==
    /\ loop'.at = loop.at /\ loop'.nodes = loop.nodes /\ loop'.todo = loop.todo
    /\ \A p \in Piece : <<n, p>> \in loop.buffer => p \in DOMAIN queue'[n]

LEMMA NextLoop ==
    ASSUME Types, [Next]_vars, NEW n \in Exiting
    PROVE  \/ loop' = loop \/ loop'.todo = Segments \/ loop'.at = "idle"
           \/ Flushed(n) \/ \E s \in Segments : Swept(n, s)
<1>1. CASE Start
  BY <1>1, StartDoes
<1>2. CASE Finish \/ LoopFails
  BY <1>2, FinishDoes, LoopFailsDoes
<1>3. CASE Flush
  BY <1>3, FlushDoes DEF Flushed
<1>4. CASE \E s \in Segments : Collect(s)
  BY <1>4, CollectDoes DEF Swept
<1>5. CASE \/ Connect(n) \/ FirstProgress(n) \/ SenderStep(n) \/ ReceiverStep(n)
           \/ SessionFails(n) \/ SessionNotices(n) \/ AuditDisqualifies(n)
  BY <1>5, LoopStays
<1>6. CASE (WorkerStep(n) \/ NodeCrash(n)) /\ NodeRest
  BY <1>6 DEF NodeRest, OfLoop
<1>7. CASE But(n, {"pieces", "blobs"})
  BY <1>7 DEF But
<1> QED
  BY <1>1, <1>2, <1>3, <1>4, <1>5, <1>6, <1>7, Steps

-----------------------------------------------------------------------------
ForgottenInv(n) ==
    /\ Queued(n) /\ Collecting(n) /\ Spent(n)
    /\ SenderSafe(n) /\ ReceiverSafe(n) /\ SuccessSafe(n)

Mindful == Awake /\ \A n \in Exiting : ForgottenInv(n)

LEMMA MindfulIs ==
    ASSUME Mindful, [Next]_vars, NEW n \in Exiting
    PROVE  /\ Basics /\ Types /\ EndTypes /\ SessionInv(n) /\ EndsInv(n)
           /\ LeftInv(n) /\ OutcomeInv(n) /\ FinishedInv(n) /\ dormant = {}
           /\ StatusStep(n) /\ QueueStep(n) /\ ForgottenInv(n)
<1>1. /\ Basics /\ Types /\ EndTypes /\ SessionInv(n) /\ EndsInv(n)
      /\ LeftInv(n) /\ OutcomeInv(n) /\ FinishedInv(n) /\ dormant = {} /\ ForgottenInv(n)
  BY EndsTypes DEF Mindful, Awake, Settled, Basics, Sessions, Ends
<1> QED
  BY <1>1, NextStatus, NextQueue

\* An item that leaves the queue is of a piece that is not forgotten.
LEMMA RemovedSafe ==
    ASSUME Mindful, [Next]_vars, NEW n \in Exiting, NEW p \in DOMAIN queue[n],
           p \notin DOMAIN queue'[n]
    PROVE  Safe(n, p)' \/ Doomed(n)'
<1>0. /\ Basics /\ Types /\ LeftInv(n) /\ OutcomeInv(n) /\ dormant = {}
      /\ SenderSafe(n) /\ ReceiverSafe(n)
  BY MindfulIs DEF ForgottenInv
<1>1. Removable(n, p)
  BY MindfulIs DEF QueueStep
<1>2. p \in Piece
  BY <1>0, QueueIs DEF Types, TableTypes
<1>3. Safe(n, p) \/ Doomed(n)
  BY <1>0, <1>1 DEF Removable, SenderSafe, ReceiverSafe, LeftInv, Leaving, OutcomeInv, Safe, Doomed
<1> QED
  BY <1>0, <1>2, <1>3, SafeStays, DoomedStays

LEMMA NextQueued ==
    ASSUME Mindful, [Next]_vars, NEW n \in Exiting
    PROVE  Queued(n)'
<1> SUFFICES ASSUME status'[n].looped, ~Doomed(n)', NEW p \in Piece
             PROVE  Safe(n, p)' \/ p \in DOMAIN queue'[n]
  BY DEF Queued
<1>0. Basics /\ StatusStep(n) /\ Queued(n) /\ Collecting(n)
  BY MindfulIs DEF ForgottenInv
<1>1. ~Doomed(n)
  BY <1>0, DoomedStays
<1>2. Safe(n, p) \/ p \in DOMAIN queue[n]
  BY <1>0, <1>1 DEF StatusStep, Looping, Collected, Queued, Collecting
<1> QED
  BY <1>0, <1>2, SafeStays, RemovedSafe

LEMMA NextCollecting ==
    ASSUME Mindful, [Next]_vars, NEW n \in Exiting
    PROVE  Collecting(n)'
<1> SUFFICES ASSUME loop'.at = "collect", n \in loop'.nodes, NEW p \in Piece
             PROVE  \/ Safe(n, p)' \/ Doomed(n)' \/ p \in DOMAIN queue'[n]
                    \/ p[1] \in loop'.todo \/ <<n, p>> \in loop'.buffer
  BY DEF Collecting
<1>0. Basics /\ Types /\ Collecting(n) /\ p[1] \in Segments
  BY MindfulIs DEF ForgottenInv, Piece
<1>1. ASSUME Safe(n, p) \/ Doomed(n) \/ p \in DOMAIN queue[n]
      PROVE  Safe(n, p)' \/ Doomed(n)' \/ p \in DOMAIN queue'[n]
  BY <1>0, <1>1, SafeStays, DoomedStays, RemovedSafe
<1>2. CASE loop' = loop
  BY <1>0, <1>1, <1>2 DEF Collecting
<1>3. CASE loop'.todo = Segments
  BY <1>0, <1>3
<1>4. CASE loop'.at = "idle"
  BY <1>4
<1>5. CASE Flushed(n)
  BY <1>0, <1>1, <1>5 DEF Collecting, Flushed
<1>6. ASSUME NEW s \in Segments, Swept(n, s)
      PROVE  \/ Safe(n, p)' \/ Doomed(n)' \/ p \in DOMAIN queue'[n]
             \/ p[1] \in loop'.todo \/ <<n, p>> \in loop'.buffer
  <2>1. n \in loop.nodes /\ loop.at = "collect"
    BY <1>6 DEF Swept
  <2>2. CASE p[1] = s
    <3>1. <<n, p>> \in loop'.buffer \/ ~HoldsPiece(n, p)
      BY <1>6, <2>1, <2>2 DEF Swept
    <3> QED
      BY <1>1, <3>1 DEF Safe
  <2>3. CASE p[1] # s
    BY <1>0, <1>1, <1>6, <2>1, <2>3 DEF Collecting, Swept
  <2> QED
    BY <2>2, <2>3
<1> QED
  BY <1>0, <1>2, <1>3, <1>4, <1>5, <1>6, NextLoop

LEMMA NextSpent ==
    ASSUME Mindful, [Next]_vars, NEW n \in Exiting
    PROVE  Spent(n)'
<1>0. Types /\ EndTypes /\ ItemsKnown(n) /\ Spent(n)
  BY MindfulIs DEF ForgottenInv, QueueStep
<1>1. exhausted[n] \subseteq exhausted'[n]
  BY <1>0, ExhaustedGrows
<1> QED
  BY <1>0, <1>1 DEF Spent, ItemsKnown

LEMMA NextSenderSafe ==
    ASSUME ~Flaky, Mindful, [Next]_vars, NEW n \in Exiting
    PROVE  SenderSafe(n)'
<1>0. /\ Basics /\ Types /\ EndTypes /\ SessionInv(n) /\ EndsInv(n)
      /\ Queued(n) /\ Spent(n) /\ SenderSafe(n)
  BY MindfulIs DEF ForgottenInv
<1>1. CASE SenderStep(n)
  <2>1. sender'[n].at = "discard" => Safe(n, sender[n].piece)'
    BY <1>0, <1>1, SenderGets
  <2>2. ASSUME sender'[n].at = "done", ~Doomed(n)' PROVE AllSafe(n)'
    <3>1. Incomplete(queue[n]) = {} /\ status[n].looped /\ ~Doomed(n)
      BY <1>0, <1>1, <2>2, SenderGets, Open, DoomedStays DEF SessionInv
    <3>2. queue[n] \in Queues /\ MaxFailures \in Nat
      BY <1>0, GracefulExitAssumption DEF Types, TableTypes
    <3>3. \A p \in DOMAIN queue[n] : queue[n][p].failed >= MaxFailures
      BY <3>1, <3>2, QueueIs DEF Incomplete, Items
    <3>4. ASSUME NEW p \in Piece PROVE Safe(n, p)
      BY <1>0, <3>1, <3>3 DEF Queued, Spent, Safe
    <3> QED
      BY <1>0, <3>4, AllSafeStays DEF AllSafe
  <2> QED
    BY <2>1, <2>2 DEF SenderSafe
<1>2. CASE sender'[n].at \notin {"discard", "done"}
  BY <1>2 DEF SenderSafe
<1>3. CASE ~SenderStep(n) /\ sender'[n].at \in {"discard", "done"}
  <2>1. sender'[n] = sender[n]
    BY <1>0, <1>3, EndsStay, ReceiverGets
  <2>2. sender[n].at = "discard" => sender[n].piece \in Piece
    BY <1>0, InBatch DEF EndsInv, Holding
  <2>3. sender[n].at = "discard" => Safe(n, sender[n].piece)'
    <3>1. CASE sender[n].at = "discard"
      <4>1. PICK p \in Piece : p = sender[n].piece
        BY <2>2, <3>1
      <4>2. Safe(n, p)'
        BY <1>0, <3>1, <4>1, SafeStays DEF SenderSafe
      <4> QED
        BY <2>1, <4>1, <4>2 DEF Safe
    <3> QED
      BY <3>1
  <2>4. sender[n].at = "done" /\ ~Doomed(n)' => AllSafe(n)'
    BY <1>0, AllSafeStays, DoomedStays DEF SenderSafe
  <2> QED
    BY <2>1, <2>3, <2>4 DEF SenderSafe
<1> QED
  BY <1>1, <1>2, <1>3

LEMMA NextReceiverSafe ==
    ASSUME ~Flaky, Mindful, [Next]_vars, NEW n \in Exiting
    PROVE  ReceiverSafe(n)'
<1>0. /\ Basics /\ Types /\ EndTypes /\ SessionInv(n) /\ OutcomeInv(n) /\ FinishedInv(n)
      /\ SenderSafe(n) /\ ReceiverSafe(n)
  BY MindfulIs DEF ForgottenInv
<1>1. CASE receiver'[n].at \in {"idle", "wait"}
  BY <1>1 DEF ReceiverSafe
<1>2. CASE /\ receiver'[n] = receiver[n]
           /\ sender'[n] = sender[n] \/ sender[n].at # "done"
  <2>1. receiver[n].at = "record" /\ Verdict(n)' => AllSafe(n)'
    BY <1>0, <1>2, AllSafeStays DEF ReceiverSafe, Verdict
  <2> QED
    BY <1>0, <1>2, <2>1 DEF ReceiverSafe
<1>3. CASE ReceiverStep(n) /\ receiver'[n].at \notin {"idle", "wait"}
  <2>1. ASSUME receiver'[n].at = "record", Verdict(n)' PROVE AllSafe(n)'
    <3>1. receiver[n].at = "judge" /\ ~status[n].disqualified
      BY <1>0, <1>3, <2>1, ReceiverGets DEF OutcomeInv
    <3>2. ~status[n].finished /\ sender[n].at = "done"
      BY <1>0, <1>3, <3>1, Open DEF FinishedInv, ReceiverSafe
    <3> QED
      BY <1>0, <3>1, <3>2, AllSafeStays DEF SenderSafe, Doomed
  <2> QED
    BY <1>0, <1>3, <2>1, ReceiverGets DEF ReceiverSafe
<1>4. CASE SenderStep(n)
  BY <1>0, <1>1, <1>2, <1>4, SenderGets
<1>5. CASE ~SenderStep(n) /\ ~ReceiverStep(n)
  BY <1>0, <1>1, <1>2, <1>5, EndsStay
<1> QED
  BY <1>1, <1>3, <1>4, <1>5

LEMMA NextSuccess ==
    ASSUME Mindful, [Next]_vars, NEW n \in Exiting
    PROVE  SuccessSafe(n)'
<1>0. Basics /\ Types /\ StatusStep(n) /\ SuccessSafe(n) /\ ReceiverSafe(n)
  BY MindfulIs DEF ForgottenInv
<1>1. RecordOutcome(n) => receiver[n].at = "record"
  BY <1>0, RecordDoes
<1>2. status'[n].success => AllSafe(n)
  BY <1>0, <1>1 DEF StatusStep, SuccessSafe, ReceiverSafe
<1> QED
  BY <1>0, <1>2, AllSafeStays DEF SuccessSafe

LEMMA InitMindful == Init => Mindful
<1> SUFFICES ASSUME Init PROVE Mindful
  OBVIOUS
<1>1. ASSUME NEW n \in Exiting PROVE ForgottenInv(n)
  <2>1. /\ status[n] = NoExit /\ loop = NotLooping /\ queue[n] = <<>>
        /\ sender[n] = NotSending /\ receiver[n] = NotReceiving
    BY DEF Init
  <2>2. /\ ~status[n].looped /\ ~status[n].success /\ loop.at = "idle"
        /\ sender[n].at = "idle" /\ receiver[n].at = "idle" /\ DOMAIN queue[n] = {}
    BY <2>1, EmptyIs DEF NoExit, NotLooping, NotSending, NotReceiving
  <2> QED
    BY <2>2 DEF ForgottenInv, Queued, Collecting, Spent, SenderSafe, ReceiverSafe, SuccessSafe
<1> QED
  BY <1>1, InitAwake DEF Mindful

\* An exit succeeds only when every piece that the node still holds was given
\* up (the sender ends only on an empty or spent queue, and the receiver judges
\* only after it), as long as no exit fails for inactivity, the chore collects
\* the pieces, and a segment that cannot be read does not exist.
THEOREM NothingIsForgotten ==
    ASSUME ~Ranged, Sleepers = {}, ~Flaky PROVE Spec => []NothingForgotten
<1>1. Init => Mindful
  BY InitMindful
<1>2. Mindful /\ [Next]_vars => Mindful'
  <2> SUFFICES ASSUME Mindful, [Next]_vars PROVE Mindful'
    OBVIOUS
  <2>1. Awake'
    BY NextAwake DEF Mindful
  <2>2. ASSUME NEW n \in Exiting PROVE ForgottenInv(n)'
    BY NextQueued, NextCollecting, NextSpent, NextSenderSafe, NextReceiverSafe, NextSuccess
       DEF ForgottenInv
  <2> QED
    BY <2>1, <2>2 DEF Mindful
<1>3. Mindful => NothingForgotten
  BY DEF Mindful, ForgottenInv, SuccessSafe, AllSafe, Safe, NothingForgotten
<1> QED
  BY <1>1, <1>2, <1>3, PTL DEF Spec

-----------------------------------------------------------------------------
\* Transfers and their answers.  A piece that was sent is on its way to the
\* node, at work there, or answered, and each of these only once, until the
\* receiver is done with the answer.

Picked(s, T) == {s[i].piece : i \in {j \in DOMAIN s : s[j].type \in T}}
Single(s, T) ==
    \A i, j \in DOMAIN s :
       s[i].type \in T /\ s[j].type \in T /\ s[i].piece = s[j].piece => i = j

LEMMA PickedTail ==
    ASSUME NEW S, NEW s \in Seq(S), s # <<>>, NEW T
    PROVE  /\ Picked(Tail(s), T) \subseteq Picked(s, T)
           /\ Head(s).type \in T => Head(s).piece \in Picked(s, T)
           /\ Single(s, T) => Single(Tail(s), T)
           /\ Single(s, T) /\ Head(s).type \in T => Head(s).piece \notin Picked(Tail(s), T)
<1>0. /\ Head(s) = s[1] /\ Len(s) \in Nat /\ Len(s) > 0 /\ Len(Tail(s)) = Len(s) - 1
      /\ \A i \in 1 .. Len(Tail(s)) : Tail(s)[i] = s[i + 1]
      /\ DOMAIN s = 1 .. Len(s) /\ DOMAIN Tail(s) = 1 .. Len(Tail(s))
  BY HeadIs
<1>1. \A i \in DOMAIN Tail(s) : i + 1 \in DOMAIN s /\ Tail(s)[i] = s[i + 1] /\ i + 1 # 1
  BY <1>0
<1>2. 1 \in DOMAIN s
  BY <1>0
<1>3. Picked(Tail(s), T) \subseteq Picked(s, T)
  BY <1>1 DEF Picked
<1>4. Head(s).type \in T => Head(s).piece \in Picked(s, T)
  BY <1>0, <1>2 DEF Picked
<1>5. ASSUME Single(s, T) PROVE Single(Tail(s), T)
  <2> SUFFICES ASSUME NEW i \in DOMAIN Tail(s), NEW j \in DOMAIN Tail(s),
                      Tail(s)[i].type \in T, Tail(s)[j].type \in T,
                      Tail(s)[i].piece = Tail(s)[j].piece
               PROVE  i = j
    BY DEF Single
  <2>1. i + 1 = j + 1
    BY <1>1, <1>5 DEF Single
  <2> QED
    BY <1>0, <2>1
<1>6. ASSUME Single(s, T), Head(s).type \in T, Head(s).piece \in Picked(Tail(s), T)
      PROVE  FALSE
  <2>1. PICK i \in DOMAIN Tail(s) : Tail(s)[i].type \in T /\ Tail(s)[i].piece = Head(s).piece
    BY <1>6 DEF Picked
  <2> QED
    BY <1>0, <1>1, <1>2, <1>6, <2>1 DEF Single
<1> QED
  BY <1>3, <1>4, <1>5, <1>6

LEMMA PickedAppend ==
    ASSUME NEW S, NEW s \in Seq(S), NEW m \in S, NEW T
    PROVE  /\ Picked(Append(s, m), T) = Picked(s, T) \union (IF m.type \in T THEN {m.piece} ELSE {})
           /\ Single(s, T) /\ (m.type \in T => m.piece \notin Picked(s, T)) => Single(Append(s, m), T)
<1> DEFINE t == Append(s, m)
<1>0. /\ Len(s) \in Nat /\ DOMAIN s = 1 .. Len(s) /\ DOMAIN t = 1 .. Len(s) + 1
      /\ t[Len(s) + 1] = m /\ \A i \in 1 .. Len(s) : t[i] = s[i]
  OBVIOUS
<1>1. /\ DOMAIN t = DOMAIN s \union {Len(s) + 1} /\ Len(s) + 1 \notin DOMAIN s
      /\ \A i \in DOMAIN s : t[i] = s[i]
  BY <1>0
<1> HIDE DEF t
<1>2. Picked(t, T) = Picked(s, T) \union (IF m.type \in T THEN {m.piece} ELSE {})
  BY <1>0, <1>1 DEF Picked
<1>3. ASSUME Single(s, T), m.type \in T => m.piece \notin Picked(s, T)
      PROVE  Single(t, T)
  <2>1. \A i \in DOMAIN s : s[i].type \in T => s[i].piece \in Picked(s, T)
    BY DEF Picked
  <2>2. \A i \in DOMAIN s : s[i].type \in T /\ m.type \in T => s[i].piece # m.piece
    BY <1>3, <2>1
  <2> QED
    BY <1>0, <1>1, <1>3, <2>2 DEF Single
<1> QED
  BY <1>2, <1>3 DEF t

LEMMA PickedNone ==
    ASSUME NEW T
    PROVE  Picked(<<>>, T) = {} /\ Single(<<>>, T)
BY DEF Picked, Single

Handling == {"read", "update", "progress", "dequeue", "forget"}

Asked(n) == Picked(toNode[n], {"transfer"})
Working(n) == {m.piece : m \in {j \in jobs[n] : j.type = "transfer"}}
Replied(n) == Picked(toSat[n], AnswerTypes)
Taken(n) == IF receiver[n].at \in Handling THEN {receiver[n].piece} ELSE {}
Outstanding(n) == Asked(n) \union Working(n) \union Replied(n) \union Taken(n)

Sending(n) == IF sender[n].at \in {"count", "put"} THEN {sender[n].piece} ELSE {}
Expected(n) == DOMAIN pending[n] \union Sending(n)

OnceEach(n) ==
    /\ Single(toNode[n], {"transfer"})
    /\ Single(toSat[n], AnswerTypes)
    /\ \A l, m \in jobs[n] : l.type = "transfer" /\ m.type = "transfer" /\ l.piece = m.piece
                                => l = m

Apart(n) ==
    /\ Asked(n) \cap (Working(n) \union Replied(n) \union Taken(n)) = {}
    /\ Working(n) \cap (Replied(n) \union Taken(n)) = {}
    /\ Replied(n) \cap Taken(n) = {}

Channels(n) == OnceEach(n) /\ Apart(n) /\ Outstanding(n) \subseteq Expected(n)

LEMMA ChannelsLess ==
    ASSUME NEW n \in Exiting, Channels(n), OnceEach(n)',
           Asked(n)' \subseteq Asked(n), Working(n)' \subseteq Working(n),
           Replied(n)' \subseteq Replied(n), Taken(n)' \subseteq Taken(n),
           Expected(n) \subseteq Expected(n)' \union (Taken(n) \ Taken(n)')
    PROVE  Channels(n)'
<1>1. Apart(n)'
  BY DEF Channels, Apart
<1>2. (Taken(n) \ Taken(n)') \cap Outstanding(n)' = {}
  BY DEF Channels, Apart, Outstanding
<1>3. Outstanding(n)' \subseteq Outstanding(n)
  BY DEF Outstanding
<1> QED
  BY <1>1, <1>2, <1>3 DEF Channels

LEMMA WorkingIs ==
    ASSUME NEW n \in Exiting, NEW m
    PROVE  /\ jobs'[n] = jobs[n] => Working(n)' = Working(n)
           /\ jobs'[n] = {} => Working(n)' = {}
           /\ jobs'[n] = jobs[n] \union {m} =>
                 Working(n)' = Working(n) \union (IF m.type = "transfer" THEN {m.piece} ELSE {})
           /\ jobs'[n] \subseteq jobs[n] => Working(n)' \subseteq Working(n)
<1>1. jobs'[n] = jobs[n] => Working(n)' = Working(n)
  BY DEF Working
<1>2. jobs'[n] = {} => Working(n)' = {}
  BY DEF Working
<1>3. jobs'[n] = jobs[n] \union {m} =>
         Working(n)' = Working(n) \union (IF m.type = "transfer" THEN {m.piece} ELSE {})
  BY DEF Working
<1>4. jobs'[n] \subseteq jobs[n] => Working(n)' \subseteq Working(n)
  BY DEF Working
<1> QED
  BY <1>1, <1>2, <1>3, <1>4

LEMMA WorkingDone ==
    ASSUME NEW n \in Exiting, OnceEach(n), NEW m \in jobs[n], m.type = "transfer",
           jobs'[n] = jobs[n] \ {m}
    PROVE  Working(n)' = Working(n) \ {m.piece} /\ m.piece \in Working(n)
BY DEF Working, OnceEach

\* The messages that do not ask for a transfer.
LEMMA AskedSame ==
    ASSUME Types, NEW n \in Exiting, Single(toNode[n], {"transfer"}),
           \/ toNode'[n] = toNode[n] \/ toNode'[n] = <<>>
           \/ \E m \in Messages : m.type # "transfer" /\ toNode'[n] = Append(toNode[n], m)
           \/ toNode[n] # <<>> /\ toNode'[n] = Tail(toNode[n])
    PROVE  Asked(n)' \subseteq Asked(n) /\ Single(toNode'[n], {"transfer"})
<1>0. toNode[n] \in Seq(Messages)
  BY DEF Types, StreamTypes
<1>1. CASE toNode'[n] = toNode[n]
  BY <1>1 DEF Asked
<1>2. CASE toNode'[n] = <<>>
  BY <1>2, PickedNone DEF Asked
<1>3. ASSUME NEW m \in Messages, m.type # "transfer", toNode'[n] = Append(toNode[n], m)
      PROVE  Asked(n)' \subseteq Asked(n) /\ Single(toNode'[n], {"transfer"})
  BY <1>0, <1>3, PickedAppend DEF Asked
<1>4. CASE toNode[n] # <<>> /\ toNode'[n] = Tail(toNode[n])
  BY <1>0, <1>4, PickedTail DEF Asked
<1> QED
  BY <1>1, <1>2, <1>3, <1>4

-----------------------------------------------------------------------------
\* The channels of an open session.

LEMMA ChannelsOpen ==
    ASSUME Types, NEW n \in Exiting, SessionInv(n), Connect(n), session'[n] = "open"
    PROVE  Channels(n)'
<1> USE DEF But
<1>1. /\ toSat'[n] = <<>> /\ toNode'[n] = <<>> /\ jobs'[n] = {}
      /\ sender'[n].at = "list" /\ receiver'[n].at = "wait"
  BY ConnectDoes DEF SessionInv
<1>2. /\ Asked(n)' = {} /\ Replied(n)' = {} /\ Single(toNode'[n], {"transfer"})
      /\ Single(toSat'[n], AnswerTypes)
  BY <1>1, PickedNone DEF Asked, Replied
<1>3. Working(n)' = {} /\ Taken(n)' = {}
  BY <1>1, WorkingIs DEF Taken, Handling
<1> QED
  BY <1>1, <1>2, <1>3 DEF Channels, OnceEach, Apart, Outstanding

Target(n, p) == IF p \in DOMAIN pending[n] THEN pending[n][p] ELSE sender[n].to

\* What is expected stays expected, at the same target.
Expecting(n) == \A p \in Expected(n) : p \in Expected(n)' /\ Target(n, p)' = Target(n, p)

LEMMA ExpectingMore ==
    ASSUME NEW n \in Exiting, pending'[n] = pending[n],
           Sending(n) = {} \/ (Sending(n)' = Sending(n) /\ sender'[n].to = sender[n].to)
    PROVE  Expecting(n)
BY DEF Expecting, Expected, Target

\* The sender expects the piece of a transfer that it has just sent.
Asks(n, p, x) ==
    /\ toNode'[n] = Append(toNode[n], Message("transfer", p, x))
    /\ p \in Piece /\ x \in Others
    /\ p \notin Expected(n) /\ p \in Expected(n)' /\ Target(n, p)' = x

LEMMA SenderExpects ==
    ASSUME Types, NEW n \in Exiting, EndsInv(n), SenderStep(n), ~Return(n)
    PROVE  /\ receiver'[n] = receiver[n] /\ toSat'[n] = toSat[n] /\ session'[n] = session[n]
           /\ jobs'[n] = jobs[n]
           /\ Expecting(n)
           /\ toNode'[n] = toNode[n] \/ \E p, x : Asks(n, p, x)
<1>0. DOMAIN sender[n].batch \subseteq Piece
  BY InBatch
<1>1. /\ receiver'[n] = receiver[n] /\ toSat'[n] = toSat[n] /\ session'[n] = session[n]
      /\ jobs'[n] = jobs[n]
  BY SenderMoves, SenderEffect
<1> USE DEF But
<1>2. CASE List(n) \/ Discard(n)
  BY <1>1, <1>2, ListDoes, DiscardDoes, ExpectingMore DEF Sending
<1>3. CASE Trim(n)
  BY <1>1, <1>3, TrimDoes, ExpectingMore DEF Sending
<1>4. CASE CountSend(n)
  BY <1>1, <1>4, CountSendDoes, ExpectingMore DEF Sending
<1>5. CASE Put(n)
  <2>1. /\ sender[n].at = "put" /\ sender'[n].at \in {"list", "batch"}
        /\ pending'[n] = With(pending[n], sender[n].piece, sender[n].to)
        /\ toNode'[n] = toNode[n]
    BY <1>5, PutDoes, NextIs
  <2>2. sender[n].piece \notin DOMAIN pending[n]
    BY <2>1 DEF EndsInv, Holding
  <2>3. /\ DOMAIN pending'[n] = DOMAIN pending[n] \union {sender[n].piece}
        /\ \A p \in DOMAIN pending[n] : pending'[n][p] = pending[n][p]
        /\ pending'[n][sender[n].piece] = sender[n].to
    BY <2>1, <2>2 DEF With
  <2>4. Expecting(n)
    BY <2>1, <2>2, <2>3 DEF Expecting, Expected, Sending, Target
  <2> QED
    BY <1>1, <2>1, <2>4
<1>6. ASSUME NEW p \in DOMAIN sender[n].batch,
             GiveUp(n, p) \/ InvalidSegment(n, p) \/ ReadSurplus(n, p) \/ PieceGone(n, p)
      PROVE  Expecting(n) /\ toNode'[n] = toNode[n]
  BY <1>6, GiveUpDoes, InvalidDoes, ReadSurplusDoes, PieceGoneDoes, ExpectingMore DEF Sending
<1>7. ASSUME NEW p \in DOMAIN sender[n].batch, SendTransfer(n, p)
      PROVE  Expecting(n) /\ (toNode'[n] = toNode[n] \/ \E x : Asks(n, p, x))
  <2>1. PICK x \in Others :
           /\ toNode'[n] = IF linked[n] THEN Append(toNode[n], Message("transfer", p, x))
                           ELSE toNode[n]
           /\ sender[n].at = "batch"
           /\ sender'[n].at = "count" /\ sender'[n].piece = p /\ sender'[n].to = x
           /\ pending'[n] = pending[n]
    BY <1>7, SendTransferDoes
  <2>2. p \notin DOMAIN pending[n]
    BY DEF EndsInv
  <2>3. p \notin Expected(n) /\ p \in Expected(n)' /\ Target(n, p)' = x
    BY <2>1, <2>2 DEF Expected, Sending, Target
  <2>4. Expecting(n)
    BY <2>1, ExpectingMore DEF Sending
  <2> QED
    BY <1>0, <2>1, <2>3, <2>4 DEF Asks
<1> QED
  BY <1>1, <1>2, <1>3, <1>4, <1>5, <1>6, <1>7, ListDoes, DiscardDoes, TrimDoes, CountSendDoes
     DEF SenderStep

LEMMA SenderChannels ==
    ASSUME Types, NEW n \in Exiting, EndsInv(n), SenderStep(n), ~Return(n), Channels(n)
    PROVE  Channels(n)'
<1>1. /\ receiver'[n] = receiver[n] /\ toSat'[n] = toSat[n] /\ jobs'[n] = jobs[n]
      /\ Expecting(n) /\ (toNode'[n] = toNode[n] \/ \E p, x : Asks(n, p, x))
  BY SenderExpects
<1>2. /\ Working(n)' = Working(n) /\ Replied(n)' = Replied(n) /\ Taken(n)' = Taken(n)
      /\ Expected(n) \subseteq Expected(n)'
  BY <1>1, WorkingIs DEF Replied, Taken, Expecting
<1>3. ASSUME Single(toNode'[n], {"transfer"}) PROVE OnceEach(n)'
  BY <1>1, <1>3 DEF Channels, OnceEach
<1>4. CASE toNode'[n] = toNode[n]
  <2>1. Single(toNode'[n], {"transfer"}) /\ Asked(n)' = Asked(n)
    BY <1>4 DEF Channels, OnceEach, Asked
  <2> QED
    BY <1>2, <1>3, <2>1, ChannelsLess
<1>5. ASSUME NEW p, NEW x, Asks(n, p, x)
      PROVE  Channels(n)'
  <2>1. /\ toNode[n] \in Seq(Messages) /\ Message("transfer", p, x) \in Messages
        /\ Message("transfer", p, x).type = "transfer" /\ Message("transfer", p, x).piece = p
    BY <1>5, MessageIs DEF Asks, Types, StreamTypes, Message
  <2>2. p \notin Outstanding(n) /\ p \in Expected(n)'
    BY <1>5 DEF Asks, Channels
  <2>3. Asked(n)' = Asked(n) \union {p} /\ Single(toNode'[n], {"transfer"})
    BY <1>5, <2>1, <2>2, PickedAppend DEF Asks, Asked, Channels, OnceEach, Outstanding
  <2>4. Apart(n)'
    BY <1>2, <2>2, <2>3 DEF Channels, Apart, Outstanding
  <2>5. Outstanding(n)' \subseteq Expected(n)'
    BY <1>2, <2>2, <2>3 DEF Channels, Outstanding
  <2> QED
    BY <1>3, <2>3, <2>4, <2>5 DEF Channels
<1> QED
  BY <1>1, <1>4, <1>5

\* The receiver has the answer of a success, or updates the segment after it.
Reading(n) == receiver[n].at \in {"read", "update"} /\ receiver[n].type = "succeeded"

\* The receiver takes an answer ...
Takes(n) ==
    /\ receiver[n].at \notin Handling
    /\ toSat[n] # <<>> /\ toSat'[n] = Tail(toSat[n])
    /\ toNode'[n] = toNode[n] /\ pending'[n] = pending[n]
    /\ receiver'[n].at \in Handling => receiver'[n].piece = Head(toSat[n]).piece
    /\ Reading(n)' => Head(toSat[n]).type = "succeeded"

\* ... and handles it.
Handles(n) ==
    /\ toSat'[n] = toSat[n]
    /\ \/ toNode'[n] = toNode[n]
       \/ \E m \in Messages : m.type # "transfer" /\ toNode'[n] = Append(toNode[n], m)
    /\ receiver'[n].at \in Handling =>
          receiver[n].at \in Handling /\ receiver'[n].piece = receiver[n].piece
    /\ Reading(n)' => Reading(n)
    /\ \/ pending'[n] = pending[n]
       \/ /\ receiver[n].at \in Handling /\ receiver'[n].at \notin Handling
          /\ pending'[n] = Without(pending[n], receiver[n].piece)

LEMMA ReceiverHandles ==
    ASSUME Types, EndTypes, NEW n \in Exiting, ReceiverStep(n), session'[n] = "open"
    PROVE  /\ Takes(n) \/ Handles(n)
           /\ sender'[n] = sender[n] /\ session'[n] = session[n] /\ jobs'[n] = jobs[n]
<1> USE DEF But
<1>1. ASSUME NEW ms, ReturnWith(n, ms) PROVE FALSE
  BY <1>1 DEF ReturnWith, Types, SessionTypes
<1>2. ~Return(n)
  BY <1>1 DEF Return
<1>3. sender'[n] = sender[n] /\ session'[n] = session[n] /\ jobs'[n] = jobs[n]
  BY <1>1, <1>2, ReceiverEffect
<1>4. CASE Wait(n)
  BY <1>4, WaitDoes DEF Handles, Handling, Reading
<1>5. CASE Recv(n)
  BY <1>2, <1>5, RecvDoes DEF Takes, Handling, Reading
<1>6. CASE RecvTimeout(n)
  BY <1>2, <1>6, RecvTimeoutDoes
<1>7. CASE ReadSucceeded(n)
  BY <1>2, <1>7, ReadSucceededDoes DEF Handles, Handling, Reading
<1>8. CASE ReadNotFound(n)
  BY <1>2, <1>8, ReadNotFoundDoes DEF Handles, Handling, Reading
<1>9. CASE ReadFailed(n)
  BY <1>2, <1>9, ReadFailedDoes DEF Handles, Handling, Reading
<1>10. CASE UpdateSegment(n)
  BY <1>2, <1>10, UpdateDoes DEF Handles, Handling, Reading
<1>11. CASE CountProgress(n)
  BY <1>11, CountProgressDoes DEF Handles, Handling, Reading
<1>12. CASE Dequeue(n)
  BY <1>12, DequeueDoes DEF Handles, Handling, Reading
<1>13. CASE Forget(n)
  <2>1. PICK m : m = Message("delete", receiver[n].piece, None)
    OBVIOUS
  <2>2. /\ receiver[n].at = "forget" /\ receiver'[n].at = "wait"
        /\ pending'[n] = Without(pending[n], receiver[n].piece) /\ toSat'[n] = toSat[n]
        /\ toNode'[n] = toNode[n] \/ toNode'[n] = Append(toNode[n], m)
    BY <1>13, <2>1, ForgetDoes
  <2>3. m \in Messages /\ m.type # "transfer"
    <3>1. receiver[n].piece \in Piece
      BY <2>2, InHand DEF EndTypes
    <3> QED
      BY <2>1, <3>1, MessageIs DEF Message
  <2> QED
    BY <1>3, <2>2, <2>3 DEF Handles, Handling, Reading
<1>14. CASE Judge(n)
  BY <1>1, <1>2, <1>14, JudgeDoes DEF Handles, Handling, Reading
<1>15. CASE Condemn(n)
  BY <1>15, CondemnDoes DEF Handles, Handling, Reading
<1>16. CASE DisqualifyNode(n) \/ RecordOutcome(n)
  BY <1>16, DisqualifyDoes, RecordDoes DEF Handles, Handling, Reading
<1>17. CASE Announce(n)
  <2>1. PICK m : m = Finished(Verdict(n))
    OBVIOUS
  <2>2. m \in Messages /\ m.type # "transfer"
    BY <2>1, MessageIs, GivenTypes
  <2> QED
    BY <1>17, <2>1, <2>2, AnnounceDoes DEF Handles, Handling, Reading
<1>18. CASE ClearQueue(n)
  BY <1>2, <1>18, ClearDoes DEF Handles, Handling, Reading
<1> QED
  BY <1>3, <1>4, <1>5, <1>6, <1>7, <1>8, <1>9, <1>10, <1>11, <1>12, <1>13, <1>14, <1>15, <1>16,
     <1>17, <1>18 DEF ReceiverStep

LEMMA ReceiverChannels ==
    ASSUME Types, NEW n \in Exiting, Channels(n), sender'[n] = sender[n], jobs'[n] = jobs[n],
           Takes(n) \/ Handles(n)
    PROVE  Channels(n)'
<1>0. /\ toNode[n] \in Seq(Messages) /\ toSat[n] \in Seq(Answers) /\ OnceEach(n)
      /\ Working(n)' = Working(n) /\ Sending(n)' = Sending(n)
  BY WorkingIs DEF Types, StreamTypes, Channels, Sending
<1>1. CASE Takes(n)
  <2>1. PICK q : q = Head(toSat[n]).piece
    OBVIOUS
  <2>2. Head(toSat[n]).type \in AnswerTypes
    <3>1. Head(toSat[n]) \in Answers
      BY <1>0, <1>1, HeadIs DEF Takes
    <3> QED
      BY <3>1 DEF Answers
  <2>3. /\ Replied(n)' \subseteq Replied(n) \ {q} /\ q \in Replied(n)
        /\ Single(toSat'[n], AnswerTypes)
    BY <1>0, <1>1, <2>1, <2>2, PickedTail DEF Takes, Replied, OnceEach
  <2>4. /\ Taken(n) = {} /\ Taken(n)' \subseteq {q} /\ Asked(n)' = Asked(n)
        /\ Expected(n)' = Expected(n)
    BY <1>0, <1>1, <2>1 DEF Takes, Taken, Asked, Expected
  <2>5. OnceEach(n)'
    BY <1>0, <1>1, <2>3 DEF Takes, OnceEach
  <2>6. Apart(n)'
    BY <1>0, <2>3, <2>4 DEF Channels, Apart
  <2>7. Outstanding(n)' \subseteq Expected(n)'
    BY <1>0, <2>3, <2>4 DEF Channels, Outstanding
  <2> QED
    BY <2>5, <2>6, <2>7 DEF Channels
<1>2. CASE Handles(n)
  <2>1. Asked(n)' \subseteq Asked(n) /\ Single(toNode'[n], {"transfer"})
    BY <1>0, <1>2, AskedSame DEF Handles, OnceEach
  <2>2. Replied(n)' = Replied(n) /\ Single(toSat'[n], AnswerTypes) /\ Taken(n)' \subseteq Taken(n)
    BY <1>0, <1>2 DEF Handles, OnceEach, Replied, Taken
  <2>3. Expected(n) \subseteq Expected(n)' \union (Taken(n) \ Taken(n)')
    <3>1. CASE pending'[n] = pending[n]
      BY <1>0, <3>1 DEF Expected
    <3>2. CASE pending'[n] # pending[n]
      <4>1. /\ receiver[n].at \in Handling /\ receiver'[n].at \notin Handling
            /\ pending'[n] = Without(pending[n], receiver[n].piece)
        BY <1>2, <3>2 DEF Handles
      <4>2. DOMAIN pending'[n] = DOMAIN pending[n] \ {receiver[n].piece}
        BY <4>1, ForgetIs
      <4> QED
        BY <1>0, <4>1, <4>2 DEF Expected, Taken
    <3> QED
      BY <3>1, <3>2
  <2>4. OnceEach(n)'
    BY <1>0, <2>1, <2>2 DEF OnceEach
  <2> QED
    BY <1>0, <2>1, <2>2, <2>3, <2>4, ChannelsLess
<1> QED
  BY <1>1, <1>2

LEMMA RestSame ==
    ASSUME Types, NEW n \in Exiting, NodeRest
    PROVE  /\ Taken(n)' = Taken(n) /\ Expected(n)' = Expected(n)
           /\ \A p : Target(n, p)' = Target(n, p)
           /\ session'[n] = session[n] /\ (Reading(n)' <=> Reading(n))
           /\ receiver'[n] = receiver[n]
BY DEF NodeRest, sessionVars, Taken, Expected, Sending, Target, Reading

LEMMA TransferChannels ==
    ASSUME Types, NEW n \in Exiting, NEW m \in jobs[n],
           Transfer(n, m) \/ TransferFails(n, m), NodeRest, Channels(n)
    PROVE  Channels(n)'
<1>0. /\ toSat[n] \in Seq(Answers) /\ OnceEach(n) /\ m.piece \in Piece
      /\ m.type = "transfer" /\ jobs'[n] = jobs[n] \ {m}
      /\ toNode'[n] = toNode[n] /\ Asked(n)' = Asked(n)
  BY TransferDoes, JobIs DEF Types, StreamTypes, Channels, Transfers, But, Asked
<1>1. PICK q \in Piece : q = m.piece
  BY <1>0
<1>2. Working(n)' = Working(n) \ {q} /\ q \in Working(n)
  BY <1>0, <1>1, WorkingDone
<1>3. q \notin Replied(n)
  BY <1>2 DEF Channels, Apart
<1>4. PICK t \in AnswerTypes :
         toSat'[n] = IF Answering(n) THEN Append(toSat[n], Answer(t, q)) ELSE toSat[n]
  BY <1>1, TransferDoes
<1>5. Replied(n)' \subseteq Replied(n) \union {q} /\ Single(toSat'[n], AnswerTypes)
  <2>1. CASE ~Answering(n)
    BY <1>0, <1>4, <2>1 DEF Replied, OnceEach
  <2>2. CASE Answering(n)
    <3>1. Answer(t, q) \in Answers /\ Answer(t, q).type = t /\ Answer(t, q).piece = q
      BY DEF Answer, Answers
    <3> QED
      BY <1>0, <1>3, <1>4, <2>2, <3>1, PickedAppend DEF Replied, OnceEach
  <2> QED
    BY <2>1, <2>2
<1>6. OnceEach(n)'
  BY <1>0, <1>5 DEF OnceEach
<1>7. Apart(n)'
  BY <1>0, <1>2, <1>5, RestSame DEF Channels, Apart
<1>8. Outstanding(n)' \subseteq Expected(n)'
  BY <1>0, <1>2, <1>5, RestSame DEF Channels, Outstanding
<1> QED
  BY <1>6, <1>7, <1>8 DEF Channels

LEMMA MessageChannels ==
    ASSUME Types, NEW n \in Exiting, NextMessage(n), NodeRest, Channels(n)
    PROVE  Channels(n)'
<1>0. /\ toNode[n] \in Seq(Messages) /\ toNode[n] # <<>> /\ toNode'[n] = Tail(toNode[n])
      /\ OnceEach(n) /\ toSat'[n] = toSat[n] /\ Replied(n)' = Replied(n)
  BY NextMessageDoes DEF Types, StreamTypes, Channels, But, Replied
<1>1. Asked(n)' \subseteq Asked(n) /\ Single(toNode'[n], {"transfer"})
  BY <1>0, AskedSame DEF OnceEach
<1>2. PICK m : m = Head(toNode[n])
  OBVIOUS
<1>3. jobs'[n] = jobs[n] \/ jobs'[n] = jobs[n] \union {m}
  BY <1>2, NextMessageDoes DEF But
<1>4. CASE jobs'[n] = jobs[n]
  <2>1. OnceEach(n)' /\ Working(n)' = Working(n)
    BY <1>0, <1>1, <1>4, WorkingIs DEF OnceEach
  <2> QED
    BY <1>0, <1>1, <2>1, ChannelsLess, RestSame
<1>5. CASE jobs'[n] = jobs[n] \union {m} /\ m.type # "transfer"
  <2>1. OnceEach(n)' /\ Working(n)' = Working(n)
    BY <1>0, <1>1, <1>5, WorkingIs DEF OnceEach
  <2> QED
    BY <1>0, <1>1, <2>1, ChannelsLess, RestSame
<1>6. CASE jobs'[n] = jobs[n] \union {m} /\ m.type = "transfer"
  <2>1. PICK q : q = m.piece
    OBVIOUS
  <2>2. Asked(n)' \subseteq Asked(n) \ {q} /\ q \in Asked(n)
    BY <1>0, <1>2, <1>6, <2>1, PickedTail DEF Asked, OnceEach
  <2>3. Working(n)' = Working(n) \union {q}
    BY <1>6, <2>1, WorkingIs
  <2>4. \A l \in jobs[n] : l.type = "transfer" => l.piece # q
    BY <2>2 DEF Channels, Apart, Working
  <2>5. OnceEach(n)'
    BY <1>0, <1>1, <1>6, <2>1, <2>4 DEF OnceEach
  <2>6. Apart(n)'
    BY <1>0, <2>2, <2>3, RestSame DEF Channels, Apart
  <2>7. Outstanding(n)' \subseteq Expected(n)'
    BY <1>0, <2>2, <2>3, RestSame DEF Channels, Outstanding
  <2> QED
    BY <2>5, <2>6, <2>7 DEF Channels
<1> QED
  BY <1>3, <1>4, <1>5, <1>6

LEMMA WorkerChannels ==
    ASSUME Types, NEW n \in Exiting, WorkerStep(n) \/ NodeCrash(n), NodeRest, Channels(n)
    PROVE  Channels(n)'
<1> USE DEF But
<1>1. CASE NextMessage(n)
  BY <1>1, MessageChannels
<1>2. ASSUME NEW m \in jobs[n], Transfer(n, m) \/ TransferFails(n, m)
      PROVE  Channels(n)'
  BY <1>2, TransferChannels
<1>3. ASSUME /\ toNode'[n] = toNode[n] \/ toNode'[n] = <<>>
             /\ toSat'[n] = toSat[n] /\ jobs'[n] \subseteq jobs[n]
      PROVE  Channels(n)'
  <2>1. Asked(n)' \subseteq Asked(n) /\ Single(toNode'[n], {"transfer"})
    BY <1>3, AskedSame DEF Channels, OnceEach
  <2>2. /\ Working(n)' \subseteq Working(n) /\ Replied(n)' = Replied(n)
        /\ Taken(n)' = Taken(n) /\ Expected(n)' = Expected(n)
    BY <1>3, WorkingIs, RestSame DEF Replied
  <2>3. OnceEach(n)'
    BY <1>3, <2>1 DEF Channels, OnceEach
  <2> QED
    BY <2>1, <2>2, <2>3, ChannelsLess
<1>4. CASE StreamOver(n) \/ Left(n) \/ DeleteSatelliteData(n)
  BY <1>3, <1>4, StreamOverDoes, LeftDoes, WipeDoes
<1>5. ASSUME NEW m \in jobs[n], DeletePiece(n, m)
      PROVE  Channels(n)'
  BY <1>3, <1>5, DeletePieceDoes
<1>6. CASE NodeCrash(n)
  BY <1>3, <1>6, CrashDoes
<1> QED
  BY <1>1, <1>2, <1>4, <1>5, <1>6 DEF WorkerStep, JobStep

-----------------------------------------------------------------------------
\* Pieces that were uploaded are where the satellite believes them to be.

\* Pieces whose success is answered and not yet recorded.
Uploaded(n) ==
    Picked(toSat[n], {"succeeded"}) \union (IF Reading(n) THEN {receiver[n].piece} ELSE {})

Targets(n) == \A m \in Given(n) : m.type = "transfer" => m.to = Target(n, m.piece)
Stores(n) == \A p \in Uploaded(n) : HoldsPiece(n, p) => p \in blobs[Target(n, p)]

UploadInv(n) == session[n] = "open" => Channels(n) /\ Targets(n) /\ Stores(n)

EndsUnchanged(n) ==
    /\ toNode'[n] = toNode[n] /\ toSat'[n] = toSat[n] /\ jobs'[n] = jobs[n]
    /\ sender'[n] = sender[n] /\ receiver'[n] = receiver[n] /\ pending'[n] = pending[n]

\* The steps after which a session is open.
LEMMA OpenSteps ==
    ASSUME Basics, [Next]_vars, NEW n \in Exiting, session'[n] = "open"
    PROVE  \/ Connect(n)
           \/ /\ session[n] = "open"
              /\ \/ SenderStep(n) /\ ~Return(n)
                 \/ ReceiverStep(n)
                 \/ (WorkerStep(n) \/ NodeCrash(n)) /\ NodeRest
                 \/ EndsUnchanged(n)
<1> USE DEF But
<1>0. Types /\ SessionInv(n)
  BY DEF Basics, Sessions
<1>1. ASSUME NEW ms, ReturnWith(n, ms) PROVE FALSE
  BY <1>0, <1>1 DEF ReturnWith, Types, SessionTypes
<1>2. ~Return(n)
  BY <1>1 DEF Return
<1>3. CASE SenderStep(n) \/ ReceiverStep(n)
  BY <1>0, <1>2, <1>3, Open
<1>4. CASE FirstProgress(n) \/ SessionFails(n) \/ SessionNotices(n)
  BY <1>0, <1>1, <1>2, <1>4, FirstProgressDoes, BreakDoes
<1>5. CASE (WorkerStep(n) \/ NodeCrash(n)) /\ NodeRest
  BY <1>0, <1>5, RestSame
<1>6. CASE \/ AuditDisqualifies(n) \/ Start \/ Flush \/ Finish \/ LoopFails
           \/ \E s \in Segments : Collect(s)
  BY <1>0, <1>6, AuditDoes, StartDoes, FlushDoes, FinishDoes, LoopFailsDoes, CollectDoes
     DEF EndsUnchanged
<1>7. CASE But(n, {"pieces", "blobs"})
  BY <1>7 DEF EndsUnchanged
<1> QED
  <2> HIDE DEF But
  <2> QED
    BY <1>0, <1>3, <1>4, <1>5, <1>6, <1>7, Steps

LEMMA ChannelsSame ==
    ASSUME NEW n \in Exiting, Channels(n), EndsUnchanged(n)
    PROVE  Channels(n)'
<1>1. /\ Asked(n)' = Asked(n) /\ Working(n)' = Working(n) /\ Replied(n)' = Replied(n)
      /\ Taken(n)' = Taken(n) /\ Expected(n)' = Expected(n)
  BY WorkingIs DEF EndsUnchanged, Asked, Replied, Taken, Expected, Sending
<1>2. OnceEach(n)'
  BY DEF EndsUnchanged, Channels, OnceEach
<1> QED
  BY <1>1, <1>2, ChannelsLess

LEMMA NextChannels ==
    ASSUME Basics, [Next]_vars, NEW n \in Exiting, session'[n] = "open",
           session[n] = "open" => Channels(n)
    PROVE  Channels(n)'
<1>0. Types /\ EndTypes /\ EndsInv(n) /\ SessionInv(n)
  BY EndsTypes DEF Basics, Ends, Sessions
<1>1. CASE Connect(n)
  BY <1>0, <1>1, ChannelsOpen
<1>2. CASE session[n] = "open" /\ SenderStep(n) /\ ~Return(n)
  BY <1>0, <1>2, SenderChannels
<1>3. CASE session[n] = "open" /\ ReceiverStep(n)
  BY <1>0, <1>3, ReceiverHandles, ReceiverChannels
<1>4. CASE session[n] = "open" /\ (WorkerStep(n) \/ NodeCrash(n)) /\ NodeRest
  BY <1>0, <1>4, WorkerChannels
<1>5. CASE session[n] = "open" /\ EndsUnchanged(n)
  BY <1>5, ChannelsSame
<1> QED
  BY <1>1, <1>2, <1>3, <1>4, <1>5, OpenSteps

LEMMA GivenOut ==
    ASSUME NEW n \in Exiting, NEW m \in Given(n), m.type = "transfer"
    PROVE  m.piece \in Outstanding(n)
BY DEF Given, Messaged, Outstanding, Asked, Working, Picked

LEMMA UploadedOut ==
    ASSUME NEW n \in Exiting
    PROVE  Uploaded(n) \subseteq Outstanding(n)
BY DEF Uploaded, Outstanding, Replied, Taken, Picked, AnswerTypes, Reading, Handling

LEMMA ExpectedIs ==
    ASSUME Types, NEW n \in Exiting, EndsInv(n), NEW p \in Expected(n)
    PROVE  p \in Piece /\ Target(n, p) \in Others
<1>1. CASE p \in DOMAIN pending[n]
  BY <1>1, InHand DEF Target
<1>2. CASE p \notin DOMAIN pending[n]
  <2>1. sender[n].at \in {"count", "put"} /\ p = sender[n].piece
    BY <1>2 DEF Expected, Sending
  <2> QED
    BY <1>2, <2>1, InBatch, EndsSender DEF Target
<1> QED
  BY <1>1, <1>2

\* The receiver forgets no target that it still expects.
LEMMA TargetStays ==
    ASSUME NEW n \in Exiting, EndsInv(n), sender'[n] = sender[n],
           Takes(n) \/ Handles(n), NEW p \in Expected(n)'
    PROVE  Target(n, p)' = Target(n, p)
<1>1. CASE pending'[n] = pending[n]
  BY <1>1 DEF Target
<1>2. CASE pending'[n] # pending[n]
  <2>1. pending'[n] = Without(pending[n], receiver[n].piece)
    BY <1>2 DEF Takes, Handles
  <2>2. /\ DOMAIN pending'[n] = DOMAIN pending[n] \ {receiver[n].piece}
        /\ \A q \in DOMAIN pending'[n] : pending'[n][q] = pending[n][q]
    BY <2>1, ForgetIs
  <2>3. CASE p \in DOMAIN pending'[n]
    BY <2>2, <2>3 DEF Target
  <2>4. CASE p \notin DOMAIN pending'[n]
    <3>1. sender[n].at \in {"count", "put"} /\ p = sender[n].piece
      BY <2>4 DEF Expected, Sending
    <3>2. p \notin DOMAIN pending[n]
      BY <3>1, EndsSender
    <3> QED
      BY <2>4, <3>2 DEF Target
  <2> QED
    BY <2>3, <2>4
<1> QED
  BY <1>1, <1>2

LEMMA NextTargets ==
    ASSUME Basics, [Next]_vars, NEW n \in Exiting, session'[n] = "open", Channels(n)',
           session[n] = "open" => Channels(n) /\ Targets(n)
    PROVE  Targets(n)'
<1>0. Types /\ EndTypes /\ EndsInv(n) /\ SessionInv(n)
  BY EndsTypes DEF Basics, Ends, Sessions
<1> SUFFICES ASSUME NEW m \in Given(n)', m.type = "transfer"
             PROVE  m.to = Target(n, m.piece)'
  BY DEF Targets
<1>1. m.piece \in Expected(n)'
  <2>1. m.piece \in Outstanding(n)'
    BY DEF Given, Messaged, Outstanding, Asked, Working, Picked
  <2> QED
    BY <2>1 DEF Channels
<1>2. CASE Connect(n)
  <2>1. toNode'[n] = <<>> /\ jobs'[n] = {}
    BY <1>0, <1>2, ConnectDoes DEF But, SessionInv
  <2> QED
    BY <1>0, <2>1, MessagedIs DEF Given
<1>3. ASSUME session[n] = "open", m \in Given(n)
      PROVE  m.piece \in Expected(n) /\ m.to = Target(n, m.piece)
  BY <1>3, GivenOut DEF Channels, Targets
<1>4. CASE session[n] = "open" /\ SenderStep(n) /\ ~Return(n)
  <2>1. /\ Expecting(n) /\ jobs'[n] = jobs[n]
        /\ toNode'[n] = toNode[n] \/ \E p, x : Asks(n, p, x)
    BY <1>0, <1>4, SenderExpects
  <2>2. CASE m \in Given(n)
    BY <1>3, <1>4, <2>1, <2>2 DEF Expecting
  <2>3. CASE toNode'[n] = toNode[n]
    <3>1. m \in Given(n)
      BY <1>0, <2>1, <2>3, MessagedIs DEF Given
    <3> QED
      BY <2>2, <3>1
  <2>4. ASSUME NEW p, NEW x, Asks(n, p, x), m \notin Given(n)
        PROVE  m.to = Target(n, m.piece)'
    <3>1. PICK l \in Messages : l = Message("transfer", p, x)
      BY <2>4, MessageIs DEF Asks
    <3>2. m = l
      BY <1>0, <2>1, <2>4, <3>1, MessagedIs DEF Asks, Given
    <3> QED
      BY <2>4, <3>1, <3>2 DEF Asks, Message
  <2> QED
    BY <2>1, <2>2, <2>3, <2>4
<1>5. CASE session[n] = "open" /\ ReceiverStep(n)
  <2>1. sender'[n] = sender[n] /\ (Takes(n) \/ Handles(n))
    BY <1>0, <1>5, ReceiverHandles
  <2>2. m \in Given(n)
    BY <1>0, <1>5, ReceiverGiven, GivenTypes
  <2> QED
    BY <1>0, <1>1, <1>3, <1>5, <2>1, <2>2, TargetStays
<1>6. CASE session[n] = "open" /\ (WorkerStep(n) \/ NodeCrash(n)) /\ NodeRest
  <2>1. m \in Given(n)
    BY <1>0, <1>6, WorkerGiven
  <2> QED
    BY <1>0, <1>3, <1>6, <2>1, RestSame
<1>7. CASE session[n] = "open" /\ EndsUnchanged(n)
  <2>1. m \in Given(n)
    BY <1>0, <1>7, MessagedIs DEF EndsUnchanged, Given
  <2> QED
    BY <1>3, <1>7, <2>1 DEF EndsUnchanged, Target
<1> QED
  BY <1>2, <1>4, <1>5, <1>6, <1>7, OpenSteps

\* A success that is new to the satellite: the upload was made.
Arrives(n, p) ==
    \E m \in jobs[n] : /\ m \in Transfers /\ m.piece = p
                       /\ blobs' = [blobs EXCEPT ![m.to] = @ \union {p}]

LEMMA WorkerUploaded ==
    ASSUME Types, NEW n \in Exiting, WorkerStep(n) \/ NodeCrash(n), NodeRest,
           NEW p \in Uploaded(n)'
    PROVE  p \in Uploaded(n) \/ Arrives(n, p)
<1>0. toSat[n] \in Seq(Answers)
  BY DEF Types, StreamTypes
<1>1. CASE toSat'[n] = toSat[n]
  BY <1>1, RestSame DEF Uploaded
<1>2. ASSUME NEW m \in jobs[n], Transfer(n, m) \/ TransferFails(n, m)
      PROVE  p \in Uploaded(n) \/ Arrives(n, p)
  <2>1. PICK t \in AnswerTypes :
           /\ toSat'[n] = IF Answering(n) THEN Append(toSat[n], Answer(t, m.piece)) ELSE toSat[n]
           /\ t = "succeeded" => blobs' = [blobs EXCEPT ![m.to] = @ \union {m.piece}]
    BY <1>2, TransferDoes
  <2>2. CASE toSat'[n] = Append(toSat[n], Answer(t, m.piece))
    <3>1. /\ Answer(t, m.piece) \in Answers /\ Answer(t, m.piece).type = t
          /\ Answer(t, m.piece).piece = m.piece
      BY JobIs DEF Answer, Answers
    <3>2. Picked(toSat'[n], {"succeeded"}) \subseteq
             Picked(toSat[n], {"succeeded"}) \union (IF t = "succeeded" THEN {m.piece} ELSE {})
      BY <1>0, <2>2, <3>1, PickedAppend
    <3>3. p \in Uploaded(n) \/ (t = "succeeded" /\ p = m.piece)
      BY <3>2, RestSame DEF Uploaded
    <3>4. m \in Transfers
      BY <1>2, TransferDoes
    <3> QED
      BY <2>1, <3>3, <3>4 DEF Arrives
  <2> QED
    BY <1>1, <2>1, <2>2
<1>3. CASE NextMessage(n) \/ StreamOver(n) \/ Left(n) \/ DeleteSatelliteData(n)
  BY <1>1, <1>3, NextMessageDoes, StreamOverDoes, LeftDoes, WipeDoes DEF But
<1>4. ASSUME NEW m \in jobs[n], DeletePiece(n, m)
      PROVE  p \in Uploaded(n) \/ Arrives(n, p)
  BY <1>1, <1>4, DeletePieceDoes DEF But
<1>5. CASE NodeCrash(n)
  BY <1>1, <1>5, CrashDoes DEF But
<1> QED
  BY <1>2, <1>3, <1>4, <1>5 DEF WorkerStep, JobStep

LEMMA ReceiverUploaded ==
    ASSUME Types, NEW n \in Exiting, Takes(n) \/ Handles(n)
    PROVE  Uploaded(n)' \subseteq Uploaded(n)
<1>0. toSat[n] \in Seq(Answers)
  BY DEF Types, StreamTypes
<1>1. CASE Takes(n)
  <2>1. PICK h : h = Head(toSat[n])
    OBVIOUS
  <2>2. /\ Picked(toSat'[n], {"succeeded"}) \subseteq Picked(toSat[n], {"succeeded"})
        /\ h.type = "succeeded" => h.piece \in Picked(toSat[n], {"succeeded"})
    BY <1>0, <1>1, <2>1, PickedTail DEF Takes
  <2>3. Reading(n)' => h.type = "succeeded" /\ receiver'[n].piece = h.piece
    BY <1>1, <2>1 DEF Takes, Reading, Handling
  <2> QED
    BY <2>2, <2>3 DEF Uploaded
<1>2. CASE Handles(n)
  <2>1. Reading(n)' => Reading(n) /\ receiver'[n].piece = receiver[n].piece
    BY <1>2 DEF Handles, Reading, Handling
  <2> QED
    BY <1>2, <2>1 DEF Handles, Uploaded
<1> QED
  BY <1>1, <1>2

\* What another node stores stays there as long as the exiting node holds it.
LEMMA StoredStays ==
    ASSUME Basics, [Next]_vars, NEW n \in Exiting, NEW p \in Piece, NEW x \in Others,
           HoldsPiece(n, p) => p \in blobs[x], HoldsPiece(n, p)'
    PROVE  p \in blobs'[x]
BY Onward

LEMMA NextStores ==
    ASSUME Basics, [Next]_vars, NEW n \in Exiting, session'[n] = "open", Channels(n)',
           session[n] = "open" => Channels(n) /\ Targets(n) /\ Stores(n)
    PROVE  Stores(n)'
<1>0. Types /\ EndTypes /\ EndsInv(n) /\ SessionInv(n)
  BY EndsTypes DEF Basics, Ends, Sessions
<1> SUFFICES ASSUME NEW p \in Uploaded(n)', HoldsPiece(n, p)'
             PROVE  p \in blobs'[Target(n, p)']
  BY DEF Stores
<1>1. p \in Expected(n)'
  <2>1. p \in Outstanding(n)'
    BY DEF Uploaded, Outstanding, Replied, Taken, Picked, AnswerTypes, Reading, Handling
  <2> QED
    BY <2>1 DEF Channels
<1>2. ASSUME session[n] = "open", p \in Uploaded(n), Target(n, p)' = Target(n, p)
      PROVE  p \in blobs'[Target(n, p)']
  <2>1. p \in Expected(n) /\ (HoldsPiece(n, p) => p \in blobs[Target(n, p)])
    BY <1>2, UploadedOut DEF Channels, Stores
  <2>2. PICK x \in Others : x = Target(n, p)
    BY <1>0, <2>1, ExpectedIs
  <2>3. p \in Piece
    BY <1>0, <2>1, ExpectedIs
  <2>4. p \in blobs'[x]
    BY <2>1, <2>2, <2>3, StoredStays
  <2> QED
    BY <1>2, <2>2, <2>4
<1>3. CASE Connect(n)
  <2>1. toSat'[n] = <<>> /\ receiver'[n].at = "wait"
    BY <1>0, <1>3, ConnectDoes DEF But
  <2>2. Uploaded(n)' = {}
    BY <2>1, PickedNone DEF Uploaded, Reading
  <2> QED
    BY <2>2
<1>4. CASE session[n] = "open" /\ SenderStep(n) /\ ~Return(n)
  <2>1. Expecting(n) /\ toSat'[n] = toSat[n] /\ receiver'[n] = receiver[n]
    BY <1>0, <1>4, SenderExpects
  <2>2. p \in Uploaded(n)
    BY <2>1 DEF Uploaded, Reading
  <2> QED
    BY <1>2, <1>4, <2>1, <2>2, UploadedOut DEF Channels, Expecting
<1>5. CASE session[n] = "open" /\ ReceiverStep(n)
  <2>1. sender'[n] = sender[n] /\ (Takes(n) \/ Handles(n))
    BY <1>0, <1>5, ReceiverHandles
  <2> QED
    BY <1>0, <1>1, <1>2, <1>5, <2>1, ReceiverUploaded, TargetStays
<1>6. CASE session[n] = "open" /\ (WorkerStep(n) \/ NodeCrash(n)) /\ NodeRest
  <2>1. Target(n, p)' = Target(n, p)
    BY <1>0, <1>6, RestSame
  <2>2. CASE p \in Uploaded(n)
    BY <1>2, <1>6, <2>1, <2>2
  <2>3. CASE Arrives(n, p)
    <3>1. PICK m \in jobs[n] : /\ m \in Transfers /\ m.piece = p
                               /\ blobs' = [blobs EXCEPT ![m.to] = @ \union {p}]
      BY <2>3 DEF Arrives
    <3>2. m.type = "transfer" /\ m.to \in Others
      BY <3>1 DEF Transfers
    <3>3. m.to = Target(n, p)
      BY <1>6, <3>1, <3>2 DEF Targets, Given
    <3>4. p \in blobs'[m.to]
      BY <1>0, <3>1, <3>2 DEF Types, NodeTypes, Others
    <3> QED
      BY <2>1, <3>3, <3>4
  <2> QED
    BY <1>0, <1>6, <2>2, <2>3, WorkerUploaded
<1>7. CASE session[n] = "open" /\ EndsUnchanged(n)
  <2>1. p \in Uploaded(n) /\ Target(n, p)' = Target(n, p)
    BY <1>7 DEF EndsUnchanged, Uploaded, Reading, Target
  <2> QED
    BY <1>2, <1>7, <2>1
<1> QED
  BY <1>3, <1>4, <1>5, <1>6, <1>7, OpenSteps

LEMMA NextUpload ==
    ASSUME Basics, [Next]_vars, NEW n \in Exiting, UploadInv(n)
    PROVE  UploadInv(n)'
BY NextChannels, NextTargets, NextStores DEF UploadInv

-----------------------------------------------------------------------------
\* Every holder stores what it holds.

HeldBy(p) == pieces[p[1]][p[2]]

Stored == \A p \in Piece : HeldBy(p) \in Others => p \in blobs[HeldBy(p)]

\* No node holds two pieces of a segment.
Apiece ==
    \A s \in Segments, k, l \in Numbers :
       pieces[s][k] = pieces[s][l] => k = l \/ pieces[s][k] = None

Shelved == Basics /\ Stored /\ Apiece /\ \A n \in Exiting : UploadInv(n)

\* The piece of an update is stored at its new holder.
LEMMA HandedStored ==
    ASSUME Shelved, NEW n \in Exiting, Handed(n)
    PROVE  receiver[n].piece \in blobs[pending[n][receiver[n].piece]]
<1>0. Types /\ EndsInv(n) /\ SessionInv(n) /\ UploadInv(n)
  BY DEF Shelved, Basics, Ends, Sessions
<1>1. PICK p : p = receiver[n].piece
  OBVIOUS
<1>2. p \in DOMAIN pending[n]
  BY <1>0, <1>1, HandedIs
<1>3. session[n] = "open"
  <2>1. receiver[n].at # "idle"
    BY DEF Handed
  <2> QED
    BY <1>0, <2>1 DEF SessionInv, NotReceiving
<1>4. HoldsPiece(n, p)
  BY <1>0, <1>1 DEF Handed, EndsInv, HoldsPiece
<1>5. p \in Uploaded(n)
  BY <1>1 DEF Handed, Uploaded, Reading
<1>6. p \in blobs[Target(n, p)]
  BY <1>0, <1>3, <1>4, <1>5 DEF UploadInv, Stores
<1> QED
  BY <1>1, <1>2, <1>6 DEF Target

LEMMA NextStored ==
    ASSUME Shelved, [Next]_vars
    PROVE  Stored'
<1>0. Types /\ Stored /\ Custody /\ blobs \in [Nodes -> SUBSET Piece]
  BY NextCustody DEF Shelved, Basics, Types, NodeTypes
<1> SUFFICES ASSUME NEW p \in Piece, HeldBy(p)' \in Others
             PROVE  p \in blobs'[HeldBy(p)']
  BY DEF Stored
<1>1. None \notin Others /\ Others \subseteq Nodes /\ Others \cap Exiting = {}
  BY GracefulExitAssumption DEF Others
<1>2. ASSUME HeldBy(p)' = HeldBy(p), \A x \in Others : p \in blobs[x] => p \in blobs'[x]
      PROVE  p \in blobs'[HeldBy(p)']
  BY <1>0, <1>2 DEF Stored
<1>3. CASE UNCHANGED <<pieces, blobs>>
  BY <1>2, <1>3 DEF HeldBy
<1>4. CASE /\ pieces' = pieces
           /\ \/ \E x \in Others, q \in Piece : blobs' = [blobs EXCEPT ![x] = @ \union {q}]
              \/ \E n \in Exiting : \E m \in jobs[n] :
                    m.type = "delete" /\ blobs' = [blobs EXCEPT ![n] = @ \ {m.piece}]
              \/ \E n \in Exiting : worker[n] = "wiping" /\ blobs' = [blobs EXCEPT ![n] = {}]
  <2>1. \A x \in Others : p \in blobs[x] => p \in blobs'[x]
    BY <1>0, <1>1, <1>4
  <2> QED
    BY <1>2, <1>4, <2>1 DEF HeldBy
<1>5. ASSUME blobs' = blobs, NEW q \in Piece, pieces' = Moved(q, None)
      PROVE  p \in blobs'[HeldBy(p)']
  <2>1. HeldBy(p)' = HeldBy(p)
    BY <1>0, <1>1, <1>5, MovedHolds DEF HeldBy
  <2> QED
    BY <1>2, <1>5, <2>1
<1>6. ASSUME blobs' = blobs, NEW s \in Segments, pieces' = Cleared(s)
      PROVE  p \in blobs'[HeldBy(p)']
  <2>1. HeldBy(p)' = HeldBy(p)
    BY <1>0, <1>1, <1>6, ClearedHolds DEF HeldBy
  <2> QED
    BY <1>2, <1>6, <2>1
<1>7. ASSUME blobs' = blobs, NEW n \in Exiting, Handed(n)
      PROVE  p \in blobs'[HeldBy(p)']
  <2>1. PICK q \in Piece : q = receiver[n].piece
    BY <1>0, <1>7, HandedIs DEF Shelved, Basics, Ends
  <2>2. HeldBy(p)' = IF p = q THEN pending[n][q] ELSE HeldBy(p)
    BY <1>0, <1>7, <2>1, MovedHolds DEF Handed, HeldBy
  <2>3. CASE p = q
    BY <1>7, <2>1, <2>2, <2>3, HandedStored
  <2>4. CASE p # q
    BY <1>2, <1>7, <2>2, <2>4
  <2> QED
    BY <2>3, <2>4
<1>8. ASSUME NEW q \in Piece, NEW x \in Others, Repaired(q, x)
      PROVE  p \in blobs'[HeldBy(p)']
  <2>1. HeldBy(p)' = IF p = q THEN x ELSE HeldBy(p)
    BY <1>0, <1>8, MovedHolds DEF Repaired, HeldBy
  <2>2. PICK y : y = HeldBy(q)
    OBVIOUS
  <2>3. blobs' = [blobs EXCEPT ![y] = @ \ {q}, ![x] = @ \union {q}]
    BY <1>8, <2>2 DEF Repaired, HeldBy
  <2>4. CASE p = q
    BY <1>0, <1>1, <2>1, <2>3, <2>4
  <2>5. CASE p # q
    <3>1. \A z \in Others : p \in blobs[z] => p \in blobs'[z]
      BY <1>0, <1>1, <2>3, <2>5
    <3> QED
      BY <1>2, <2>1, <2>5, <3>1
  <2> QED
    BY <2>4, <2>5
<1> QED
  BY <1>0, <1>3, <1>4, <1>5, <1>6, <1>7, <1>8 DEF Custody

\* A piece goes to a node that holds no piece of its segment.
LEMMA MovedApiece ==
    ASSUME Types, Apiece, NEW q \in Piece, NEW x \in Nodes \union {None}, pieces' = Moved(q, x),
           x \notin Holders(q[1])
    PROVE  Apiece'
<1> SUFFICES ASSUME NEW s \in Segments, NEW k \in Numbers, NEW l \in Numbers,
                    pieces'[s][k] = pieces'[s][l]
             PROVE  k = l \/ pieces'[s][k] = None
  BY DEF Apiece
<1>1. ASSUME NEW j \in Numbers
      PROVE  pieces'[s][j] = IF <<s, j>> = q THEN x ELSE pieces[s][j]
  <2>1. <<s, j>> \in Piece
    BY DEF Piece
  <2> QED
    BY <2>1, MovedHolds
<1>2. ASSUME NEW j \in Numbers, s = q[1], pieces[s][j] = x
      PROVE  x = None
  BY <1>2 DEF Holders, Held
<1>3. \A j \in Numbers : <<s, j>> = q => s = q[1] /\ j = q[2]
  OBVIOUS
<1> QED
  BY <1>1, <1>2, <1>3 DEF Apiece

LEMMA NextApiece ==
    ASSUME Shelved, [Next]_vars
    PROVE  Apiece'
<1>0. Types /\ Apiece /\ Custody
  BY NextCustody DEF Shelved, Basics
<1>1. \A s : None \notin Holders(s)
  BY DEF Holders, Held
<1>2. CASE pieces' = pieces
  BY <1>0, <1>2 DEF Apiece
<1>3. ASSUME NEW q \in Piece, pieces' = Moved(q, None)
      PROVE  Apiece'
  BY <1>0, <1>1, <1>3, MovedApiece
<1>4. ASSUME NEW s \in Segments, pieces' = Cleared(s)
      PROVE  Apiece'
  <2>1. ASSUME NEW t \in Segments, NEW k \in Numbers
        PROVE  pieces'[t][k] = IF t = s THEN None ELSE pieces[t][k]
    <3>1. <<t, k>> \in Piece
      BY DEF Piece
    <3> QED
      BY <1>0, <1>4, <3>1, ClearedHolds
  <2> QED
    BY <1>0, <2>1 DEF Apiece
<1>5. ASSUME NEW n \in Exiting, Handed(n)
      PROVE  Apiece'
  <2>1. EndsInv(n)
    BY DEF Shelved, Basics, Ends
  <2>2. PICK q \in Piece : q = receiver[n].piece
    BY <1>0, <1>5, <2>1, HandedIs
  <2>3. PICK x \in Nodes : x = pending[n][q]
    BY <1>0, <1>5, <2>1, <2>2, HandedIs DEF Others
  <2>4. x \notin Holders(q[1]) /\ pieces' = Moved(q, x)
    BY <1>0, <1>5, <2>1, <2>2, <2>3, HandedIs DEF Handed
  <2> QED
    BY <1>0, <2>4, MovedApiece
<1>6. ASSUME NEW q \in Piece, NEW x \in Others, Repaired(q, x)
      PROVE  Apiece'
  BY <1>0, <1>6, MovedApiece DEF Repaired, Others
<1> QED
  BY <1>0, <1>2, <1>3, <1>4, <1>5, <1>6 DEF Custody

LEMMA InitShelved == Init => Shelved
<1> SUFFICES ASSUME Init PROVE Shelved
  OBVIOUS
<1>1. Basics
  BY InitBasics
<1>2. pieces = InitialPieces
      /\ blobs = [n \in Nodes |-> {p \in Piece : InitialPieces[p[1]][p[2]] = n} \ Lost]
  BY DEF Init
<1>3. Apiece
  BY <1>2, GracefulExitAssumption DEF Apiece
<1>4. Stored
  <2>1. \A p \in Lost : InitialPieces[p[1]][p[2]] \in Exiting
    BY GracefulExitAssumption
  <2> QED
    BY <1>2, <2>1 DEF Stored, HeldBy, Others
<1>5. ASSUME NEW n \in Exiting PROVE UploadInv(n)
  BY DEF Init, UploadInv
<1> QED
  BY <1>1, <1>3, <1>4, <1>5 DEF Shelved

\* Every other holder of a piece stores it and holds no other piece of the
\* segment: a node is recorded as a holder only after the upload to it, and no
\* step takes the piece away from there (handleSucceeded, updateSegment),
\* whatever fails, is repaired, repeated or exits meanwhile.
THEOREM HoldersKeepStoring == Spec => []HoldersStore
<1>1. Init => Shelved
  BY InitShelved
<1>2. Shelved /\ [Next]_vars => Shelved'
  <2> SUFFICES ASSUME Shelved, [Next]_vars PROVE Shelved'
    OBVIOUS
  <2>1. Basics'
    BY NextBasics DEF Shelved
  <2>2. Stored' /\ Apiece'
    BY NextStored, NextApiece
  <2>3. ASSUME NEW n \in Exiting PROVE UploadInv(n)'
    BY NextUpload DEF Shelved
  <2> QED
    BY <2>1, <2>2, <2>3 DEF Shelved
<1>3. Shelved => HoldersStore
  <2> SUFFICES ASSUME Shelved PROVE HoldersStore
    OBVIOUS
  <2>1. ASSUME NEW s \in Segments, NEW k \in Numbers, pieces[s][k] \in Nodes \ Exiting
        PROVE  <<s, k>> \in blobs[pieces[s][k]]
    <3>1. <<s, k>> \in Piece
      BY DEF Piece
    <3> QED
      BY <2>1, <3>1 DEF Shelved, Stored, HeldBy, Others
  <2> QED
    BY <2>1 DEF Shelved, Apiece, HoldersStore
<1> QED
  BY <1>1, <1>2, <1>3, PTL DEF Spec
=============================================================================

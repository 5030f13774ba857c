------------------------ MODULE ActionDeliveryProofs ------------------------
(***************************************************************************)
(* Proofs about ActionDelivery for any set of requests, any queue bounds,  *)
(* any number of attempts and of faults.                                   *)
(***************************************************************************)
EXTENDS ActionDelivery, SequenceTheorems, TLAPS

-----------------------------------------------------------------------------
(* Helpers: what the operators on sequences return.                        *)

\* A prefix, a suffix or a middle part of a sequence is one over the same set.
LEMMA SubSeqType ==
    ASSUME NEW S, NEW q \in Seq(S), NEW m \in 1 .. Len(q) + 1, NEW n \in 0 .. Len(q)
    PROVE  SubSeq(q, m, n) \in Seq(S)
<1>1. m \in Int /\ n \in Int
  BY LenProperties
<1>2. \A i \in m .. n : q[i] \in S
  BY LenProperties
<1>3. QED
  BY <1>1, <1>2, SubSeqProperties

\* Removing the frame of one waiter leaves a queue of requests.
LEMMA WithoutNthType ==
    ASSUME NEW S, NEW q \in Seq(S), NEW i \in DOMAIN q
    PROVE  WithoutNth(q, i) \in Seq(S)
<1>1. i \in 1 .. Len(q) /\ Len(q) \in Nat
  BY LenProperties
<1>2. SubSeq(q, 1, i - 1) \in Seq(S)
  BY <1>1, SubSeqType
<1>3. SubSeq(q, i + 1, Len(q)) \in Seq(S)
  BY <1>1, SubSeqType
<1>4. QED
  BY <1>2, <1>3, ConcatProperties DEF WithoutNth

\* Dropping the oldest frames leaves a queue of the same kind.
LEMMA KeepNewestType ==
    ASSUME NEW S, NEW q \in Seq(S)
    PROVE  KeepNewest(q) \in Seq(S)
<1>1. CASE Len(q) <= NodeQueueMax
  BY <1>1 DEF KeepNewest
<1>2. CASE ~(Len(q) <= NodeQueueMax)
  <2>1. Len(q) \in Nat /\ NodeQueueMax \in Nat
    BY LenProperties, BoundsAssumption
  <2>2. Len(q) - NodeQueueMax + 1 \in 1 .. Len(q) + 1
    BY <1>2, <2>1
  <2>3. QED
    BY <1>2, <2>1, <2>2, SubSeqType DEF KeepNewest
<1>3. QED
  BY <1>1, <1>2

\* The replies made of a sequence of kinds are replies to that request.
LEMMA RepliesType ==
    ASSUME NEW r \in Requests, NEW kinds \in Seq(ReplyKinds)
    PROVE  /\ Replies(r, kinds) \in Seq(Reply)
           /\ DOMAIN Replies(r, kinds) = DOMAIN kinds
           /\ \A i \in DOMAIN kinds : Replies(r, kinds)[i] = [req |-> r, kind |-> kinds[i]]
<1>1. DOMAIN kinds = 1 .. Len(kinds) /\ Len(kinds) \in Nat
  BY LenProperties
<1>2. \A i \in 1 .. Len(kinds) : [req |-> r, kind |-> kinds[i]] \in Reply
  BY <1>1, LenProperties DEF Reply
<1>3. Replies(r, kinds) \in [1 .. Len(kinds) -> Reply]
  BY <1>1, <1>2 DEF Replies
<1>4. Replies(r, kinds) \in Seq(Reply)
  BY <1>1, <1>3, SeqDef
<1>5. QED
  BY <1>4 DEF Replies

\* Sending replies keeps the registry entry and the link well typed.
LEMMA SendReliableType ==
    ASSUME TypeOK, NEW frames \in Seq(Reply), SendReliable(frames)
    PROVE  /\ toPy' \in Seq(Reply) /\ outQ' \in Seq(Reply)
           /\ client' \in {"none", "half", "live"}
<1>1. toPy \o frames \in Seq(Reply) /\ outQ \o frames \in Seq(Reply)
  BY ConcatProperties DEF TypeOK
<1>2. KeepNewest(outQ \o frames) \in Seq(Reply)
  BY <1>1, KeepNewestType
<1>3. QED
  BY <1>1, <1>2 DEF SendReliable, TypeOK

\* So does answering a request, which may add to its captured replies instead.
LEMMA EmitType ==
    ASSUME TypeOK, NEW r \in Requests, NEW kind \in ReplyKinds, Emit(r, kind)
    PROVE  /\ toPy' \in Seq(Reply) /\ outQ' \in Seq(Reply)
           /\ client' \in {"none", "half", "live"}
           /\ captured' \in [Requests -> Seq(ReplyKinds)]
<1>1. CASE stage[r] \in {"executing", "executed"}
  <2>1. Append(captured[r], kind) \in Seq(ReplyKinds)
    BY AppendProperties DEF TypeOK
  <2>2. QED
    BY <1>1, <2>1 DEF Emit, TypeOK
<1>2. CASE stage[r] \notin {"executing", "executed"}
  <2>1. <<kind>> \in Seq(ReplyKinds)
    OBVIOUS
  <2>2. Replies(r, <<kind>>) \in Seq(Reply)
    BY <2>1, RepliesType
  <2>3. SendReliable(Replies(r, <<kind>>)) /\ UNCHANGED captured
    BY <1>2 DEF Emit
  <2>4. QED
    BY <2>2, <2>3, SendReliableType DEF TypeOK
<1>3. QED
  BY <1>1, <1>2

\* Transmitting a frame changes the caller's view, the queue and the link.
LEMMA TransmitType ==
    ASSUME TypeOK, NEW r \in Requests, Transmit(r)
    PROVE  /\ call' \in [Requests -> CallStates]
           /\ queue' \in Seq(Requests) /\ toNode' \in Seq(Requests)
           /\ faults' \in Nat
<1>1. Append(queue, r) \in Seq(Requests) /\ Append(toNode, r) \in Seq(Requests)
  BY AppendProperties DEF TypeOK
<1>2. \A c \in {"queued", "error", Delivered(r)} :
        [call EXCEPT ![r] = c] \in [Requests -> CallStates]
  BY DEF Delivered, CallStates, TypeOK
<1>3. \/ call' = [call EXCEPT ![r] = "error"]
      \/ call' = [call EXCEPT ![r] = "queued"]
      \/ call' = [call EXCEPT ![r] = Delivered(r)]
  BY Zenon DEF Transmit
<1>4. call' \in [Requests -> CallStates]
  BY <1>2, <1>3
<1>5. queue' \in {queue, Append(queue, r)} /\ toNode' \in {toNode, Append(toNode, r)}
  BY DEF Transmit
<1>6. faults' \in Nat
  BY DEF Transmit, Happens, TypeOK
<1>7. QED
  BY <1>1, <1>4, <1>5, <1>6 DEF TypeOK

\* A receipt set that passed the pruning is a receipt set.
LEMMA PrunedType ==
    ASSUME NEW receipts \in [Requests -> Receipt]
    PROVE  Pruned(receipts) \in [Requests -> Receipt]
<1>1. NoReceipt \in Receipt
  BY EmptySeq DEF NoReceipt, Receipt
<1>2. QED
  BY <1>1 DEF Pruned

\* Answering from the receipts, or claiming, keeps the gateway well typed.
LEMMA AnswerType ==
    ASSUME TypeOK, NEW r \in Requests, NEW receipts \in [Requests -> Receipt],
           Answer(r, receipts)
    PROVE  /\ toPy' \in Seq(Reply) /\ outQ' \in Seq(Reply)
           /\ client' \in {"none", "half", "live"}
           /\ captured' \in [Requests -> Seq(ReplyKinds)]
           /\ cache' \in [Requests -> Receipt]
           /\ stage' \in [Requests -> Stages]
           /\ writes' \in Seq(Requests)
<1>1. CASE receipts[r] = NoReceipt
  <2>1. Running \in Receipt
    BY EmptySeq DEF Running, Receipt
  <2>2. Append(writes, r) \in Seq(Requests)
    BY AppendProperties DEF TypeOK
  <2>3. Claim(r, receipts)
    BY <1>1 DEF Answer
  <2>4. cache' \in [Requests -> Receipt] /\ writes' \in Seq(Requests)
    BY <2>1, <2>2, <2>3 DEF Claim
  <2>5. stage' \in [Requests -> Stages]
    BY <2>3 DEF Claim, TypeOK, Stages
  <2>6. QED
    BY <2>3, <2>4, <2>5 DEF Claim, TypeOK
<1>2. CASE receipts[r] # NoReceipt /\ receipts[r].state = "running"
  <2>1. Emit(r, "refused") /\ cache' = receipts /\ UNCHANGED <<stage, writes>>
    BY <1>2 DEF Answer, AnswerFrom
  <2>2. "refused" \in ReplyKinds
    BY DEF ReplyKinds
  <2>3. QED
    BY <2>1, <2>2, EmitType DEF TypeOK
<1>3. CASE receipts[r] # NoReceipt /\ receipts[r].state # "running"
  <2>1. /\ SendReliable(Replies(r, receipts[r].frames)) /\ UNCHANGED captured
        /\ cache' = receipts /\ UNCHANGED <<stage, writes>>
    BY <1>3 DEF Answer, AnswerFrom
  <2>2. Replies(r, receipts[r].frames) \in Seq(Reply)
    BY RepliesType DEF Receipt
  <2>3. QED
    BY <2>1, <2>2, SendReliableType DEF TypeOK
<1>4. QED
  BY <1>1, <1>2, <1>3
-----------------------------------------------------------------------------
(* Type correctness.                                                       *)

\* Fault counting keeps a natural number.
LEMMA HappensType ==
    ASSUME TypeOK, NEW kind, Happens(kind)
    PROVE  faults' \in Nat
BY DEF TypeOK, Happens

\* Frames written or failed leave every caller in a known state.
LEMMA AfterWriteType ==
    ASSUME TypeOK, NEW q
    PROVE  AfterWrite(q) \in [Requests -> CallStates]
<1>1. \A r \in Requests : Delivered(r) \in CallStates
  BY DEF Delivered, CallStates
<1>2. QED
  BY <1>1 DEF AfterWrite, TypeOK

\* Flushing the first n frames keeps both queues well typed.
LEMMA FlushType ==
    ASSUME TypeOK, NEW n \in 0 .. Len(queue)
    PROVE  /\ toNode \o SubSeq(queue, 1, n) \in Seq(Requests)
           /\ SubSeq(queue, n + 1, Len(queue)) \in Seq(Requests)
<1>1. queue \in Seq(Requests) /\ Len(queue) \in Nat /\ toNode \in Seq(Requests)
  BY LenProperties DEF TypeOK
<1>2. SubSeq(queue, 1, n) \in Seq(Requests)
  BY <1>1, SubSeqType
<1>3. SubSeq(queue, n + 1, Len(queue)) \in Seq(Requests)
  BY <1>1, SubSeqType
<1>4. QED
  BY <1>1, <1>2, <1>3, ConcatProperties

\* A step of a caller.
LEMMA CallerType ==
    ASSUME TypeOK, NEW r \in Requests, Caller(r)
    PROVE  TypeOK'
<1>1. CASE Start(r)
  <2>1. Transmit(r) /\ attempt' = [attempt EXCEPT ![r] = 1]
    BY <1>1 DEF Start
  <2>2. attempt' \in [Requests -> 0 .. MaxAttempts]
    BY <2>1, BoundsAssumption DEF TypeOK
  <2>3. QED
    BY <1>1, <2>1, <2>2, TransmitType DEF Start, TypeOK, regVars, dispVars
<1>2. CASE SendTimeout(r)
  <2>1. queue' \in Seq(Requests)
    BY <1>2, WithoutNthType DEF SendTimeout, TypeOK
  <2>2. call' \in [Requests -> CallStates]
    BY <1>2 DEF SendTimeout, TypeOK, CallStates
  <2>3. QED
    BY <1>2, <2>1, <2>2 DEF SendTimeout, TypeOK, linkVars, regVars, dispVars
<1>3. CASE AckTimeout(r)
  <2>1. CASE attempt[r] < MaxAttempts
    <3>1. Transmit(r) /\ attempt' = [attempt EXCEPT ![r] = @ + 1]
      BY <1>3, <2>1 DEF AckTimeout
    <3>2. attempt' \in [Requests -> 0 .. MaxAttempts]
      BY <2>1, <3>1, BoundsAssumption DEF TypeOK
    <3>3. QED
      BY <1>3, <3>1, <3>2, TransmitType DEF AckTimeout, TypeOK, regVars, dispVars
  <2>2. CASE ~(attempt[r] < MaxAttempts)
    <3>1. call' \in [Requests -> CallStates]
      BY <1>3, <2>2 DEF AckTimeout, TypeOK, CallStates
    <3>2. QED
      BY <1>3, <2>2, <3>1 DEF AckTimeout, TypeOK, regVars, dispVars
  <2>3. QED
    BY <2>1, <2>2
<1>4. CASE MarkDone(r)
  BY <1>4 DEF MarkDone, TypeOK, CallStates, linkVars, regVars, dispVars
<1>5. QED
  BY <1>1, <1>2, <1>3, <1>4 DEF Caller

\* A step of the bridge as a whole.
LEMMA BridgeType ==
    ASSUME TypeOK, Bridge
    PROVE  TypeOK'
<1>1. CASE ReceiveReply
  <2>1. Head(toPy) \in Reply /\ Tail(toPy) \in Seq(Reply)
    BY <1>1, HeadTailProperties DEF ReceiveReply, TypeOK
  <2>2. call' \in [Requests -> CallStates]
    BY <1>1, <2>1 DEF ReceiveReply, TypeOK, CallStates, Reply
  <2>3. QED
    BY <1>1, <2>1, <2>2 DEF ReceiveReply, TypeOK, regVars, dispVars
<1>2. CASE Disconnect
  <2>1. PICK n \in IF link = "down" THEN {0} ELSE 0 .. Len(queue) :
          /\ toNode' = toNode \o SubSeq(queue, 1, n)
          /\ call' = [r \in Requests |->
               LET now == AfterWrite(SubSeq(queue, 1, n))[r]
               IN  IF now \in {"queued", "awaiting"} THEN "error" ELSE now]
    BY <1>2 DEF Disconnect
  <2>2. n \in 0 .. Len(queue)
    BY <2>1, LenProperties DEF TypeOK
  <2>3. toNode' \in Seq(Requests)
    BY <2>1, <2>2, FlushType
  <2>4. AfterWrite(SubSeq(queue, 1, n)) \in [Requests -> CallStates]
    BY AfterWriteType
  <2>5. call' \in [Requests -> CallStates]
    BY <2>1, <2>4 DEF CallStates
  <2>6. faults' \in Nat
    BY <1>2, HappensType DEF Disconnect
  <2>7. queue' \in Seq(Requests) /\ toPy' \in Seq(Reply)
    BY <1>2, EmptySeq DEF Disconnect, LoseConnection
  <2>8. QED
    BY <1>2, <2>3, <2>5, <2>6, <2>7
    DEF Disconnect, LoseConnection, TypeOK, dispVars
<1>3. CASE PyRestart
  <2>1. call' \in [Requests -> CallStates]
    BY <1>3 DEF PyRestart, TypeOK, CallStates
  <2>2. attempt' \in [Requests -> 0 .. MaxAttempts]
    BY <1>3, BoundsAssumption DEF PyRestart, TypeOK
  <2>3. faults' \in Nat
    BY <1>3, HappensType DEF PyRestart
  <2>4. queue' \in Seq(Requests) /\ toPy' \in Seq(Reply)
    BY <1>3, EmptySeq DEF PyRestart, LoseConnection
  <2>5. QED
    BY <1>3, <2>1, <2>2, <2>3, <2>4 DEF PyRestart, LoseConnection, TypeOK, dispVars
<1>4. QED
  BY <1>1, <1>2, <1>3 DEF Bridge

\* A step of the link.
LEMMA LinkType ==
    ASSUME TypeOK, Link
    PROVE  TypeOK'
<1> USE EmptySeq
<1>1. CASE Connect
  BY <1>1 DEF Connect, TypeOK, pyVars, dispVars
<1>2. CASE BindClient
  BY <1>2 DEF BindClient, TypeOK, pyVars, dispVars
<1>3. CASE HelloAck
  <2>1. PICK n \in 0 .. Len(queue) :
          /\ Flush(n)
          /\ call' = AfterWrite(SubSeq(queue, 1, n))
          /\ IF n = Len(queue)
             THEN link' = "up" /\ UNCHANGED <<toPy, client, faults>>
             ELSE LoseConnection /\ Happens("drop")
    BY <1>3 DEF HelloAck
  <2>2. call' \in [Requests -> CallStates]
    BY <2>1, AfterWriteType
  <2>3. toNode' \in Seq(Requests) /\ queue' \in Seq(Requests)
    BY <2>1, FlushType DEF Flush
  <2>4. /\ link' \in {"down", "hello", "up"} /\ toPy' \in Seq(Reply)
        /\ client' \in {"none", "half", "live"} /\ faults' \in Nat
    BY <2>1, HappensType DEF LoseConnection, TypeOK
  <2>5. QED
    BY <1>3, <2>2, <2>3, <2>4 DEF HelloAck, TypeOK, dispVars
<1>4. CASE Drop
  BY <1>4, HappensType DEF Drop, LoseConnection, TypeOK, pyVars, dispVars
<1>5. CASE NodeClose
  BY <1>5 DEF NodeClose, TypeOK, pyVars, dispVars
<1>6. CASE RejectBeforeHello
  BY <1>6 DEF RejectBeforeHello, TypeOK, pyVars, regVars, dispVars
<1>7. QED
  BY <1>1, <1>2, <1>3, <1>4, <1>5, <1>6 DEF Link
\* The head of the write chain, and the chain without it.
LEMMA WritesType ==
    ASSUME TypeOK, writes # <<>>
    PROVE  Head(writes) \in Requests /\ Tail(writes) \in Seq(Requests)
BY HeadTailProperties DEF TypeOK

\* The constant receipt values are receipts.
LEMMA ReceiptConstants ==
    /\ NoReceipt \in Receipt /\ Running \in Receipt
    /\ NoReceipts \in [Requests -> Receipt]
    /\ NotWriting \in [writing : BOOLEAN, receipts : [Requests -> Receipt]]
    /\ \A kinds \in Seq(ReplyKinds) : Complete(kinds) \in Receipt
<1>1. NoReceipt \in Receipt /\ Running \in Receipt
  BY EmptySeq DEF NoReceipt, Running, Receipt
<1>2. \A kinds \in Seq(ReplyKinds) : Complete(kinds) \in Receipt
  BY DEF Complete, Receipt
<1>3. NoReceipts \in [Requests -> Receipt]
  BY <1>1 DEF NoReceipts
<1>4. QED
  BY <1>1, <1>2, <1>3 DEF NotWriting

\* A frame is dispatched.
LEMMA DispatchType ==
    ASSUME TypeOK, DispatchAction
    PROVE  TypeOK'
<1> DEFINE r == Head(toNode)
<1>1. r \in Requests /\ toNode' \in Seq(Requests)
  BY HeadTailProperties DEF DispatchAction, TypeOK
<1>2. "notReady" \in ReplyKinds /\ "unstored" \in ReplyKinds
  BY DEF ReplyKinds
<1>3. CASE r \in NeedsWhatsApp /\ ~waReady
  <2>1. Emit(r, "notReady") /\ UNCHANGED <<cache, loaded, stage, writes, disk, faults>>
    BY <1>3 DEF DispatchAction
  <2>2. QED
    BY <1>1, <1>2, <2>1, EmitType DEF DispatchAction, TypeOK, pyVars
<1>4. CASE /\ loaded
           /\ Answer(r, cache)
           /\ UNCHANGED <<loaded, disk, faults>>
  <2>1. cache \in [Requests -> Receipt]
    BY DEF TypeOK
  <2>2. QED
    BY <1>1, <1>4, <2>1, AnswerType DEF DispatchAction, TypeOK, pyVars
<1>5. CASE /\ ~loaded
           /\ loaded' = TRUE
           /\ disk' = Pruned(disk)
           /\ Answer(r, Pruned(disk))
           /\ UNCHANGED faults
  <2>1. Pruned(disk) \in [Requests -> Receipt]
    BY PrunedType DEF TypeOK
  <2>2. QED
    BY <1>1, <1>5, <2>1, AnswerType DEF DispatchAction, TypeOK, pyVars
<1>6. CASE /\ ~loaded /\ Happens("io")
           /\ Emit(r, "unstored")
           /\ UNCHANGED <<cache, loaded, stage, writes, disk>>
  BY <1>1, <1>2, <1>6, EmitType, HappensType DEF DispatchAction, TypeOK, pyVars
<1>7. QED
  BY <1>3, <1>4, <1>5, <1>6 DEF DispatchAction

\* A receipt write ends.
LEMMA FinishWriteType ==
    ASSUME TypeOK, FinishWrite, writes # <<>>
    PROVE  TypeOK'
<1> DEFINE r == Head(writes)
<1>1. r \in Requests /\ writes' \in Seq(Requests)
  BY WritesType DEF FinishWrite
<1>2. snap' \in [writing : BOOLEAN, receipts : [Requests -> Receipt]]
  BY ReceiptConstants DEF FinishWrite
<1>3. PICK stored \in BOOLEAN :
        /\ IF stored THEN disk' = snap.receipts /\ UNCHANGED faults
           ELSE UNCHANGED disk /\ Happens("io")
        /\ \/ /\ stage[r] = "claiming" /\ stored
              /\ stage' = [stage EXCEPT ![r] = "executing"]
              /\ captured' = [captured EXCEPT ![r] = <<>>]
              /\ UNCHANGED <<cache, client, outQ, toPy>>
           \/ /\ stage[r] = "claiming" /\ ~stored
              /\ stage' = [stage EXCEPT ![r] = "none"]
              /\ cache' = [cache EXCEPT ![r] = NoReceipt]
              /\ SendReliable(Replies(r, <<"unstored">>))
              /\ UNCHANGED captured
           \/ /\ stage[r] = "storing"
              /\ stage' = [stage EXCEPT ![r] = "none"]
              /\ captured' = [captured EXCEPT ![r] = <<>>]
              /\ SendReliable(Replies(r, captured[r]))
              /\ UNCHANGED cache
  BY DEF FinishWrite
<1>4. disk' \in [Requests -> Receipt] /\ faults' \in Nat
  BY <1>3, HappensType DEF TypeOK
<1>5. stage' \in [Requests -> Stages]
  BY <1>3 DEF TypeOK, Stages
<1>6. captured' \in [Requests -> Seq(ReplyKinds)]
  <2>1. <<>> \in Seq(ReplyKinds)
    BY EmptySeq
  <2>2. captured' \in {captured, [captured EXCEPT ![r] = <<>>]}
    BY <1>3
  <2>3. QED
    BY <2>1, <2>2 DEF TypeOK
<1>7. cache' \in [Requests -> Receipt]
  BY <1>3, ReceiptConstants DEF TypeOK
<1>8. /\ Replies(r, <<"unstored">>) \in Seq(Reply)
      /\ Replies(r, captured[r]) \in Seq(Reply)
  <2>1. <<"unstored">> \in Seq(ReplyKinds) /\ captured[r] \in Seq(ReplyKinds)
    BY <1>1 DEF ReplyKinds, TypeOK
  <2>2. QED
    BY <1>1, <2>1, RepliesType
<1>9. /\ toPy' \in Seq(Reply) /\ outQ' \in Seq(Reply)
      /\ client' \in {"none", "half", "live"}
  BY <1>3, <1>8, SendReliableType DEF TypeOK
<1>10. QED
  BY <1>1, <1>2, <1>4, <1>5, <1>6, <1>7, <1>9 DEF FinishWrite, TypeOK, pyVars

\* A step of the gateway other than an execution.
LEMMA GatewayType ==
    ASSUME TypeOK, WriteHoldsClaim, Gateway
    PROVE  TypeOK'
<1>1. CASE StartWrite
  BY <1>1 DEF StartWrite, TypeOK, pyVars, linkVars, regVars
<1>2. CASE FinishWrite
  BY <1>2, FinishWriteType DEF FinishWrite, WriteHoldsClaim
<1>3. CASE NodeRestart
  BY <1>3, ReceiptConstants, EmptySeq, HappensType
  DEF NodeRestart, TypeOK, pyVars, Stages
<1>4. CASE WaOpen
  BY <1>4 DEF WaOpen, TypeOK, pyVars, linkVars, regVars, dispVars
<1>5. CASE WaClose
  BY <1>5, HappensType DEF WaClose, TypeOK, pyVars, linkVars, regVars, dispVars
<1>6. QED
  BY <1>1, <1>2, <1>3, <1>4, <1>5, DispatchType DEF Gateway

\* A step of an executing action.
LEMMA ExecuteType ==
    ASSUME TypeOK, NEW r \in Requests, Execute(r)
    PROVE  TypeOK'
<1>1. CASE Perform(r)
  BY <1>1 DEF Perform, TypeOK, Stages, pyVars, linkVars, regVars
<1>2. CASE Finish(r)
  <2>1. PICK kind \in {"ok", "failed", "unsent"} :
          /\ captured' = [captured EXCEPT ![r] = Append(@, kind)]
          /\ cache' = [cache EXCEPT ![r] = Complete(Append(captured[r], kind))]
          /\ stage' = [stage EXCEPT ![r] = "storing"]
          /\ UNCHANGED <<pyVars, linkVars, regVars, waReady, loaded, snap, disk,
                         effects, faults>>
    BY <1>2 DEF Finish, Completes
  <2>2. Append(captured[r], kind) \in Seq(ReplyKinds)
    BY <2>1, AppendProperties DEF ReplyKinds, TypeOK
  <2>3. captured' \in [Requests -> Seq(ReplyKinds)] /\ cache' \in [Requests -> Receipt]
    BY <2>1, <2>2, ReceiptConstants DEF TypeOK
  <2>4. stage' \in [Requests -> Stages]
    BY <2>1 DEF TypeOK, Stages
  <2>5. writes' \in Seq(Requests)
    BY <1>2, AppendProperties DEF Finish, TypeOK
  <2>6. QED
    BY <2>1, <2>3, <2>4, <2>5 DEF TypeOK, pyVars, linkVars, regVars
<1>3. QED
  BY <1>1, <1>2 DEF Execute
-----------------------------------------------------------------------------
(* Receipts: a request that reached WhatsApp has a receipt everywhere.     *)

\* Initially nothing was performed and nothing is being written.
LEMMA ReceiptInit == Init => TypeOK /\ ReceiptInv
<1> SUFFICES ASSUME Init PROVE TypeOK /\ ReceiptInv
  OBVIOUS
<1>1. TypeOK
  <2>1. /\ queue \in Seq(Requests) /\ toNode \in Seq(Requests) /\ writes \in Seq(Requests)
        /\ toPy \in Seq(Reply) /\ outQ \in Seq(Reply)
    BY EmptySeq DEF Init
  <2>2. captured \in [Requests -> Seq(ReplyKinds)]
    BY EmptySeq DEF Init
  <2>3. /\ cache \in [Requests -> Receipt] /\ disk \in [Requests -> Receipt]
        /\ snap \in [writing : BOOLEAN, receipts : [Requests -> Receipt]]
    BY ReceiptConstants DEF Init
  <2>4. /\ call \in [Requests -> CallStates] /\ stage \in [Requests -> Stages]
        /\ attempt \in [Requests -> 0 .. MaxAttempts]
        /\ effects \in [Requests -> Nat]
    BY BoundsAssumption DEF Init, CallStates, Stages
  <2>5. QED
    BY <2>1, <2>2, <2>3, <2>4 DEF Init, TypeOK
<1>2. ReceiptInv
  BY DEF Init, ReceiptInv, AtMostOnce, PerformedIsKept, ClaimsAreDurable,
         ChainHoldsClaims, WriteHoldsClaim, NotWriting
<1>3. QED
  BY <1>1, <1>2

\* Steps that leave dispatchAction's state and the receipt file alone.
LEMMA ReceiptFrame ==
    ASSUME ReceiptInv, UNCHANGED <<dispVars, disk, effects>>
    PROVE  ReceiptInv'
BY DEF ReceiptInv, AtMostOnce, PerformedIsKept, ClaimsAreDurable,
       ChainHoldsClaims, WriteHoldsClaim, dispVars

\* The pruning at load leaves kept receipts alone.
LEMMA PrunedKeeps ==
    ASSUME NEW receipts \in [Requests -> Receipt], NEW r \in Requests
    PROVE  /\ Kept(receipts[r]) => Pruned(receipts)[r] = receipts[r]
           /\ Pruned(receipts)[r] = receipts[r] \/ Pruned(receipts)[r] = NoReceipt
BY DEF Kept, Pruned

\* A running claim is a kept receipt; the absent receipt is not.
LEMMA RunningIsKept == Kept(Running) /\ ~Kept(NoReceipt) /\ Running # NoReceipt
BY DEF Kept, Running, NoReceipt

\* Emitting a reply adds it to the captured replies, or leaves them alone.
LEMMA EmitCaptured ==
    ASSUME NEW r, NEW kind, Emit(r, kind)
    PROVE  \/ /\ stage[r] \in {"executing", "executed"}
              /\ captured' = [captured EXCEPT ![r] = Append(@, kind)]
           \/ captured' = captured
BY DEF Emit

\* Capturing any reply but "unsent" keeps the captured replies free of it.
LEMMA CapturedStaysClean ==
    ASSUME NEW q \in Seq(ReplyKinds), NEW kind \in ReplyKinds, NEW bad,
           kind # bad, \A i \in DOMAIN q : q[i] # bad
    PROVE  \A i \in DOMAIN Append(q, kind) : Append(q, kind)[i] # bad
BY LenProperties, AppendProperties

-----------------------------------------------------------------------------
(* Every step preserves ReceiptInv.                                        *)

\* A duplicate, a refusal or an early answer changes no claim.
LEMMA EmitReceipts ==
    ASSUME TypeOK, ReceiptInv, NEW r \in Requests, NEW kind \in ReplyKinds,
           kind # "unsent", Emit(r, kind),
           UNCHANGED <<cache, loaded, stage, writes, snap, disk, effects>>
    PROVE  ReceiptInv'
<1>1. \A q \in Requests : stage[q] \in {"executing", "executed"} =>
        \A i \in DOMAIN captured'[q] : captured'[q][i] # "unsent"
  <2>1. CASE captured' = captured
    BY <2>1 DEF ReceiptInv, ClaimsAreDurable
  <2>2. CASE /\ stage[r] \in {"executing", "executed"}
             /\ captured' = [captured EXCEPT ![r] = Append(@, kind)]
    <3>1. \A i \in DOMAIN captured[r] : captured[r][i] # "unsent"
      BY <2>2 DEF ReceiptInv, ClaimsAreDurable
    <3>2. \A i \in DOMAIN Append(captured[r], kind) : Append(captured[r], kind)[i] # "unsent"
      BY <3>1, CapturedStaysClean DEF TypeOK
    <3>3. QED
      BY <2>2, <3>2 DEF ReceiptInv, ClaimsAreDurable, TypeOK
  <2>3. QED
    BY <2>1, <2>2, EmitCaptured
<1>2. ClaimsAreDurable'
  BY <1>1 DEF ReceiptInv, ClaimsAreDurable
<1>3. QED
  BY <1>2 DEF ReceiptInv, AtMostOnce, PerformedIsKept, ChainHoldsClaims,
                 WriteHoldsClaim

\* Appending a new element to a chain without duplicates: its head stays, its
\* elements are the old ones and the new one, and it has no duplicates.
LEMMA AppendDistinct ==
    ASSUME NEW S, NEW q \in Seq(S), NEW e \in S,
           \A i \in DOMAIN q : q[i] # e /\ \A j \in DOMAIN q : q[i] = q[j] => i = j
    PROVE  /\ \A i \in DOMAIN Append(q, e) :
                /\ Append(q, e)[i] = e \/ \E j \in DOMAIN q : Append(q, e)[i] = q[j]
                /\ \A j \in DOMAIN Append(q, e) :
                     Append(q, e)[i] = Append(q, e)[j] => i = j
           /\ Append(q, e) # <<>>
           /\ q # <<>> => Head(Append(q, e)) = Head(q)
<1>1. /\ Append(q, e) \in Seq(S) /\ Len(Append(q, e)) = Len(q) + 1
      /\ \A i \in 1 .. Len(q) : Append(q, e)[i] = q[i]
      /\ Append(q, e)[Len(q) + 1] = e
  BY AppendProperties
<1>2. /\ DOMAIN q = 1 .. Len(q) /\ Len(q) \in Nat
      /\ DOMAIN Append(q, e) = 1 .. Len(q) + 1
  BY <1>1, LenProperties
<1>3. \A i \in DOMAIN Append(q, e) :
        /\ Append(q, e)[i] = e \/ \E j \in DOMAIN q : Append(q, e)[i] = q[j]
        /\ \A j \in DOMAIN Append(q, e) : Append(q, e)[i] = Append(q, e)[j] => i = j
  BY <1>1, <1>2
<1>4. Append(q, e) # <<>>
  BY <1>1, <1>2, EmptySeq
<1>5. q # <<>> => Head(Append(q, e)) = Head(q)
  BY <1>1, <1>2, HeadTailProperties, EmptySeq
<1>6. QED
  BY <1>3, <1>4, <1>5

\* The tail of a chain without duplicates: it does not hold the head.
LEMMA TailDistinct ==
    ASSUME NEW S, NEW q \in Seq(S), q # <<>>,
           \A i \in DOMAIN q : \A j \in DOMAIN q : q[i] = q[j] => i = j
    PROVE  \A i \in DOMAIN Tail(q) :
             /\ Tail(q)[i] # Head(q) /\ \E j \in DOMAIN q : Tail(q)[i] = q[j]
             /\ \A j \in DOMAIN Tail(q) : Tail(q)[i] = Tail(q)[j] => i = j
<1>1. /\ Tail(q) \in Seq(S) /\ Len(Tail(q)) = Len(q) - 1
      /\ \A i \in 1 .. Len(Tail(q)) : Tail(q)[i] = q[i + 1]
      /\ Head(q) = q[1]
  BY HeadTailProperties
<1>2. /\ DOMAIN q = 1 .. Len(q) /\ Len(q) \in Nat /\ Len(q) >= 1
      /\ DOMAIN Tail(q) = 1 .. Len(q) - 1
  BY <1>1, LenProperties, EmptySeq
<1>3. QED
  BY <1>1, <1>2

\* Claiming a request that has no receipt: it did not reach WhatsApp, and the
\* write in progress, if any, belongs to another request.
LEMMA ClaimReceipts ==
    ASSUME TypeOK, ReceiptInv, NEW r \in Requests,
           NEW receipts \in [Requests -> Receipt],
           receipts[r] = NoReceipt, loaded', Claim(r, receipts),
           \A q \in Requests : effects[q] > 0 => Kept(receipts[q]),
           \A q \in Requests : stage[q] # "none" => receipts[q] = cache[q],
           \A q \in Requests : Kept(disk[q]) => Kept(disk'[q]),
           UNCHANGED <<snap, effects>>
    PROVE  ReceiptInv'
<1>1. effects[r] = 0
  BY RunningIsKept DEF TypeOK
<1>2. stage[r] = "none"
  BY DEF ReceiptInv, ClaimsAreDurable
<1>3. cache' = [receipts EXCEPT ![r] = Running] /\ cache'[r] = Running
  BY DEF Claim
<1>4. /\ stage' = [stage EXCEPT ![r] = "claiming"] /\ stage'[r] = "claiming"
      /\ captured' = captured /\ writes' = Append(writes, r)
  BY DEF Claim, TypeOK
<1>5. AtMostOnce'
  BY DEF ReceiptInv, AtMostOnce
<1>6. PerformedIsKept'
  BY <1>1, <1>3 DEF ReceiptInv, PerformedIsKept
<1>7. ClaimsAreDurable'
  <2> SUFFICES ASSUME NEW q \in Requests
               PROVE  (/\ stage[q] # "none" => loaded /\ cache[q] # NoReceipt
                       /\ stage[q] \in {"claiming", "executing", "executed"}
                             => cache[q] = Running
                       /\ stage[q] \in {"claiming", "executing"} => effects[q] = 0
                       /\ stage[q] = "executed" => effects[q] = 1
                       /\ stage[q] \in {"executing", "executed"}
                             => /\ Kept(disk[q])
                                /\ snap.writing => Kept(snap.receipts[q])
                                /\ \A i \in DOMAIN captured[q] : captured[q][i] # "unsent")'
    BY DEF ClaimsAreDurable
  <2>1. CASE q = r
    BY <1>1, <1>3, <1>4, <2>1, RunningIsKept
  <2>2. CASE q # r
    <3>1. stage'[q] = stage[q] /\ cache'[q] = receipts[q] /\ captured'[q] = captured[q]
      BY <1>3, <1>4, <2>2 DEF TypeOK
    <3>2. QED
      BY <3>1 DEF ReceiptInv, ClaimsAreDurable
  <2>3. QED
    BY <2>1, <2>2
<1>8. \A i \in DOMAIN writes : /\ writes[i] \in Requests /\ writes[i] # r
                              /\ stage[writes[i]] \in {"claiming", "storing"}
                              /\ \A j \in DOMAIN writes : writes[i] = writes[j] => i = j
  <2>1. \A i \in DOMAIN writes : writes[i] \in Requests
    BY LenProperties DEF TypeOK
  <2>2. \A i \in DOMAIN writes : stage[writes[i]] \in {"claiming", "storing"}
    BY DEF ReceiptInv, ChainHoldsClaims
  <2>3. \A i, j \in DOMAIN writes : writes[i] = writes[j] => i = j
    BY DEF ReceiptInv, ChainHoldsClaims
  <2>4. \A i \in DOMAIN writes : writes[i] # r
    BY <1>2, <2>2
  <2>5. QED
    BY <2>1, <2>2, <2>3, <2>4
<1>9. /\ \A i \in DOMAIN writes' :
           /\ writes'[i] = r \/ \E j \in DOMAIN writes : writes'[i] = writes[j]
           /\ \A j \in DOMAIN writes' : writes'[i] = writes'[j] => i = j
      /\ writes' # <<>>
      /\ writes # <<>> => Head(writes') = Head(writes)
  <2>1. writes \in Seq(Requests)
    BY DEF TypeOK
  <2>2. \A i \in DOMAIN writes :
          writes[i] # r /\ \A j \in DOMAIN writes : writes[i] = writes[j] => i = j
    BY <1>8
  <2>3. QED
    BY <1>4, <2>1, <2>2, AppendDistinct
<1>10. ChainHoldsClaims'
  BY <1>4, <1>8, <1>9 DEF ChainHoldsClaims, TypeOK
<1>11. WriteHoldsClaim'
  <2> SUFFICES ASSUME snap'.writing
               PROVE  stage'[Head(writes')] = "claiming"
                        => snap'.receipts[Head(writes')] = Running
    BY <1>9 DEF WriteHoldsClaim
  <2>1. writes # <<>> /\ (stage[Head(writes)] = "claiming"
                            => snap.receipts[Head(writes)] = Running)
    BY DEF ReceiptInv, WriteHoldsClaim
  <2>2. Head(writes) \in Requests /\ Head(writes) # r
    BY <1>8, <2>1, HeadTailProperties, LenProperties, EmptySeq DEF TypeOK
  <2>3. QED
    BY <1>4, <1>9, <2>1, <2>2 DEF TypeOK
<1>12. QED
  BY <1>5, <1>6, <1>7, <1>10, <1>11 DEF ReceiptInv

\* Receipts as they are when a frame is answered: replayed, refused or claimed.
LEMMA AnswerReceipts ==
    ASSUME TypeOK, ReceiptInv, NEW r \in Requests,
           NEW receipts \in [Requests -> Receipt],
           loaded', Answer(r, receipts),
           \A q \in Requests : effects[q] > 0 => Kept(receipts[q]),
           \A q \in Requests : stage[q] # "none" => receipts[q] = cache[q],
           \A q \in Requests : Kept(disk[q]) => Kept(disk'[q]),
           UNCHANGED <<snap, effects>>
    PROVE  ReceiptInv'
<1>1. CASE receipts[r] = NoReceipt
  BY <1>1, ClaimReceipts DEF Answer
<1>2. CASE receipts[r] # NoReceipt
  <2>1. AnswerFrom(receipts[r], r) /\ cache' = receipts /\ UNCHANGED <<stage, writes>>
    BY <1>2 DEF Answer
  <2>2. \A q \in Requests : stage[q] \in {"executing", "executed"} =>
          \A i \in DOMAIN captured'[q] : captured'[q][i] # "unsent"
    <3>1. CASE captured' = captured
      BY <3>1 DEF ReceiptInv, ClaimsAreDurable
    <3>2. CASE captured' # captured
      <4>1. /\ stage[r] \in {"executing", "executed"}
            /\ captured' = [captured EXCEPT ![r] = Append(@, "refused")]
        BY <2>1, <3>2, EmitCaptured DEF AnswerFrom
      <4>2. \A i \in DOMAIN captured[r] : captured[r][i] # "unsent"
        BY <4>1 DEF ReceiptInv, ClaimsAreDurable
      <4>3. \A i \in DOMAIN Append(captured[r], "refused") :
              Append(captured[r], "refused")[i] # "unsent"
        BY <4>2, CapturedStaysClean DEF TypeOK, ReplyKinds
      <4>4. QED
        BY <4>1, <4>3 DEF ReceiptInv, ClaimsAreDurable, TypeOK
    <3>3. QED
      BY <3>1, <3>2
  <2>3. ClaimsAreDurable'
    BY <2>1, <2>2 DEF ReceiptInv, ClaimsAreDurable
  <2>4. ChainHoldsClaims'
    BY <2>1 DEF ReceiptInv, ChainHoldsClaims
  <2>5. QED
    BY <2>1, <2>3, <2>4 DEF ReceiptInv, AtMostOnce, PerformedIsKept, WriteHoldsClaim
<1>3. QED
  BY <1>1, <1>2

\* A frame is dispatched: past the readiness gate, from the receipts in memory
\* or from those just read, or refused because they cannot be read.
LEMMA DispatchReceipts ==
    ASSUME TypeOK, ReceiptInv, DispatchAction
    PROVE  ReceiptInv'
<1> DEFINE r == Head(toNode)
<1>1. r \in Requests /\ UNCHANGED <<snap, effects>>
  BY HeadTailProperties DEF DispatchAction, TypeOK
<1>2. "notReady" \in ReplyKinds /\ "unstored" \in ReplyKinds
  BY DEF ReplyKinds
<1>3. CASE r \in NeedsWhatsApp /\ ~waReady
  <2>1. Emit(r, "notReady") /\ UNCHANGED <<cache, loaded, stage, writes, disk>>
    BY <1>3 DEF DispatchAction
  <2>2. QED
    BY <1>1, <1>2, <2>1, EmitReceipts
<1>4. CASE loaded /\ Answer(r, cache) /\ UNCHANGED <<loaded, disk>>
  <2>1. cache \in [Requests -> Receipt] /\ loaded'
    BY <1>4 DEF TypeOK
  <2>2. /\ \A q \in Requests : effects[q] > 0 => Kept(cache[q])
        /\ \A q \in Requests : Kept(disk[q]) => Kept(disk'[q])
    BY <1>4 DEF ReceiptInv, PerformedIsKept
  <2>3. QED
    BY <1>1, <1>4, <2>1, <2>2, AnswerReceipts
<1>5. CASE ~loaded /\ loaded' = TRUE /\ disk' = Pruned(disk) /\ Answer(r, Pruned(disk))
  <2>1. Pruned(disk) \in [Requests -> Receipt] /\ disk \in [Requests -> Receipt]
    BY PrunedType DEF TypeOK
  <2>2. \A q \in Requests : Kept(disk[q]) => Kept(Pruned(disk)[q])
    BY <2>1, PrunedKeeps
  <2>3. /\ \A q \in Requests : effects[q] > 0 => Kept(Pruned(disk)[q])
        /\ \A q \in Requests : Kept(disk[q]) => Kept(disk'[q])
    BY <1>5, <2>2 DEF ReceiptInv, PerformedIsKept
  <2>4. \A q \in Requests : stage[q] = "none"
    BY <1>5 DEF ReceiptInv, ClaimsAreDurable
  <2>5. QED
    BY <1>1, <1>5, <2>1, <2>3, <2>4, AnswerReceipts
<1>6. CASE /\ ~loaded /\ Emit(r, "unstored")
           /\ UNCHANGED <<cache, loaded, stage, writes, disk>>
  BY <1>1, <1>2, <1>6, EmitReceipts
<1>7. QED
  BY <1>3, <1>4, <1>5, <1>6 DEF DispatchAction

\* A write serialises the cache, which holds the receipts of all requests that
\* reached WhatsApp and the claim at the head of the chain.
LEMMA StartWriteReceipts ==
    ASSUME TypeOK, ReceiptInv, StartWrite
    PROVE  ReceiptInv'
<1>1. /\ writes # <<>> /\ snap' = [writing |-> TRUE, receipts |-> cache]
      /\ UNCHANGED <<cache, loaded, stage, captured, writes, disk, effects>>
  BY DEF StartWrite
<1>2. Head(writes) \in Requests /\ 1 \in DOMAIN writes /\ Head(writes) = writes[1]
  BY <1>1, WritesType, HeadTailProperties, LenProperties, EmptySeq DEF TypeOK
<1>3. loaded
  BY <1>2 DEF ReceiptInv, ChainHoldsClaims
<1>4. PerformedIsKept'
  BY <1>1, <1>3 DEF ReceiptInv, PerformedIsKept
<1>5. ClaimsAreDurable'
  BY <1>1, RunningIsKept DEF ReceiptInv, ClaimsAreDurable
<1>6. WriteHoldsClaim'
  BY <1>1, <1>2 DEF ReceiptInv, ClaimsAreDurable, WriteHoldsClaim
<1>7. QED
  BY <1>1, <1>4, <1>5, <1>6 DEF ReceiptInv, AtMostOnce, ChainHoldsClaims

\* A write ends.  The file is replaced by a copy that keeps every receipt that
\* matters, so an execution starts only with its claim in the file.
LEMMA FinishWriteReceipts ==
    ASSUME TypeOK, ReceiptInv, FinishWrite
    PROVE  ReceiptInv'
<1> DEFINE r == Head(writes)
<1>1. /\ snap.writing /\ snap' = NotWriting /\ writes' = Tail(writes)
      /\ UNCHANGED <<loaded, effects>>
  BY DEF FinishWrite
<1>2. /\ writes # <<>>
      /\ stage[r] = "claiming" => snap.receipts[r] = Running
  BY <1>1 DEF ReceiptInv, WriteHoldsClaim
<1>3. r \in Requests /\ 1 \in DOMAIN writes /\ r = writes[1]
  BY <1>2, WritesType, HeadTailProperties, LenProperties, EmptySeq DEF TypeOK
<1>4. ~snap'.writing
  BY <1>1 DEF NotWriting
<1>5. PICK stored \in BOOLEAN :
        /\ IF stored THEN disk' = snap.receipts ELSE UNCHANGED disk
        /\ \/ /\ stage[r] = "claiming" /\ stored
              /\ stage' = [stage EXCEPT ![r] = "executing"]
              /\ captured' = [captured EXCEPT ![r] = <<>>]
              /\ UNCHANGED cache
           \/ /\ stage[r] = "claiming" /\ ~stored
              /\ stage' = [stage EXCEPT ![r] = "none"]
              /\ cache' = [cache EXCEPT ![r] = NoReceipt]
              /\ UNCHANGED captured
           \/ /\ stage[r] = "storing"
              /\ stage' = [stage EXCEPT ![r] = "none"]
              /\ captured' = [captured EXCEPT ![r] = <<>>]
              /\ UNCHANGED cache
  BY DEF FinishWrite
<1>6. /\ \A q \in Requests : effects[q] > 0 => Kept(disk'[q])
      /\ \A q \in Requests : stage[q] \in {"executing", "executed"} => Kept(disk'[q])
  BY <1>1, <1>5 DEF ReceiptInv, PerformedIsKept, ClaimsAreDurable
<1>7. \A q \in Requests : q # r =>
        stage'[q] = stage[q] /\ cache'[q] = cache[q] /\ captured'[q] = captured[q]
  BY <1>5 DEF TypeOK
<1>8. stage[r] = "claiming" => effects[r] = 0
  BY <1>3 DEF ReceiptInv, ClaimsAreDurable
<1>9. PerformedIsKept'
  <2> SUFFICES ASSUME NEW q \in Requests, effects[q] > 0, loaded
               PROVE  Kept(cache'[q])
    BY <1>1, <1>4, <1>6 DEF PerformedIsKept
  <2>1. Kept(cache[q])
    BY DEF ReceiptInv, PerformedIsKept
  <2>2. CASE q = r
    <3>1. cache' = cache
      BY <1>5, <1>8, <2>2
    <3>2. QED
      BY <2>1, <3>1
  <2>3. QED
    BY <1>7, <2>1, <2>2
<1>10. ClaimsAreDurable'
  <2> SUFFICES ASSUME NEW q \in Requests
               PROVE  (/\ stage[q] # "none" => loaded /\ cache[q] # NoReceipt
                       /\ stage[q] \in {"claiming", "executing", "executed"}
                             => cache[q] = Running
                       /\ stage[q] \in {"claiming", "executing"} => effects[q] = 0
                       /\ stage[q] = "executed" => effects[q] = 1
                       /\ stage[q] \in {"executing", "executed"}
                             => /\ Kept(disk[q])
                                /\ snap.writing => Kept(snap.receipts[q])
                                /\ \A i \in DOMAIN captured[q] : captured[q][i] # "unsent")'
    BY DEF ClaimsAreDurable
  <2>1. CASE q # r
    BY <1>1, <1>4, <1>6, <1>7, <2>1 DEF ReceiptInv, ClaimsAreDurable
  <2>2. CASE q = r /\ stage[r] = "claiming" /\ stored
    <3>1. /\ stage'[r] = "executing" /\ captured'[r] = <<>> /\ cache' = cache
          /\ disk'[r] = Running
      BY <1>2, <1>3, <1>5, <2>2 DEF TypeOK
    <3>2. loaded /\ cache[r] = Running
      BY <1>3, <2>2 DEF ReceiptInv, ClaimsAreDurable
    <3>3. QED
      BY <1>1, <1>4, <1>8, <2>2, <3>1, <3>2, RunningIsKept
  <2>3. CASE q = r /\ ~(stage[r] = "claiming" /\ stored)
    <3>1. stage'[r] = "none"
      BY <1>3, <1>5, <2>3 DEF TypeOK
    <3>2. QED
      BY <2>3, <3>1
  <2>4. QED
    BY <2>1, <2>2, <2>3
<1>11. ChainHoldsClaims'
  <2>1. \A i \in DOMAIN writes : \A j \in DOMAIN writes : writes[i] = writes[j] => i = j
    BY DEF ReceiptInv, ChainHoldsClaims
  <2>2. \A i \in DOMAIN Tail(writes) :
          /\ Tail(writes)[i] # r /\ \E j \in DOMAIN writes : Tail(writes)[i] = writes[j]
          /\ \A j \in DOMAIN Tail(writes) : Tail(writes)[i] = Tail(writes)[j] => i = j
    BY <1>2, <2>1, TailDistinct DEF TypeOK
  <2>3. \A i \in DOMAIN writes : writes[i] \in Requests
    BY LenProperties DEF TypeOK
  <2>4. QED
    BY <1>1, <1>7, <2>2, <2>3 DEF ReceiptInv, ChainHoldsClaims
<1>12. QED
  BY <1>1, <1>4, <1>9, <1>10, <1>11 DEF ReceiptInv, AtMostOnce, WriteHoldsClaim

\* An executing request has no write on the chain.
LEMMA NotOnChain ==
    ASSUME TypeOK, ReceiptInv, NEW r \in Requests,
           stage[r] \in {"none", "executing", "executed"}
    PROVE  \A i \in DOMAIN writes : writes[i] \in Requests /\ writes[i] # r
<1>1. \A i \in DOMAIN writes : writes[i] \in Requests
  BY LenProperties DEF TypeOK
<1>2. \A i \in DOMAIN writes : stage[writes[i]] \in {"claiming", "storing"}
  BY DEF ReceiptInv, ChainHoldsClaims
<1>3. QED
  BY <1>1, <1>2

\* A claimed request reaches WhatsApp, for the first time.
LEMMA PerformReceipts ==
    ASSUME TypeOK, ReceiptInv, NEW r \in Requests, Perform(r)
    PROVE  ReceiptInv'
<1>1. /\ stage[r] = "executing" /\ effects[r] = 0 /\ cache[r] = Running
      /\ Kept(disk[r])
      /\ snap.writing => Kept(snap.receipts[r])
  BY DEF Perform, ReceiptInv, ClaimsAreDurable
<1>2. /\ stage' = [stage EXCEPT ![r] = "executed"]
      /\ effects' = [effects EXCEPT ![r] = @ + 1]
      /\ UNCHANGED <<cache, loaded, captured, writes, snap, disk>>
  BY DEF Perform
<1>3. effects'[r] = 1 /\ stage'[r] = "executed"
  BY <1>1, <1>2 DEF TypeOK
<1>4. \A q \in Requests : q # r => stage'[q] = stage[q] /\ effects'[q] = effects[q]
  BY <1>2 DEF TypeOK
<1>5. AtMostOnce'
  BY <1>3, <1>4 DEF ReceiptInv, AtMostOnce
<1>6. PerformedIsKept'
  BY <1>1, <1>2, <1>4, RunningIsKept DEF ReceiptInv, PerformedIsKept
<1>7. ClaimsAreDurable'
  BY <1>1, <1>2, <1>3, <1>4 DEF ReceiptInv, ClaimsAreDurable
<1>8. \A i \in DOMAIN writes : writes[i] \in Requests /\ writes[i] # r
  BY <1>1, NotOnChain
<1>9. ChainHoldsClaims'
  BY <1>2, <1>4, <1>8 DEF ReceiptInv, ChainHoldsClaims
<1>10. WriteHoldsClaim'
  BY <1>2, <1>4, <1>8, WritesType DEF ReceiptInv, WriteHoldsClaim, TypeOK
<1>11. QED
  BY <1>5, <1>6, <1>7, <1>9, <1>10 DEF ReceiptInv

\* The action ends.  Only an action that reached nobody may be stored as unsent.
LEMMA FinishReceipts ==
    ASSUME TypeOK, ReceiptInv, NEW r \in Requests, Finish(r)
    PROVE  ReceiptInv'
<1>1. PICK kind \in {"ok", "failed", "unsent"} :
        /\ kind = "ok" => stage[r] = "executed"
        /\ kind = "failed" => stage[r] \in {"executing", "executed"}
        /\ kind = "unsent" => stage[r] = "executing"
        /\ captured' = [captured EXCEPT ![r] = Append(@, kind)]
        /\ cache' = [cache EXCEPT ![r] = Complete(Append(captured[r], kind))]
        /\ stage' = [stage EXCEPT ![r] = "storing"]
        /\ UNCHANGED <<loaded, snap, disk, effects>>
  BY DEF Finish, Completes
<1>2. stage[r] \in {"executing", "executed"} /\ writes' = Append(writes, r)
  BY <1>1 DEF Finish
<1>3. /\ cache'[r] = Complete(Append(captured[r], kind)) /\ stage'[r] = "storing"
      /\ \A q \in Requests : q # r => /\ stage'[q] = stage[q] /\ cache'[q] = cache[q]
                                      /\ captured'[q] = captured[q]
  BY <1>1 DEF TypeOK
<1>4. cache'[r] # NoReceipt
  BY <1>3 DEF Complete, NoReceipt
<1>5. effects[r] > 0 => Kept(cache'[r])
  <2> SUFFICES ASSUME effects[r] > 0 PROVE Kept(cache'[r])
    OBVIOUS
  <2>1. stage[r] # "executing"
    BY DEF ReceiptInv, ClaimsAreDurable
  <2>2. kind # "unsent" /\ kind \in ReplyKinds
    BY <1>1, <2>1 DEF ReplyKinds
  <2>3. \A i \in DOMAIN captured[r] : captured[r][i] # "unsent"
    BY <1>2 DEF ReceiptInv, ClaimsAreDurable
  <2>4. \A i \in DOMAIN Append(captured[r], kind) : Append(captured[r], kind)[i] # "unsent"
    BY <2>2, <2>3, CapturedStaysClean DEF TypeOK
  <2>5. QED
    BY <1>3, <1>4, <2>4 DEF Kept, Complete
<1>6. PerformedIsKept'
  BY <1>1, <1>3, <1>5 DEF ReceiptInv, PerformedIsKept
<1>7. loaded
  BY <1>2 DEF ReceiptInv, ClaimsAreDurable
<1>8. ClaimsAreDurable'
  BY <1>1, <1>3, <1>4, <1>7 DEF ReceiptInv, ClaimsAreDurable
<1>9. \A i \in DOMAIN writes : writes[i] \in Requests /\ writes[i] # r
  BY <1>2, NotOnChain
<1>10. /\ \A i \in DOMAIN writes' :
            /\ writes'[i] = r \/ \E j \in DOMAIN writes : writes'[i] = writes[j]
            /\ \A j \in DOMAIN writes' : writes'[i] = writes'[j] => i = j
       /\ writes' # <<>>
       /\ writes # <<>> => Head(writes') = Head(writes)
  <2>1. writes \in Seq(Requests)
    BY DEF TypeOK
  <2>2. \A i \in DOMAIN writes :
          writes[i] # r /\ \A j \in DOMAIN writes : writes[i] = writes[j] => i = j
    BY <1>9 DEF ReceiptInv, ChainHoldsClaims
  <2>3. QED
    BY <1>2, <2>1, <2>2, AppendDistinct
<1>11. ChainHoldsClaims'
  <2>1. \A i \in DOMAIN writes' : stage'[writes'[i]] \in {"claiming", "storing"}
    BY <1>3, <1>9, <1>10 DEF ReceiptInv, ChainHoldsClaims
  <2>2. QED
    BY <1>1, <1>7, <1>10, <2>1 DEF ChainHoldsClaims
<1>12. WriteHoldsClaim'
  <2> SUFFICES ASSUME snap.writing
               PROVE  stage'[Head(writes')] = "claiming"
                        => snap.receipts[Head(writes')] = Running
    BY <1>1, <1>10 DEF WriteHoldsClaim
  <2>1. writes # <<>> /\ (stage[Head(writes)] = "claiming"
                            => snap.receipts[Head(writes)] = Running)
    BY DEF ReceiptInv, WriteHoldsClaim
  <2>2. Head(writes) \in Requests /\ Head(writes') = Head(writes)
    BY <1>10, <2>1, WritesType
  <2>3. QED
    BY <1>3, <2>1, <2>2
<1>13. QED
  BY <1>1, <1>6, <1>8, <1>11, <1>12 DEF ReceiptInv, AtMostOnce

\* A restarted gateway has claimed nothing and writes nothing.
LEMMA RestartReceipts ==
    ASSUME TypeOK, ReceiptInv, NodeRestart
    PROVE  ReceiptInv'
BY DEF NodeRestart, NotWriting, ReceiptInv, AtMostOnce, PerformedIsKept,
       ClaimsAreDurable, ChainHoldsClaims, WriteHoldsClaim

\* Callers, the bridge, the link and WhatsApp's state do not touch receipts.
LEMMA OthersReceipts ==
    ASSUME ReceiptInv,
           (\E r \in Requests : Caller(r)) \/ Bridge \/ Link \/ WaOpen \/ WaClose
    PROVE  ReceiptInv'
<1>1. CASE \E r \in Requests : Caller(r)
  <2>1. UNCHANGED <<dispVars, disk, effects>>
    BY <1>1 DEF Caller, Start, SendTimeout, AckTimeout, MarkDone
  <2>2. QED
    BY <2>1, ReceiptFrame
<1>2. CASE Bridge
  <2>1. UNCHANGED <<dispVars, disk, effects>>
    BY <1>2 DEF Bridge, ReceiveReply, Disconnect, PyRestart
  <2>2. QED
    BY <2>1, ReceiptFrame
<1>3. CASE Link
  <2>1. UNCHANGED <<dispVars, disk, effects>>
    BY <1>3 DEF Link, Connect, BindClient, HelloAck, Drop, NodeClose, RejectBeforeHello
  <2>2. QED
    BY <2>1, ReceiptFrame
<1>4. CASE WaOpen \/ WaClose
  BY <1>4, ReceiptFrame DEF WaOpen, WaClose
<1>5. QED
  BY <1>1, <1>2, <1>3, <1>4

\* ReceiptInv is inductive relative to the types.
LEMMA ReceiptStep ==
    ASSUME TypeOK, ReceiptInv, [Next]_vars
    PROVE  TypeOK' /\ ReceiptInv'
<1>1. CASE UNCHANGED vars
  BY <1>1, ReceiptFrame
  DEF vars, pyVars, linkVars, regVars, dispVars, TypeOK
<1>2. ASSUME NEW r \in Requests, Caller(r) PROVE TypeOK' /\ ReceiptInv'
  BY <1>2, CallerType, OthersReceipts
<1>3. ASSUME NEW r \in Requests, Execute(r) PROVE TypeOK' /\ ReceiptInv'
  BY <1>3, ExecuteType, PerformReceipts, FinishReceipts DEF Execute
<1>4. CASE Bridge
  BY <1>4, BridgeType, OthersReceipts
<1>5. CASE Link
  BY <1>5, LinkType, OthersReceipts
<1>6. CASE Gateway
  <2>1. TypeOK'
    BY <1>6, GatewayType DEF ReceiptInv
  <2>2. ReceiptInv'
    BY <1>6, DispatchReceipts, StartWriteReceipts, FinishWriteReceipts,
       RestartReceipts, OthersReceipts DEF Gateway
  <2>3. QED
    BY <2>1, <2>2
<1>7. QED
  BY <1>1, <1>2, <1>3, <1>4, <1>5, <1>6 DEF Next

\* The two invariants hold in every reachable state.
LEMMA ReceiptsInvariant == Spec => [](TypeOK /\ ReceiptInv)
<1>1. Init => TypeOK /\ ReceiptInv
  BY ReceiptInit
<1>2. TypeOK /\ ReceiptInv /\ [Next]_vars => (TypeOK /\ ReceiptInv)'
  BY ReceiptStep
<1>3. QED
  BY <1>1, <1>2, PTL DEF Spec

-----------------------------------------------------------------------------
(* No caller is told ok of a request that did not reach WhatsApp.           *)

\* Neither the caller of q nor a frame on its way says ok; no receipt does.
Told(q, cl, tp, oq) ==
    cl[q] \notin {"ok", "done"} /\ NoOkFor(tp, q) /\ NoOkFor(oq, q)
Stored(q, cp, ca, di, sn) ==
    /\ NoOk(cp[q]) /\ NoOk(ca[q].frames) /\ NoOk(di[q].frames)
    /\ NoOk(sn.receipts[q].frames)

LEMMA EarnedNow ==
    ASSUME OkIsEarned, NEW q \in Requests, effects[q] = 0
    PROVE  Told(q, call, toPy, outQ) /\ Stored(q, captured, cache, disk, snap)
BY DEF OkIsEarned, Told, Stored

LEMMA EarnedNext ==
    ASSUME \A q \in Requests : effects'[q] = 0 =>
             Told(q, call', toPy', outQ') /\ Stored(q, captured', cache', disk', snap')
    PROVE  OkIsEarned'
BY DEF OkIsEarned, Told, Stored, NoOk, NoOkFor

\* A step that leaves the receipts alone, or one that leaves the callers and
\* the frames alone.
LEMMA EarnedTold ==
    ASSUME OkIsEarned, UNCHANGED <<captured, cache, disk, snap, effects>>,
           \A q \in Requests : effects[q] = 0 /\ Told(q, call, toPy, outQ)
                                 => Told(q, call', toPy', outQ')
    PROVE  OkIsEarned'
<1>1. \A q \in Requests : effects'[q] = 0 =>
        Told(q, call', toPy', outQ') /\ Stored(q, captured', cache', disk', snap')
  BY EarnedNow
<1>2. QED
  BY <1>1, EarnedNext

LEMMA EarnedStored ==
    ASSUME OkIsEarned, UNCHANGED <<call, toPy, outQ>>,
           \A q \in Requests : effects'[q] = 0 => effects[q] = 0,
           \A q \in Requests : effects'[q] = 0 /\ Stored(q, captured, cache, disk, snap)
                                 => Stored(q, captured', cache', disk', snap')
    PROVE  OkIsEarned'
<1>1. \A q \in Requests : effects'[q] = 0 =>
        Told(q, call', toPy', outQ') /\ Stored(q, captured', cache', disk', snap')
  BY EarnedNow
<1>2. QED
  BY <1>1, EarnedNext

\* Frames that are joined, cut or made of kinds say ok only if one of them did.
LEMMA NoOkConcat ==
    ASSUME NEW a \in Seq(Reply), NEW b \in Seq(Reply), NEW q, NoOkFor(a, q), NoOkFor(b, q)
    PROVE  NoOkFor(a \o b, q)
BY ConcatProperties, LenProperties DEF NoOkFor

LEMMA NoOkTail ==
    ASSUME NEW a \in Seq(Reply), a # <<>>, NEW q, NoOkFor(a, q)
    PROVE  NoOkFor(Tail(a), q)
<1>1. /\ Tail(a) \in Seq(Reply) /\ Len(Tail(a)) = Len(a) - 1 /\ Len(a) \in Nat
      /\ \A i \in 1 .. Len(Tail(a)) : Tail(a)[i] = a[i + 1]
  BY HeadTailProperties, LenProperties
<1>2. DOMAIN Tail(a) = 1 .. Len(a) - 1 /\ DOMAIN a = 1 .. Len(a)
  BY <1>1, LenProperties
<1>3. QED
  BY <1>1, <1>2 DEF NoOkFor

LEMMA NoOkNewest ==
    ASSUME NEW a \in Seq(Reply), NEW q, NoOkFor(a, q)
    PROVE  NoOkFor(KeepNewest(a), q)
<1>1. CASE Len(a) <= NodeQueueMax
  BY <1>1 DEF KeepNewest
<1>2. CASE ~(Len(a) <= NodeQueueMax)
  <2> DEFINE m == Len(a) - NodeQueueMax + 1
  <2>1. Len(a) \in Nat /\ NodeQueueMax \in Nat /\ m \in Int /\ m >= 1 /\ DOMAIN a = 1 .. Len(a)
    BY <1>2, LenProperties, BoundsAssumption
  <2>2. \A i \in m .. Len(a) : a[i] \in Reply
    BY <2>1, LenProperties
  <2>3. PICK b : b = SubSeq(a, m, Len(a))
    OBVIOUS
  <2>4. /\ b \in Seq(Reply)
        /\ \A i \in 1 .. Len(b) : b[i] = a[m + i - 1] /\ m + i - 1 \in 1 .. Len(a)
    <3>1. /\ b \in Seq(Reply)
          /\ Len(b) = IF m <= Len(a) THEN Len(a) - m + 1 ELSE 0
          /\ \A i \in 1 .. Len(a) - m + 1 : b[i] = a[m + i - 1]
      BY <2>1, <2>2, <2>3, SubSeqProperties
    <3>2. QED
      BY <2>1, <3>1
  <2>5. DOMAIN b = 1 .. Len(b)
    BY <2>4, LenProperties
  <2>6. NoOkFor(b, q)
    BY <2>1, <2>4, <2>5 DEF NoOkFor
  <2>7. QED
    BY <1>2, <2>3, <2>6 DEF KeepNewest
<1>3. QED
  BY <1>1, <1>2

LEMMA NoOkReplies ==
    ASSUME NEW r \in Requests, NEW kinds \in Seq(ReplyKinds), NEW q,
           q = r => NoOk(kinds)
    PROVE  NoOkFor(Replies(r, kinds), q)
<1>1. PICK f : f = Replies(r, kinds)
  OBVIOUS
<1>2. \A i \in DOMAIN f : i \in DOMAIN kinds /\ f[i] = [req |-> r, kind |-> kinds[i]]
  BY <1>1, RepliesType
<1>3. \A i \in DOMAIN f : f[i].req = r /\ f[i].kind = kinds[i] /\ (q = r => kinds[i] # "ok")
  BY <1>2 DEF NoOk
<1>4. NoOkFor(f, q)
  BY <1>3 DEF NoOkFor
<1>5. QED
  BY <1>1, <1>4

\* One kind, and one kind more.
LEMMA NoOkOne ==
    ASSUME NEW kind \in ReplyKinds, kind # "ok"
    PROVE  <<kind>> \in Seq(ReplyKinds) /\ NoOk(<<kind>>)
BY DEF NoOk

LEMMA NoOkAppend ==
    ASSUME NEW kinds \in Seq(ReplyKinds), NEW kind \in ReplyKinds, kind # "ok", NoOk(kinds)
    PROVE  NoOk(Append(kinds, kind))
BY CapturedStaysClean DEF NoOk

LEMMA NoOkConstants == NoOk(<<>>) /\ NoOk(NoReceipt.frames) /\ NoOk(Running.frames)
BY DEF NoOk, NoReceipt, Running

\* Frames are sent to the bridge.
LEMMA SentFrames ==
    ASSUME TypeOK, NEW frames \in Seq(Reply), SendReliable(frames), NEW q,
           NoOkFor(frames, q), NoOkFor(toPy, q), NoOkFor(outQ, q)
    PROVE  NoOkFor(toPy', q) /\ NoOkFor(outQ', q)
<1>1. toPy \in Seq(Reply) /\ outQ \in Seq(Reply)
  BY DEF TypeOK
<1>2. NoOkFor(toPy \o frames, q) /\ NoOkFor(KeepNewest(outQ \o frames), q)
  BY <1>1, NoOkConcat, NoOkNewest, ConcatProperties
<1>3. QED
  BY <1>2 DEF SendReliable

\* A reply that is not ok is sent, or captured while the request executes.
LEMMA EmittedFrames ==
    ASSUME TypeOK, NEW r \in Requests, NEW kind \in ReplyKinds, kind # "ok", Emit(r, kind),
           NEW q \in Requests, NoOkFor(toPy, q), NoOkFor(outQ, q), NoOk(captured[q])
    PROVE  NoOkFor(toPy', q) /\ NoOkFor(outQ', q) /\ NoOk(captured'[q])
<1>1. CASE stage[r] \in {"executing", "executed"}
  <2>1. captured' = [captured EXCEPT ![r] = Append(@, kind)] /\ UNCHANGED <<outQ, toPy>>
    BY <1>1 DEF Emit
  <2>2. captured'[q] = captured[q] \/ (q = r /\ captured'[q] = Append(captured[q], kind))
    BY <2>1 DEF TypeOK
  <2>3. captured[q] \in Seq(ReplyKinds)
    BY DEF TypeOK
  <2>4. QED
    BY <2>1, <2>2, <2>3, NoOkAppend
<1>2. CASE stage[r] \notin {"executing", "executed"}
  <2>1. SendReliable(Replies(r, <<kind>>)) /\ captured' = captured
    BY <1>2 DEF Emit
  <2>2. Replies(r, <<kind>>) \in Seq(Reply) /\ NoOkFor(Replies(r, <<kind>>), q)
    BY NoOkOne, NoOkReplies, RepliesType
  <2>3. QED
    BY <2>1, <2>2, SentFrames
<1>3. QED
  BY <1>1, <1>2

LEMMA CallerEarned ==
    ASSUME TypeOK, OkIsEarned, NEW r \in Requests, Caller(r)
    PROVE  OkIsEarned'
<1>1. UNCHANGED <<captured, cache, disk, snap, effects, toPy, outQ>>
  BY DEF Caller, Start, SendTimeout, AckTimeout, MarkDone, dispVars, linkVars, regVars
<1>2. PICK x : call' = [call EXCEPT ![r] = x] /\ (x \in {"ok", "done"} => call[r] = "ok")
  BY DEF Caller, Start, SendTimeout, AckTimeout, MarkDone, Transmit, Delivered
<1>3. \A q \in Requests : call'[q] = call[q] \/ (q = r /\ call'[q] = x)
  BY <1>2 DEF TypeOK
<1>4. \A q \in Requests : Told(q, call, toPy, outQ) => Told(q, call', toPy', outQ')
  BY <1>1, <1>2, <1>3 DEF Told
<1>5. QED
  BY <1>1, <1>4, EarnedTold

\* Only an ok that was sent for the request settles its future as ok.
LEMMA BridgeEarned ==
    ASSUME TypeOK, OkIsEarned, Bridge
    PROVE  OkIsEarned'
<1>1. UNCHANGED <<captured, cache, disk, snap, effects, outQ>>
  BY DEF Bridge, ReceiveReply, Disconnect, PyRestart, dispVars, regVars
<1>2. CASE ReceiveReply
  <2> DEFINE reply == Head(toPy)
  <2>1. /\ toPy # <<>> /\ toPy' = Tail(toPy)
        /\ call' = IF call[reply.req] = "awaiting"
                   THEN [call EXCEPT ![reply.req] = IF reply.kind = "ok" THEN "ok" ELSE "error"]
                   ELSE call
    BY <1>2 DEF ReceiveReply
  <2>2. toPy \in Seq(Reply) /\ call \in [Requests -> CallStates]
    BY DEF TypeOK
  <2>3. reply \in Reply /\ reply = toPy[1] /\ 1 \in DOMAIN toPy
    BY <2>1, <2>2, HeadTailProperties, LenProperties, EmptySeq
  <2>4. reply = [req |-> reply.req, kind |-> reply.kind] /\ reply.req \in Requests
    BY <2>3 DEF Reply
  <2>5. ASSUME NEW q \in Requests, Told(q, call, toPy, outQ)
        PROVE  Told(q, call', toPy', outQ')
    <3>1. NoOkFor(toPy', q)
      BY <2>1, <2>2, <2>5, NoOkTail DEF Told
    <3>2. reply # [req |-> q, kind |-> "ok"]
      BY <2>3, <2>5 DEF Told, NoOkFor
    <3>3. reply.req = q => reply.kind # "ok"
      BY <2>4, <3>2
    <3>4. call'[q] \notin {"ok", "done"}
      <4> HIDE DEF reply
      <4>1. call[q] \notin {"ok", "done"}
        BY <2>5 DEF Told
      <4>2. QED
        BY <2>1, <2>2, <2>4, <3>3, <4>1
    <3>5. QED
      BY <1>1, <2>5, <3>1, <3>4 DEF Told
  <2>6. QED
    BY <1>1, <2>5, EarnedTold
<1>3. CASE Disconnect \/ PyRestart
  <2>1. toPy' = <<>>
    BY <1>3 DEF Disconnect, PyRestart, LoseConnection
  <2>2. \A q \in Requests : call'[q] \in {"ok", "done"} => call[q] \in {"ok", "done"}
    BY <1>3 DEF Disconnect, PyRestart, AfterWrite, Delivered
  <2>3. \A q \in Requests : Told(q, call, toPy, outQ) => Told(q, call', toPy', outQ')
    BY <1>1, <2>1, <2>2 DEF Told, NoOkFor
  <2>4. QED
    BY <1>1, <2>3, EarnedTold
<1>4. QED
  BY <1>2, <1>3 DEF Bridge

\* Frames move from the gateway's queue to the link, or are lost.
LEMMA LinkEarned ==
    ASSUME TypeOK, OkIsEarned, Link
    PROVE  OkIsEarned'
<1>1. UNCHANGED <<captured, cache, disk, snap, effects>>
  BY DEF Link, Connect, BindClient, HelloAck, Drop, NodeClose, RejectBeforeHello, dispVars
<1>2. toPy' \in {toPy, outQ, <<>>} /\ outQ' \in {outQ, <<>>}
  BY DEF Link, Connect, BindClient, HelloAck, Drop, NodeClose, RejectBeforeHello, regVars,
         LoseConnection
<1>3. \A q \in Requests : call'[q] \in {"ok", "done"} => call[q] \in {"ok", "done"}
  BY DEF Link, Connect, BindClient, HelloAck, Drop, NodeClose, RejectBeforeHello, pyVars,
         AfterWrite, Delivered
<1>4. \A q \in Requests : Told(q, call, toPy, outQ) => Told(q, call', toPy', outQ')
  BY <1>2, <1>3 DEF Told, NoOkFor
<1>5. QED
  BY <1>1, <1>4, EarnedTold

\* A receipt answers for its request only.
LEMMA AnswerEarned ==
    ASSUME TypeOK, NEW r \in Requests, NEW receipts \in [Requests -> Receipt],
           Answer(r, receipts), NEW q \in Requests, Told(q, call, toPy, outQ),
           NoOk(captured[q]), NoOk(receipts[q].frames)
    PROVE  /\ NoOkFor(toPy', q) /\ NoOkFor(outQ', q)
           /\ NoOk(captured'[q]) /\ NoOk(cache'[q].frames)
<1>1. CASE receipts[r] = NoReceipt
  <2>1. cache' = [receipts EXCEPT ![r] = Running] /\ UNCHANGED <<captured, outQ, toPy>>
    BY <1>1 DEF Answer, Claim
  <2>2. cache'[q] = Running \/ cache'[q] = receipts[q]
    BY <2>1
  <2>3. QED
    BY <2>1, <2>2, NoOkConstants DEF Told
<1>2. CASE receipts[r] # NoReceipt
  <2>1. AnswerFrom(receipts[r], r) /\ cache' = receipts
    BY <1>2 DEF Answer
  <2>2. CASE receipts[r].state = "running"
    <3>1. Emit(r, "refused")
      BY <2>1, <2>2 DEF AnswerFrom
    <3>2. "refused" \in ReplyKinds
      BY DEF ReplyKinds
    <3>3. QED
      BY <2>1, <3>1, <3>2, EmittedFrames DEF Told
  <2>3. CASE receipts[r].state # "running"
    <3>1. SendReliable(Replies(r, receipts[r].frames)) /\ captured' = captured
      BY <2>1, <2>3 DEF AnswerFrom
    <3>2. receipts[r].frames \in Seq(ReplyKinds)
      BY DEF Receipt
    <3>3. /\ Replies(r, receipts[r].frames) \in Seq(Reply)
          /\ NoOkFor(Replies(r, receipts[r].frames), q)
      BY <3>2, RepliesType, NoOkReplies
    <3>4. QED
      BY <2>1, <3>1, <3>3, SentFrames DEF Told
  <2>4. QED
    BY <2>2, <2>3
<1>3. QED
  BY <1>1, <1>2

LEMMA DispatchEarned ==
    ASSUME TypeOK, OkIsEarned, DispatchAction
    PROVE  OkIsEarned'
<1> DEFINE r == Head(toNode)
<1>1. r \in Requests /\ UNCHANGED <<call, snap, effects>>
  BY HeadTailProperties DEF DispatchAction, TypeOK, pyVars
<1>2. "notReady" \in ReplyKinds /\ "unstored" \in ReplyKinds
  BY DEF ReplyKinds
<1>3. \/ /\ Emit(r, "notReady") \/ Emit(r, "unstored")
         /\ UNCHANGED <<cache, disk>>
      \/ Answer(r, cache) /\ UNCHANGED disk
      \/ Answer(r, Pruned(disk)) /\ disk' = Pruned(disk)
  BY DEF DispatchAction
<1>4. ASSUME NEW q \in Requests, effects[q] = 0
      PROVE  Told(q, call', toPy', outQ') /\ Stored(q, captured', cache', disk', snap')
  <2>1. Told(q, call, toPy, outQ) /\ Stored(q, captured, cache, disk, snap)
    BY <1>4, EarnedNow
  <2>2. CASE (Emit(r, "notReady") \/ Emit(r, "unstored")) /\ UNCHANGED <<cache, disk>>
    <3>1. NoOkFor(toPy', q) /\ NoOkFor(outQ', q) /\ NoOk(captured'[q])
      <4>1. NoOkFor(toPy, q) /\ NoOkFor(outQ, q) /\ NoOk(captured[q])
        BY <2>1 DEF Told, Stored
      <4> HIDE DEF r
      <4>2. QED
        BY <1>1, <1>2, <2>2, <4>1, EmittedFrames
    <3>2. QED
      BY <1>1, <2>1, <2>2, <3>1 DEF Told, Stored
  <2>3. CASE Answer(r, cache) /\ UNCHANGED disk
    <3>1. cache \in [Requests -> Receipt]
      BY DEF TypeOK
    <3>2. NoOk(captured[q]) /\ NoOk(cache[q].frames)
      BY <2>1 DEF Stored
    <3>3. /\ NoOkFor(toPy', q) /\ NoOkFor(outQ', q)
          /\ NoOk(captured'[q]) /\ NoOk(cache'[q].frames)
      BY <1>1, <2>1, <2>3, <3>1, <3>2, AnswerEarned
    <3>4. QED
      BY <1>1, <2>1, <2>3, <3>3 DEF Told, Stored
  <2>4. CASE Answer(r, Pruned(disk)) /\ disk' = Pruned(disk)
    <3>1. disk \in [Requests -> Receipt] /\ Pruned(disk) \in [Requests -> Receipt]
      BY PrunedType DEF TypeOK
    <3>2. Pruned(disk)[q] = disk[q] \/ Pruned(disk)[q] = NoReceipt
      BY <3>1, PrunedKeeps
    <3>3. NoOk(captured[q]) /\ NoOk(Pruned(disk)[q].frames)
      BY <2>1, <3>2, NoOkConstants DEF Stored
    <3>4. /\ NoOkFor(toPy', q) /\ NoOkFor(outQ', q)
          /\ NoOk(captured'[q]) /\ NoOk(cache'[q].frames)
      BY <1>1, <2>1, <2>4, <3>1, <3>3, AnswerEarned
    <3>5. QED
      BY <1>1, <2>1, <2>4, <3>3, <3>4 DEF Told, Stored
  <2>5. QED
    BY <1>3, <2>2, <2>3, <2>4
<1>5. QED
  BY <1>1, <1>4, EarnedNext

LEMMA FinishWriteEarned ==
    ASSUME TypeOK, ReceiptInv, OkIsEarned, FinishWrite
    PROVE  OkIsEarned'
<1> DEFINE r == Head(writes)
<1>1. /\ snap.writing /\ snap' = NotWriting /\ UNCHANGED <<call, effects>>
      /\ disk' = snap.receipts \/ disk' = disk
  BY DEF FinishWrite, pyVars
<1>2. r \in Requests
  BY <1>1, WritesType DEF ReceiptInv, WriteHoldsClaim
<1>3. captured[r] \in Seq(ReplyKinds) /\ <<"unstored">> \in Seq(ReplyKinds)
  BY <1>2, NoOkOne DEF TypeOK, ReplyKinds
<1>4. \A q \in Requests : NoOk(snap'.receipts[q].frames)
  BY <1>1, NoOkConstants DEF NotWriting, NoReceipts
<1>5. \/ UNCHANGED <<outQ, toPy>>
      \/ SendReliable(Replies(r, <<"unstored">>))
      \/ SendReliable(Replies(r, captured[r]))
  BY DEF FinishWrite
<1>6. /\ captured' = captured \/ captured' = [captured EXCEPT ![r] = <<>>]
      /\ cache' = cache \/ cache' = [cache EXCEPT ![r] = NoReceipt]
  BY DEF FinishWrite
<1>7. \A q \in Requests : /\ captured'[q] = captured[q] \/ captured'[q] = <<>>
                          /\ cache'[q] = cache[q] \/ cache'[q] = NoReceipt
  BY <1>6 DEF TypeOK
<1>8. ASSUME NEW q \in Requests, effects[q] = 0
      PROVE  Told(q, call', toPy', outQ') /\ Stored(q, captured', cache', disk', snap')
  <2>1. Told(q, call, toPy, outQ) /\ Stored(q, captured, cache, disk, snap)
    BY <1>8, EarnedNow
  <2>2. Stored(q, captured', cache', disk', snap')
    BY <1>1, <1>4, <1>7, <2>1, NoOkConstants DEF Stored
  <2>3. NoOkFor(toPy', q) /\ NoOkFor(outQ', q)
    <3>1. NoOkFor(toPy, q) /\ NoOkFor(outQ, q) /\ NoOk(captured[q])
      BY <2>1 DEF Told, Stored
    <3>2. NoOk(<<"unstored">>)
      BY NoOkOne DEF ReplyKinds
    <3> HIDE DEF r
    <3>3. /\ Replies(r, <<"unstored">>) \in Seq(Reply) /\ Replies(r, captured[r]) \in Seq(Reply)
          /\ NoOkFor(Replies(r, <<"unstored">>), q) /\ NoOkFor(Replies(r, captured[r]), q)
      BY <1>2, <1>3, <3>1, <3>2, RepliesType, NoOkReplies
    <3>4. QED
      BY <1>5, <3>1, <3>3, SentFrames
  <2>4. QED
    BY <1>1, <2>1, <2>2, <2>3 DEF Told
<1>9. QED
  BY <1>1, <1>8, EarnedNext

\* An action that ends well did reach WhatsApp.
LEMMA ExecuteEarned ==
    ASSUME TypeOK, ReceiptInv, OkIsEarned, NEW r \in Requests, Execute(r)
    PROVE  OkIsEarned'
<1>1. CASE Perform(r)
  <2>1. /\ UNCHANGED <<call, toPy, outQ, captured, cache, disk, snap>>
        /\ effects' = [effects EXCEPT ![r] = @ + 1] /\ effects \in [Requests -> Nat]
    BY <1>1 DEF Perform, pyVars, linkVars, regVars, TypeOK
  <2>2. \A q \in Requests : effects'[q] = 0 => effects[q] = 0
    BY <2>1
  <2>3. QED
    BY <2>1, <2>2, EarnedStored
<1>2. CASE Finish(r)
  <2>1. PICK kind \in {"ok", "failed", "unsent"} :
          /\ kind = "ok" => stage[r] = "executed"
          /\ captured' = [captured EXCEPT ![r] = Append(@, kind)]
          /\ cache' = [cache EXCEPT ![r] = Complete(Append(captured[r], kind))]
          /\ UNCHANGED <<call, toPy, outQ, disk, snap, effects>>
    BY <1>2 DEF Finish, Completes, pyVars, linkVars, regVars
  <2>2. effects[r] = 0 => kind # "ok" /\ kind \in ReplyKinds
    BY <2>1 DEF ReceiptInv, ClaimsAreDurable, ReplyKinds
  <2>3. captured[r] \in Seq(ReplyKinds)
    BY DEF TypeOK
  <2>4. \A q \in Requests :
          \/ captured'[q] = captured[q] /\ cache'[q] = cache[q]
          \/ /\ q = r /\ captured'[q] = Append(captured[r], kind)
             /\ cache'[q] = Complete(Append(captured[r], kind))
    BY <2>1 DEF TypeOK
  <2>5. \A q \in Requests : effects[q] = 0 /\ Stored(q, captured, cache, disk, snap)
                              => Stored(q, captured', cache', disk', snap')
    <3>1. SUFFICES ASSUME NEW q \in Requests, effects[q] = 0,
                          Stored(q, captured, cache, disk, snap)
                   PROVE  NoOk(captured'[q]) /\ NoOk(cache'[q].frames)
      BY <2>1 DEF Stored
    <3>2. CASE captured'[q] = captured[q] /\ cache'[q] = cache[q]
      BY <3>1, <3>2 DEF Stored
    <3>3. CASE /\ q = r /\ captured'[q] = Append(captured[r], kind)
               /\ cache'[q] = Complete(Append(captured[r], kind))
      <4>1. NoOk(Append(captured[r], kind))
        BY <2>2, <2>3, <3>1, <3>3, NoOkAppend DEF Stored
      <4>2. QED
        BY <3>3, <4>1 DEF Complete
    <3>4. QED
      BY <2>4, <3>2, <3>3
  <2>6. QED
    BY <2>1, <2>5, EarnedStored
<1>3. QED
  BY <1>1, <1>2 DEF Execute

LEMMA GatewayEarned ==
    ASSUME TypeOK, ReceiptInv, OkIsEarned, Gateway
    PROVE  OkIsEarned'
<1>1. CASE StartWrite
  <2>1. /\ UNCHANGED <<call, toPy, outQ, captured, cache, disk, effects>>
        /\ snap'.receipts = cache
    BY <1>1 DEF StartWrite, pyVars, linkVars, regVars
  <2>2. QED
    BY <2>1, EarnedStored DEF Stored
<1>2. CASE NodeRestart
  <2>1. /\ UNCHANGED <<call, disk, effects>> /\ toPy' = <<>> /\ outQ' = <<>>
        /\ cache' = NoReceipts /\ snap' = NotWriting
        /\ captured' = [q \in Requests |-> <<>>]
    BY <1>2 DEF NodeRestart, pyVars
  <2>2. \A q \in Requests : /\ captured'[q] = <<>> /\ cache'[q] = NoReceipt
                            /\ snap'.receipts[q] = NoReceipt
    BY <2>1 DEF NoReceipts, NotWriting
  <2>3. \A q \in Requests : effects'[q] = 0 =>
          Told(q, call', toPy', outQ') /\ Stored(q, captured', cache', disk', snap')
    <3>1. SUFFICES ASSUME NEW q \in Requests, effects[q] = 0
                   PROVE  Told(q, call', toPy', outQ') /\ Stored(q, captured', cache', disk', snap')
      BY <2>1
    <3>2. Told(q, call, toPy, outQ) /\ Stored(q, captured, cache, disk, snap)
      BY <3>1, EarnedNow
    <3>3. NoOkFor(<<>>, q)
      BY DEF NoOkFor
    <3>4. QED
      BY <2>1, <2>2, <3>2, <3>3, NoOkConstants DEF Told, Stored
  <2>4. QED
    BY <2>3, EarnedNext
<1>3. CASE WaOpen \/ WaClose
  <2>1. UNCHANGED <<call, toPy, outQ, captured, cache, disk, snap, effects>>
    BY <1>3 DEF WaOpen, WaClose, pyVars, linkVars, regVars, dispVars
  <2>2. QED
    BY <2>1, EarnedTold
<1>4. QED
  BY <1>1, <1>2, <1>3, DispatchEarned, FinishWriteEarned DEF Gateway

LEMMA EarnedInit == Init => OkIsEarned
BY DEF Init, OkIsEarned, NoOk, NoOkFor, NoReceipts, NoReceipt, NotWriting

LEMMA EarnedStep ==
    ASSUME TypeOK, ReceiptInv, OkIsEarned, [Next]_vars
    PROVE  OkIsEarned'
<1>1. CASE UNCHANGED vars
  <2>1. UNCHANGED <<call, toPy, outQ, captured, cache, disk, snap, effects>>
    BY <1>1 DEF vars, pyVars, linkVars, regVars, dispVars
  <2>2. QED
    BY <2>1, EarnedTold
<1>2. QED
  BY <1>1, CallerEarned, ExecuteEarned, BridgeEarned, LinkEarned, GatewayEarned DEF Next

\* The receipts and what callers were told, in every reachable state.
LEMMA EarnedInvariant == Spec => []IInv
<1>1. Init => IInv
  BY ReceiptInit, EarnedInit DEF IInv
<1>2. IInv /\ [Next]_vars => IInv'
  BY ReceiptStep, EarnedStep DEF IInv
<1>3. QED
  BY <1>1, <1>2, PTL DEF Spec

\* Every variable keeps its type, whatever fails and however long the behaviour.
THEOREM TypeCorrect == Spec => []TypeOK
BY ReceiptsInvariant, PTL

\* dispatchAction executes no request twice: not for a retry, a bridge or a
\* gateway that restarted, nor after any failed read or write of the receipts.
THEOREM AtMostOnceAlways == Spec => []AtMostOnce
<1>1. TypeOK /\ ReceiptInv => AtMostOnce
  BY DEF ReceiptInv
<1>2. QED
  BY <1>1, ReceiptsInvariant, PTL

\* Whatever may have reached WhatsApp has a receipt in the file.
THEOREM EffectHasReceiptAlways == Spec => []EffectHasReceipt
<1>1. TypeOK /\ ReceiptInv => EffectHasReceipt
  BY DEF ReceiptInv, PerformedIsKept, ClaimsAreDurable, Kept, EffectHasReceipt
<1>2. QED
  BY <1>1, ReceiptsInvariant, PTL

\* A caller that was told ok was told the truth, whichever copy of the ack it
\* read: late, replayed from a receipt, or asked for by a new bridge process.
THEOREM OkMeansPerformedAlways == Spec => []OkMeansPerformed
<1>1. IInv => OkMeansPerformed
  <2>1. SUFFICES ASSUME IInv, NEW r \in Requests, call[r] \in {"ok", "done"}
                 PROVE  effects[r] = 1
    BY DEF OkMeansPerformed
  <2>2. effects[r] # 0 /\ effects[r] <= 1 /\ effects[r] \in Nat
    BY <2>1 DEF IInv, TypeOK, ReceiptInv, AtMostOnce, OkIsEarned
  <2>3. QED
    BY <2>2
<1>2. QED
  BY <1>1, EarnedInvariant, PTL
-----------------------------------------------------------------------------
(* The action path implements ActionContract.                              *)

\* The frames of a queue wait to be written, each for one caller.
WaitsFor(q, c) ==
    \A i \in DOMAIN q : c[q[i]] = "queued" /\ \A j \in DOMAIN q : q[i] = q[j] => i = j

\* Removing one frame leaves the others, each once.
LEMMA WithoutNthElements ==
    ASSUME NEW S, NEW q \in Seq(S), NEW i \in DOMAIN q
    PROVE  /\ \A k \in DOMAIN WithoutNth(q, i) :
                 \E m \in DOMAIN q : /\ m = IF k < i THEN k ELSE k + 1
                                     /\ WithoutNth(q, i)[k] = q[m]
           /\ DOMAIN WithoutNth(q, i) \subseteq Nat
<1> DEFINE a == SubSeq(q, 1, i - 1)
           b == SubSeq(q, i + 1, Len(q))
<1>1. i \in 1 .. Len(q) /\ Len(q) \in Nat /\ DOMAIN q = 1 .. Len(q)
  BY LenProperties
<1>2. \A k \in 1 .. Len(q) : q[k] \in S
  BY <1>1, LenProperties
<1>3. /\ a \in Seq(S) /\ Len(a) = i - 1
      /\ \A k \in 1 .. i - 1 : a[k] = q[k]
  <2>1. \A k \in 1 .. i - 1 : q[k] \in S
    BY <1>1, <1>2
  <2>2. /\ a \in Seq(S) /\ Len(a) = IF 1 <= i - 1 THEN (i - 1) - 1 + 1 ELSE 0
        /\ \A k \in 1 .. (i - 1) - 1 + 1 : a[k] = q[1 + k - 1]
    BY <1>1, <2>1, SubSeqProperties
  <2> HIDE DEF a
  <2>3. QED
    BY <1>1, <2>2
<1>4. /\ b \in Seq(S) /\ Len(b) = Len(q) - i
      /\ \A k \in 1 .. Len(q) - i : b[k] = q[i + k]
  <2>1. \A k \in i + 1 .. Len(q) : q[k] \in S
    BY <1>1, <1>2
  <2>2. /\ b \in Seq(S) /\ Len(b) = IF i + 1 <= Len(q) THEN Len(q) - (i + 1) + 1 ELSE 0
        /\ \A k \in 1 .. Len(q) - (i + 1) + 1 : b[k] = q[i + 1 + k - 1]
    BY <1>1, <2>1, SubSeqProperties
  <2> HIDE DEF b
  <2>3. Len(b) = Len(q) - i
    <3>1. Len(q) \in Nat /\ i \in 0 .. Len(q)
      BY <1>1
    <3>2. (IF i + 1 <= Len(q) THEN Len(q) - (i + 1) + 1 ELSE 0) = Len(q) - i
      BY <3>1
    <3>3. QED
      BY <2>2, <3>2
  <2>4. \A k \in 1 .. Len(q) - i : k \in 1 .. Len(q) - (i + 1) + 1 /\ i + 1 + k - 1 = i + k
    BY <1>1
  <2>5. \A k \in 1 .. Len(q) - i : b[k] = q[i + k]
    BY <2>2, <2>4
  <2>6. QED
    BY <2>2, <2>3, <2>5
<1>5. WithoutNth(q, i) = a \o b
  BY DEF WithoutNth
<1> HIDE DEF a, b
<1>6. /\ a \o b \in Seq(S) /\ Len(a \o b) = Len(q) - 1
      /\ \A k \in 1 .. Len(q) - 1 : (a \o b)[k] = IF k <= i - 1 THEN a[k] ELSE b[k - (i - 1)]
  <2>1. /\ a \o b \in Seq(S) /\ Len(a \o b) = Len(a) + Len(b)
        /\ \A k \in 1 .. Len(a) + Len(b) : (a \o b)[k] = IF k <= Len(a) THEN a[k] ELSE b[k - Len(a)]
    BY <1>3, <1>4, ConcatProperties
  <2>2. Len(a) + Len(b) = Len(q) - 1 /\ Len(a) = i - 1
    BY <1>1, <1>3, <1>4
  <2>3. QED
    BY <2>1, <2>2
<1>7. DOMAIN (a \o b) = 1 .. Len(q) - 1
  BY <1>6, LenProperties
<1>8. \A k \in 1 .. Len(q) - 1 :
        LET m == IF k < i THEN k ELSE k + 1 IN m \in 1 .. Len(q) /\ (a \o b)[k] = q[m]
  <2>1. SUFFICES ASSUME NEW k \in 1 .. Len(q) - 1
                 PROVE  LET m == IF k < i THEN k ELSE k + 1
                        IN  m \in 1 .. Len(q) /\ (a \o b)[k] = q[m]
    OBVIOUS
  <2>2. CASE k < i
    BY <1>1, <1>3, <1>6, <2>2
  <2>3. CASE ~(k < i)
    <3>0. ~(k <= i - 1) /\ k - (i - 1) \in 1 .. Len(q) - i
      BY <1>1, <2>3
    <3>1. (a \o b)[k] = b[k - (i - 1)] /\ k - (i - 1) \in 1 .. Len(q) - i
      BY <1>6, <3>0
    <3>2. b[k - (i - 1)] = q[i + (k - (i - 1))] /\ i + (k - (i - 1)) = k + 1
      BY <1>1, <1>4, <3>1
    <3>3. QED
      BY <1>1, <2>3, <3>1, <3>2
  <2>4. QED
    BY <2>2, <2>3
<1>9. \A k \in DOMAIN (a \o b) :
        \E m \in DOMAIN q : m = (IF k < i THEN k ELSE k + 1) /\ (a \o b)[k] = q[m]
  <2>1. SUFFICES ASSUME NEW k \in 1 .. Len(q) - 1
                 PROVE  \E m \in 1 .. Len(q) : m = (IF k < i THEN k ELSE k + 1) /\ (a \o b)[k] = q[m]
    BY <1>1, <1>7
  <2>2. PICK m : m = IF k < i THEN k ELSE k + 1
    OBVIOUS
  <2>3. m \in 1 .. Len(q) /\ (a \o b)[k] = q[m]
    BY <1>8, <2>2
  <2>4. QED
    BY <2>2, <2>3
<1>10. DOMAIN (a \o b) \subseteq Nat
  <2>1. \A k \in 1 .. Len(q) - 1 : k \in Nat
    OBVIOUS
  <2>2. QED
    BY <1>7, <2>1
<1>11. QED
  BY <1>5, <1>9, <1>10

\* A queue without the frame of one waiter, once the waiter has given up.
LEMMA WaitsWithout ==
    ASSUME NEW q \in Seq(Requests), NEW c, NEW d, NEW i \in DOMAIN q, WaitsFor(q, c),
           \A r \in Requests : r # q[i] => d[r] = c[r]
    PROVE  WaitsFor(WithoutNth(q, i), d)
<1>1. /\ \A k \in DOMAIN WithoutNth(q, i) :
            \E m \in DOMAIN q : /\ m = IF k < i THEN k ELSE k + 1
                                /\ WithoutNth(q, i)[k] = q[m]
      /\ DOMAIN WithoutNth(q, i) \subseteq Nat /\ DOMAIN q \subseteq Nat
  BY WithoutNthElements, LenProperties
<1>2. \A m \in DOMAIN q : q[m] \in Requests
  BY LenProperties
<1>3. SUFFICES ASSUME NEW k \in DOMAIN WithoutNth(q, i)
               PROVE  /\ d[WithoutNth(q, i)[k]] = "queued"
                      /\ \A l \in DOMAIN WithoutNth(q, i) :
                           WithoutNth(q, i)[k] = WithoutNth(q, i)[l] => k = l
  BY DEF WaitsFor
<1>4. PICK m \in DOMAIN q : m = (IF k < i THEN k ELSE k + 1) /\ WithoutNth(q, i)[k] = q[m]
  BY <1>1
<1>5. m # i /\ k \in Nat /\ i \in Nat
  BY <1>1, <1>4
<1>6. d[q[m]] = "queued"
  BY <1>2, <1>5 DEF WaitsFor
<1>7. ASSUME NEW l \in DOMAIN WithoutNth(q, i), WithoutNth(q, i)[k] = WithoutNth(q, i)[l]
      PROVE  k = l
  <2>1. PICK n \in DOMAIN q : n = (IF l < i THEN l ELSE l + 1) /\ WithoutNth(q, i)[l] = q[n]
    BY <1>1
  <2>2. m = n
    BY <1>4, <1>7, <2>1 DEF WaitsFor
  <2>3. l \in Nat
    BY <1>1
  <2>4. QED
    BY <1>4, <1>5, <2>1, <2>2, <2>3
<1>8. QED
  BY <1>4, <1>6, <1>7

\* What the flush of the first n frames left of a queue, and what it wrote.
LEMMA FlushedElements ==
    ASSUME NEW q \in Seq(Requests), NEW n \in 0 .. Len(q)
    PROVE  /\ \A k \in DOMAIN SubSeq(q, 1, n) : k <= n /\ k \in DOMAIN q /\ SubSeq(q, 1, n)[k] = q[k]
           /\ \A k \in DOMAIN SubSeq(q, n + 1, Len(q)) :
                k \in Nat /\ n + k > n /\ n + k \in DOMAIN q /\ SubSeq(q, n + 1, Len(q))[k] = q[n + k]
<1> DEFINE a == SubSeq(q, 1, n)
           b == SubSeq(q, n + 1, Len(q))
<1>1. Len(q) \in Nat /\ DOMAIN q = 1 .. Len(q) /\ \A k \in 1 .. Len(q) : q[k] \in Requests
  BY LenProperties
<1>2. /\ a \in Seq(Requests) /\ Len(a) = n
      /\ \A k \in 1 .. n : a[k] = q[k]
  <2>1. \A k \in 1 .. n : q[k] \in Requests
    BY <1>1
  <2>2. /\ a \in Seq(Requests) /\ Len(a) = IF 1 <= n THEN n - 1 + 1 ELSE 0
        /\ \A k \in 1 .. n - 1 + 1 : a[k] = q[1 + k - 1]
    BY <1>1, <2>1, SubSeqProperties
  <2> HIDE DEF a
  <2>3. QED
    BY <1>1, <2>2
<1>3. /\ b \in Seq(Requests) /\ Len(b) = Len(q) - n
      /\ \A k \in 1 .. Len(q) - n : b[k] = q[n + k]
  <2>1. \A k \in n + 1 .. Len(q) : q[k] \in Requests
    BY <1>1
  <2>2. /\ b \in Seq(Requests) /\ Len(b) = IF n + 1 <= Len(q) THEN Len(q) - (n + 1) + 1 ELSE 0
        /\ \A k \in 1 .. Len(q) - (n + 1) + 1 : b[k] = q[n + 1 + k - 1]
    BY <1>1, <2>1, SubSeqProperties
  <2> HIDE DEF b
  <2>3. Len(b) = Len(q) - n
    <3>1. Len(q) \in Nat /\ n \in 0 .. Len(q)
      BY <1>1
    <3>2. (IF n + 1 <= Len(q) THEN Len(q) - (n + 1) + 1 ELSE 0) = Len(q) - n
      BY <3>1
    <3>3. QED
      BY <2>2, <3>2
  <2>4. \A k \in 1 .. Len(q) - n : k \in 1 .. Len(q) - (n + 1) + 1 /\ n + 1 + k - 1 = n + k
    BY <1>1
  <2>5. \A k \in 1 .. Len(q) - n : b[k] = q[n + k]
    BY <2>2, <2>4
  <2>6. QED
    BY <2>2, <2>3, <2>5
<1>4. DOMAIN a = 1 .. n /\ DOMAIN b = 1 .. Len(q) - n
  BY <1>2, <1>3, LenProperties
<1> HIDE DEF a, b
<1>5. \A k \in DOMAIN a : k <= n /\ k \in DOMAIN q /\ a[k] = q[k]
  BY <1>1, <1>2, <1>4
<1>6. \A k \in DOMAIN b : k \in Nat /\ n + k > n /\ n + k \in DOMAIN q /\ b[k] = q[n + k]
  BY <1>1, <1>3, <1>4
<1>7. QED
  BY <1>5, <1>6 DEF a, b

\* The rest of a queue still waits after its first n frames were written.
LEMMA WaitsFlushed ==
    ASSUME TypeOK, WaitsFor(queue, call), NEW n \in 0 .. Len(queue)
    PROVE  WaitsFor(SubSeq(queue, n + 1, Len(queue)), AfterWrite(SubSeq(queue, 1, n)))
<1> DEFINE a == SubSeq(queue, 1, n)
           b == SubSeq(queue, n + 1, Len(queue))
<1>1. queue \in Seq(Requests) /\ n \in Nat
  BY LenProperties DEF TypeOK
<1>2. /\ \A k \in DOMAIN a : k <= n /\ k \in DOMAIN queue /\ a[k] = queue[k]
      /\ \A k \in DOMAIN b : k \in Nat /\ n + k > n /\ n + k \in DOMAIN queue /\ b[k] = queue[n + k]
  BY <1>1, FlushedElements
<1>3. \A i \in DOMAIN queue : i \in Nat /\ queue[i] \in Requests
  BY <1>1, LenProperties
<1> HIDE DEF a, b
<1>4. \A k \in DOMAIN b : AfterWrite(a)[b[k]] = "queued"
  <2>1. SUFFICES ASSUME NEW k \in DOMAIN b PROVE AfterWrite(a)[b[k]] = "queued"
    OBVIOUS
  <2>2. b[k] \in Requests /\ call[b[k]] = "queued"
    BY <1>2, <1>3 DEF WaitsFor
  <2>3. ~ \E i \in DOMAIN a : a[i] = b[k]
    <3>1. SUFFICES ASSUME NEW i \in DOMAIN a, a[i] = b[k] PROVE FALSE
      OBVIOUS
    <3>2. i = n + k
      BY <1>2, <3>1 DEF WaitsFor
    <3>3. QED
      BY <1>1, <1>2, <1>3, <3>2
  <2>4. QED
    BY <2>2, <2>3 DEF AfterWrite
<1>5. \A k, l \in DOMAIN b : b[k] = b[l] => k = l
  <2>1. SUFFICES ASSUME NEW k \in DOMAIN b, NEW l \in DOMAIN b, b[k] = b[l] PROVE k = l
    OBVIOUS
  <2>2. n + k = n + l
    BY <1>2, <2>1 DEF WaitsFor
  <2>3. QED
    BY <1>1, <1>2, <2>2
<1>6. QED
  BY <1>4, <1>5 DEF WaitsFor, a, b

\* Writing, queueing or failing a frame that is not queued.
LEMMA WaitsTransmit ==
    ASSUME TypeOK, WaitsFor(queue, call), NEW r \in Requests, call[r] # "queued", Transmit(r)
    PROVE  WaitsFor(queue', call')
<1>1. queue \in Seq(Requests) /\ \A i \in DOMAIN queue : queue[i] \in Requests
  BY LenProperties DEF TypeOK
<1>2. \A i \in DOMAIN queue : queue[i] # r
  BY DEF WaitsFor
<1>3. \A q \in Requests : q # r => call'[q] = call[q]
  BY DEF Transmit, TypeOK
<1>4. CASE queue' = queue
  BY <1>1, <1>2, <1>3, <1>4 DEF WaitsFor
<1>5. CASE queue' = Append(queue, r) /\ call' = [call EXCEPT ![r] = "queued"]
  <2>1. \A i \in DOMAIN queue : queue[i] # r /\ \A j \in DOMAIN queue : queue[i] = queue[j] => i = j
    BY <1>2 DEF WaitsFor
  <2>2. \A i \in DOMAIN queue' :
          /\ queue'[i] = r \/ \E j \in DOMAIN queue : queue'[i] = queue[j]
          /\ \A j \in DOMAIN queue' : queue'[i] = queue'[j] => i = j
    BY <1>1, <1>5, <2>1, AppendDistinct
  <2>3. call'[r] = "queued" /\ \A j \in DOMAIN queue : call'[queue[j]] = "queued"
    BY <1>1, <1>2, <1>3, <1>5 DEF TypeOK, WaitsFor
  <2>4. QED
    BY <2>2, <2>3 DEF WaitsFor
<1>6. QED
  BY <1>4, <1>5 DEF Transmit

\* Every queued frame has its caller waiting, after any step.
LEMMA WaitsStep ==
    ASSUME TypeOK, WaitsFor(queue, call), [Next]_vars
    PROVE  WaitsFor(queue', call')
<1>1. queue \in Seq(Requests) /\ \A i \in DOMAIN queue : queue[i] \in Requests
  BY LenProperties DEF TypeOK
<1>2. CASE UNCHANGED <<queue, call>>
  BY <1>2
<1>3. ASSUME NEW r \in Requests, Start(r) \/ AckTimeout(r)
      PROVE  WaitsFor(queue', call')
  <2>1. call[r] # "queued"
    BY <1>3 DEF Start, AckTimeout
  <2>2. CASE Transmit(r)
    BY <2>1, <2>2, WaitsTransmit
  <2>3. CASE queue' = queue /\ call' = [call EXCEPT ![r] = "error"]
    BY <1>1, <2>1, <2>3 DEF WaitsFor, TypeOK
  <2>4. QED
    BY <1>3, <2>2, <2>3 DEF Start, AckTimeout
<1>4. ASSUME NEW r \in Requests, SendTimeout(r) PROVE WaitsFor(queue', call')
  <2>1. PICK i \in DOMAIN queue : queue[i] = r /\ queue' = WithoutNth(queue, i)
    BY <1>4 DEF SendTimeout
  <2>2. \A q \in Requests : q # queue[i] => call'[q] = call[q]
    BY <1>4, <2>1 DEF SendTimeout, TypeOK
  <2>3. QED
    BY <1>1, <2>1, <2>2, WaitsWithout
<1>5. ASSUME NEW r \in Requests, MarkDone(r) PROVE WaitsFor(queue', call')
  BY <1>1, <1>5 DEF MarkDone, WaitsFor, TypeOK
<1>6. ASSUME ReceiveReply PROVE WaitsFor(queue', call')
  <2>1. \A q \in Requests : call[q] = "queued" => call'[q] = "queued"
    BY <1>6 DEF ReceiveReply, TypeOK
  <2>2. queue' = queue
    BY <1>6 DEF ReceiveReply
  <2>3. QED
    BY <1>1, <2>1, <2>2 DEF WaitsFor
<1>7. ASSUME Disconnect \/ PyRestart PROVE WaitsFor(queue', call')
  BY <1>7 DEF Disconnect, PyRestart, WaitsFor
<1>8. ASSUME HelloAck PROVE WaitsFor(queue', call')
  BY <1>8, WaitsFlushed DEF HelloAck, Flush
<1>9. ASSUME Connect \/ BindClient \/ Drop \/ NodeClose \/ RejectBeforeHello \/ Gateway
      PROVE  UNCHANGED <<queue, call>>
  BY <1>9 DEF Connect, BindClient, Drop, NodeClose, RejectBeforeHello, Gateway, DispatchAction,
              StartWrite, FinishWrite, NodeRestart, WaOpen, WaClose, pyVars
<1>10. ASSUME NEW r \in Requests, Execute(r) PROVE UNCHANGED <<queue, call>>
  BY <1>10 DEF Execute, Perform, Finish, Completes, pyVars
<1>11. CASE UNCHANGED vars
  BY <1>2, <1>11 DEF vars, pyVars
<1>12. QED
  BY <1>2, <1>3, <1>4, <1>5, <1>6, <1>7, <1>8, <1>9, <1>10, <1>11
  DEF Next, Caller, Bridge, Link

\* What a caller in state c was told, and the answers of the refinement.
Verdict(c) == IF c \in {"ok", "done"} THEN "ok" ELSE IF c = "error" THEN "error" ELSE "none"

\* Steps that tell nobody anything.
LEMMA SilentStep ==
    ASSUME effects' = effects, \A r \in Requests : Verdict(call'[r]) = Verdict(call[r])
    PROVE  UNCHANGED Contract!avars
BY DEF Contract!avars, Verdict

\* A step that tells some callers of a failure.
LEMMA FailStep ==
    ASSUME effects' = effects, NEW S \in SUBSET Requests,
           \A r \in S : Verdict(call[r]) = "none" /\ Verdict(call'[r]) = "error",
           \A r \in Requests \ S : Verdict(call'[r]) = Verdict(call[r])
    PROVE  Contract!Next
<1>1. Contract!Fail(S)
  BY DEF Contract!Fail, Verdict
<1>2. QED
  BY <1>1 DEF Contract!Next

\* A step after which some callers know nothing.
LEMMA ForgetStep ==
    ASSUME effects' = effects, NEW S \in SUBSET Requests,
           \A r \in S : Verdict(call'[r]) = "none",
           \A r \in Requests \ S : Verdict(call'[r]) = Verdict(call[r])
    PROVE  Contract!Next
<1>1. Contract!Forget(S)
  BY DEF Contract!Forget, Verdict
<1>2. QED
  BY <1>1 DEF Contract!Next

\* A step that tells one caller that its request was performed.
LEMMA ConfirmStep ==
    ASSUME effects' = effects, NEW r \in Requests, effects[r] = 1,
           Verdict(call[r]) = "none", Verdict(call'[r]) = "ok",
           \A q \in Requests \ {r} : Verdict(call'[q]) = Verdict(call[q])
    PROVE  Contract!Next
<1>1. Contract!Confirm(r)
  BY DEF Contract!Confirm, Verdict
<1>2. QED
  BY <1>1 DEF Contract!Next

\* A step of one caller.
LEMMA OneCallerStep ==
    ASSUME effects' = effects, NEW r \in Requests, \A q \in Requests \ {r} : call'[q] = call[q],
           \/ Verdict(call'[r]) = Verdict(call[r])
           \/ Verdict(call[r]) = "none" /\ Verdict(call'[r]) = "error"
    PROVE  [Contract!Next]_(Contract!avars)
<1>1. CASE Verdict(call'[r]) = Verdict(call[r])
  BY <1>1, SilentStep
<1>2. CASE Verdict(call[r]) = "none" /\ Verdict(call'[r]) = "error"
  <2>1. {r} \in SUBSET Requests
    OBVIOUS
  <2>2. Contract!Next
    BY <1>2, <2>1, FailStep
  <2>3. QED
    BY <2>2
<1>3. QED
  BY <1>1, <1>2

\* A caller that starts, or whose timer fires, was told nothing before.
LEMMA CallerImplements ==
    ASSUME TypeOK, NEW r \in Requests, Caller(r)
    PROVE  [Contract!Next]_(Contract!avars)
<1>1. effects' = effects
  BY DEF Caller, Start, SendTimeout, AckTimeout, MarkDone
<1>2. \A q \in Requests \ {r} : call'[q] = call[q]
  BY DEF Caller, Start, SendTimeout, AckTimeout, MarkDone, Transmit, TypeOK
<1>3. \/ Verdict(call'[r]) = Verdict(call[r])
      \/ Verdict(call[r]) = "none" /\ Verdict(call'[r]) = "error"
  <2>1. CASE Start(r) \/ AckTimeout(r) \/ SendTimeout(r)
    <3>1. Verdict(call[r]) = "none"
      BY <2>1 DEF Start, AckTimeout, SendTimeout, Verdict
    <3>2. call'[r] \in {"error", "queued", Delivered(r)}
      BY <2>1 DEF Start, AckTimeout, SendTimeout, Transmit, TypeOK
    <3>3. Verdict(call'[r]) \in {"none", "error"}
      BY <3>2 DEF Delivered, Verdict
    <3>4. QED
      BY <3>1, <3>3
  <2>2. CASE MarkDone(r)
    BY <2>2 DEF MarkDone, Verdict, TypeOK
  <2>3. QED
    BY <2>1, <2>2 DEF Caller
<1>4. QED
  BY <1>1, <1>2, <1>3, OneCallerStep

\* Frames that are flushed belong to callers that wait for them.
LEMMA FlushTellsNothing ==
    ASSUME TypeOK, WaitsFor(queue, call), NEW n \in 0 .. Len(queue), NEW r \in Requests
    PROVE  Verdict(AfterWrite(SubSeq(queue, 1, n))[r]) = Verdict(call[r])
<1>1. queue \in Seq(Requests)
  BY DEF TypeOK
<1>2. \A k \in DOMAIN SubSeq(queue, 1, n) : k \in DOMAIN queue /\ SubSeq(queue, 1, n)[k] = queue[k]
  BY <1>1, FlushedElements
<1>3. CASE \E i \in DOMAIN SubSeq(queue, 1, n) : SubSeq(queue, 1, n)[i] = r
  <2>1. call[r] = "queued"
    BY <1>2, <1>3 DEF WaitsFor
  <2>2. AfterWrite(SubSeq(queue, 1, n))[r] = Delivered(r)
    BY <1>3 DEF AfterWrite
  <2>3. QED
    BY <2>1, <2>2 DEF Delivered, Verdict
<1>4. CASE ~ \E i \in DOMAIN SubSeq(queue, 1, n) : SubSeq(queue, 1, n)[i] = r
  BY <1>4 DEF AfterWrite
<1>5. QED
  BY <1>3, <1>4

\* An ack tells its caller what happened; a closed transport or a new bridge
\* process fails or forgets many calls at once.
LEMMA BridgeImplements ==
    ASSUME IInv, WaitsFor(queue, call), Bridge
    PROVE  [Contract!Next]_(Contract!avars)
<1>1. TypeOK /\ ReceiptInv /\ OkIsEarned /\ effects' = effects
  BY DEF IInv, Bridge, ReceiveReply, Disconnect, PyRestart
<1>2. CASE ReceiveReply
  <2>1. PICK reply : /\ reply = Head(toPy)
                     /\ call' = IF call[reply.req] = "awaiting"
                                THEN [call EXCEPT ![reply.req] =
                                        IF reply.kind = "ok" THEN "ok" ELSE "error"]
                                ELSE call
    BY <1>2 DEF ReceiveReply
  <2>2. toPy \in Seq(Reply) /\ toPy # <<>>
    BY <1>1, <1>2 DEF ReceiveReply, TypeOK
  <2>3. reply \in Reply /\ reply = toPy[1] /\ 1 \in DOMAIN toPy
    BY <2>1, <2>2, HeadTailProperties, LenProperties, EmptySeq
  <2>4. reply = [req |-> reply.req, kind |-> reply.kind] /\ reply.req \in Requests
    BY <2>3 DEF Reply
  <2>5. CASE call[reply.req] = "awaiting" /\ reply.kind = "ok"
    <3>1. effects[reply.req] # 0
      BY <1>1, <2>3, <2>4, <2>5 DEF OkIsEarned, NoOkFor
    <3>2. effects[reply.req] \in Nat /\ effects[reply.req] <= 1
      BY <1>1, <2>4 DEF TypeOK, ReceiptInv, AtMostOnce
    <3>3. effects[reply.req] = 1
      BY <3>1, <3>2
    <3>4. /\ Verdict(call[reply.req]) = "none" /\ Verdict(call'[reply.req]) = "ok"
          /\ \A q \in Requests \ {reply.req} : Verdict(call'[q]) = Verdict(call[q])
      BY <1>1, <2>1, <2>4, <2>5 DEF TypeOK, Verdict
    <3>5. Contract!Next
      BY <1>1, <2>4, <3>3, <3>4, ConfirmStep
    <3>6. QED
      BY <3>5
  <2>6. CASE call[reply.req] = "awaiting" /\ reply.kind # "ok"
    <3>1. /\ Verdict(call[reply.req]) = "none" /\ Verdict(call'[reply.req]) = "error"
          /\ \A q \in Requests \ {reply.req} : call'[q] = call[q]
      BY <1>1, <2>1, <2>4, <2>6 DEF TypeOK, Verdict
    <3>2. QED
      BY <1>1, <2>4, <3>1, OneCallerStep
  <2>7. CASE call[reply.req] # "awaiting"
    <3>1. call' = call
      BY <2>1, <2>7
    <3>2. QED
      BY <1>1, <3>1, SilentStep
  <2>8. QED
    BY <2>5, <2>6, <2>7
<1>3. CASE Disconnect
  <2>1. PICK n \in IF link = "down" THEN {0} ELSE 0 .. Len(queue) :
          call' = [r \in Requests |->
            LET now == AfterWrite(SubSeq(queue, 1, n))[r]
            IN  IF now \in {"queued", "awaiting"} THEN "error" ELSE now]
    BY <1>3 DEF Disconnect
  <2>2. n \in 0 .. Len(queue)
    BY <1>1, <2>1, LenProperties DEF TypeOK
  <2>3. PICK now : now = AfterWrite(SubSeq(queue, 1, n))
    OBVIOUS
  <2>4. \A r \in Requests : Verdict(now[r]) = Verdict(call[r])
    BY <1>1, <2>2, <2>3, FlushTellsNothing
  <2>5. \A r \in Requests : call'[r] = IF now[r] \in {"queued", "awaiting"} THEN "error" ELSE now[r]
    BY <2>1, <2>3
  <2>6. PICK S \in SUBSET Requests : S = {r \in Requests : now[r] \in {"queued", "awaiting"}}
    OBVIOUS
  <2>7. \A r \in S : Verdict(call[r]) = "none" /\ Verdict(call'[r]) = "error"
    BY <2>4, <2>5, <2>6 DEF Verdict
  <2>8. \A r \in Requests \ S : Verdict(call'[r]) = Verdict(call[r])
    BY <2>4, <2>5, <2>6
  <2>9. Contract!Next
    BY <1>1, <2>7, <2>8, FailStep
  <2>10. QED
    BY <2>9
<1>4. CASE PyRestart
  <2>1. \A r \in Requests : call'[r] = IF call[r] \in {"idle", "done"} THEN call[r]
                                       ELSE IF r \in Durable THEN "idle" ELSE "gone"
    BY <1>4 DEF PyRestart
  <2>2. PICK S \in SUBSET Requests : S = {r \in Requests : call[r] \notin {"idle", "done"}}
    OBVIOUS
  <2>3. \A r \in S : Verdict(call'[r]) = "none"
    BY <2>1, <2>2 DEF Verdict
  <2>4. \A r \in Requests \ S : Verdict(call'[r]) = Verdict(call[r])
    BY <2>1, <2>2
  <2>5. Contract!Next
    BY <1>1, <2>3, <2>4, ForgetStep
  <2>6. QED
    BY <2>5
<1>5. QED
  BY <1>2, <1>3, <1>4 DEF Bridge

\* The link moves frames and tells nobody anything.
LEMMA LinkImplements ==
    ASSUME TypeOK, WaitsFor(queue, call), Link
    PROVE  [Contract!Next]_(Contract!avars)
<1>1. effects' = effects
  BY DEF Link, Connect, BindClient, HelloAck, Drop, NodeClose, RejectBeforeHello
<1>2. \A r \in Requests : Verdict(call'[r]) = Verdict(call[r])
  <2>1. CASE HelloAck
    BY <2>1, FlushTellsNothing DEF HelloAck
  <2>2. CASE Connect \/ BindClient \/ Drop \/ NodeClose \/ RejectBeforeHello
    BY <2>2 DEF Connect, BindClient, Drop, NodeClose, RejectBeforeHello, pyVars
  <2>3. QED
    BY <2>1, <2>2 DEF Link
<1>3. QED
  BY <1>1, <1>2, SilentStep

\* A claim that is durable is performed once; the rest of the gateway only
\* stores and sends.
LEMMA ExecuteImplements ==
    ASSUME TypeOK, ReceiptInv, NEW r \in Requests, Execute(r)
    PROVE  [Contract!Next]_(Contract!avars)
<1>1. call' = call
  BY DEF Execute, Perform, Finish, Completes, pyVars
<1>2. CASE Perform(r)
  <2>1. effects[r] = 0
    BY <1>2 DEF Perform, ReceiptInv, ClaimsAreDurable
  <2>2. effects' = [effects EXCEPT ![r] = 1]
    BY <1>2, <2>1 DEF Perform, TypeOK
  <2>3. Contract!Perform(r)
    BY <1>1, <2>1, <2>2 DEF Contract!Perform
  <2>4. QED
    BY <2>3 DEF Contract!Next
<1>3. CASE Finish(r)
  BY <1>1, <1>3, SilentStep DEF Finish, Completes
<1>4. QED
  BY <1>2, <1>3 DEF Execute

LEMMA GatewayImplements ==
    ASSUME Gateway
    PROVE  [Contract!Next]_(Contract!avars)
<1>1. effects' = effects /\ call' = call
  BY DEF Gateway, DispatchAction, StartWrite, FinishWrite, NodeRestart, WaOpen, WaClose, pyVars
<1>2. QED
  BY <1>1, SilentStep

\* The action path implements its contract: whatever is lost, re-sent, late or
\* restarted, each step performs a request that was not performed, tells one
\* caller a truth, fails or forgets calls, or changes nothing the bridge sees.
THEOREM ImplementsContractAlways == Spec => ImplementsContract
<1> DEFINE I == IInv /\ WaitsFor(queue, call)
<1>1. Init => I
  <2>1. Init => IInv
    BY ReceiptInit, EarnedInit DEF IInv
  <2>2. Init => WaitsFor(queue, call)
    BY DEF Init, WaitsFor
  <2>3. QED
    BY <2>1, <2>2
<1>2. I /\ [Next]_vars => I'
  <2>1. IInv /\ [Next]_vars => IInv'
    BY ReceiptStep, EarnedStep DEF IInv
  <2>2. IInv /\ WaitsFor(queue, call) /\ [Next]_vars => WaitsFor(queue', call')
    BY WaitsStep DEF IInv
  <2>3. WaitsFor(queue, call)' <=> WaitsFor(queue', call')
    BY DEF WaitsFor
  <2>4. QED
    BY <2>1, <2>2, <2>3
<1>3. Init => Contract!Init
  BY DEF Init, Contract!Init
<1>4. I /\ [Next]_vars => [Contract!Next]_(Contract!avars)
  <2>1. CASE UNCHANGED vars
    <3>1. effects' = effects /\ call' = call
      BY <2>1 DEF vars, pyVars
    <3>2. QED
      BY <3>1, SilentStep
  <2>2. ASSUME I, Next PROVE [Contract!Next]_(Contract!avars)
    <3>1. TypeOK /\ ReceiptInv /\ IInv /\ WaitsFor(queue, call)
      BY <2>2 DEF IInv
    <3>2. ASSUME NEW r \in Requests, Caller(r) PROVE [Contract!Next]_(Contract!avars)
      BY <3>1, <3>2, CallerImplements
    <3>3. ASSUME NEW r \in Requests, Execute(r) PROVE [Contract!Next]_(Contract!avars)
      BY <3>1, <3>3, ExecuteImplements
    <3>4. CASE Bridge
      BY <3>1, <3>4, BridgeImplements
    <3>5. CASE Link
      BY <3>1, <3>5, LinkImplements
    <3>6. CASE Gateway
      BY <3>6, GatewayImplements
    <3>7. QED
      BY <2>2, <3>2, <3>3, <3>4, <3>5, <3>6 DEF Next
  <2>3. QED
    BY <2>1, <2>2
<1>5. QED
  BY <1>1, <1>2, <1>3, <1>4, PTL DEF Spec, ImplementsContract, Contract!Spec
=============================================================================

------------------------- MODULE FileTransferProofs -------------------------
(***************************************************************************)
(* FileTransfer for any number of transfers, any sizes and any Window.     *)
(* That nothing but whole files is delivered rests on the order of the     *)
(* three counters: what was received was flushed, what was flushed was     *)
(* sent, and no more was sent than there is.                               *)
(***************************************************************************)
EXTENDS FileTransfer, TLAPS

CountersOrdered ==
  \A x \in Xids :
    /\ got[x] <= flushed[x] /\ flushed[x] <= sent[x] /\ sent[x] <= Size[x]
    /\ sent[x] <= flushed[x] + Window + 1

TransferInv == TypeOK /\ CountersOrdered /\ DeliveredIntact

USE FileAssumption

\* The initial state.
LEMMA InitialState == Init => TransferInv
  BY DEF Init, Idle, TransferInv, TypeOK, CountersOrdered, DeliveredIntact, Message

\* Handing over a message that has arrived.
LEMMA TailTyped ==
  ASSUME NEW S, NEW s \in Seq(S), s # <<>>
  PROVE  Tail(s) \in Seq(S)
  OBVIOUS

\* Sending a message.
LEMMA AppendTyped ==
  ASSUME NEW s \in Seq(Message), NEW x \in Xids,
         NEW t \in {"get", "no-file", "file-offer", "file-accept", "file-done"}
  PROVE  Append(s, Msg(t, x)) \in Seq(Message)
  <1>1. Msg(t, x) \in Message
    BY DEF Msg, Message
  <1>. QED  BY <1>1

\* _maybe_finish_file delivers "ok" when no more chunks than Size were counted.
LEMMA Finishes ==
  ASSUME TypeOK, DeliveredIntact, NEW x \in Xids, NEW st \in {"taking", "done"}, NEW n \in Nat,
         n <= Size[x], MaybeFinish(st, n, x)
  PROVE  /\ recv' \in [Xids -> {"none", "taking", "done"}]
         /\ result' \in [Xids -> {"unasked", "asked", "absent", "ok", "bad"}]
         /\ DeliveredIntact'
  <1>1. CASE Complete(st, n, x)
    <2>1. n = Size[x]
      BY <1>1 DEF Complete
    <2>2. /\ recv' = [recv EXCEPT ![x] = "none"]
          /\ result' = [result EXCEPT ![x] = "ok"]
      BY <1>1, <2>1 DEF MaybeFinish
    <2>. QED  BY <2>2 DEF TypeOK, DeliveredIntact
  <1>2. CASE ~Complete(st, n, x)
    BY <1>2 DEF MaybeFinish, TypeOK, DeliveredIntact
  <1>. QED  BY <1>1, <1>2

\* The receiver's steps.
LEMMA ReceiverKeepsInv ==
  ASSUME TransferInv, NEW x \in Xids, ReceiverSteps(x) \/ RequestGet(x)
  PROVE  TransferInv'
  <1>. USE DEF TransferInv
  <1>1. CASE RequestGet(x)
    BY <1>1, AppendTyped DEF RequestGet, TypeOK, CountersOrdered, DeliveredIntact, host
  <1>2. CASE OnNoFile(x)
    <2>1. down' \in Seq(Message)
      BY <1>2, TailTyped DEF OnNoFile, Takes, TypeOK
    <2>. QED  BY <1>2, <2>1 DEF OnNoFile, TypeOK, CountersOrdered, DeliveredIntact, host
  <1>3. CASE OnOffer(x)
    <2>1. down' \in Seq(Message)
      BY <1>3, TailTyped DEF OnOffer, Takes, TypeOK
    <2>2. up' \in Seq(Message)
      BY <1>3, AppendTyped DEF OnOffer, TypeOK
    <2>3. TypeOK'
      BY <1>3, <2>1, <2>2 DEF OnOffer, TypeOK, host
    <2>4. CountersOrdered'
      BY <1>3 DEF OnOffer, TypeOK, CountersOrdered, host
    <2>. QED  BY <1>3, <2>3, <2>4 DEF OnOffer, DeliveredIntact
  <1>4. CASE OnDone(x)
    <2>1. down' \in Seq(Message)
      BY <1>4, TailTyped DEF OnDone, Takes, TypeOK
    <2>2. CountersOrdered'
      BY <1>4 DEF OnDone, CountersOrdered, host
    <2>3. /\ recv' \in [Xids -> {"none", "taking", "done"}]
          /\ result' \in [Xids -> {"unasked", "asked", "absent", "ok", "bad"}]
          /\ DeliveredIntact'
      <3>1. CASE recv[x] = "none"
        BY <1>4, <3>1 DEF OnDone, TypeOK, DeliveredIntact
      <3>2. CASE recv[x] # "none"
        <4>1. MaybeFinish("done", got[x], x)
          BY <1>4, <3>2 DEF OnDone
        <4>2. got[x] \in Nat /\ got[x] <= Size[x]
          BY DEF TypeOK, CountersOrdered
        <4>. QED  BY <4>1, <4>2, Finishes
      <3>. QED  BY <3>1, <3>2
    <2>. QED  BY <1>4, <2>1, <2>2, <2>3 DEF OnDone, TypeOK, host
  <1>5. CASE OnChannel(x)
    BY <1>5 DEF OnChannel, TypeOK, CountersOrdered, DeliveredIntact, receiver
  <1>6. CASE OnData(x)
    <2>1. got[x] + 1 \in Nat /\ got[x] + 1 <= Size[x] /\ got[x] + 1 <= flushed[x]
      BY <1>6 DEF OnData, TypeOK, CountersOrdered
    <2>2. recv[x] \in {"taking", "done"}
      BY <1>6 DEF OnData, TypeOK
    <2>3. MaybeFinish(recv[x], got[x] + 1, x)
      BY <1>6 DEF OnData
    <2>4. /\ recv' \in [Xids -> {"none", "taking", "done"}]
          /\ result' \in [Xids -> {"unasked", "asked", "absent", "ok", "bad"}]
          /\ DeliveredIntact'
      BY <2>1, <2>2, <2>3, Finishes
    <2>5. CountersOrdered'
      BY <1>6, <2>1 DEF OnData, CountersOrdered, TypeOK, host
    <2>. QED  BY <1>6, <2>1, <2>4, <2>5 DEF OnData, TypeOK, host
  <1>. QED  BY <1>1, <1>2, <1>3, <1>4, <1>5, <1>6 DEF ReceiverSteps

\* The host's steps.
LEMMA HostKeepsInv ==
  ASSUME TransferInv, NEW x \in Xids, HostSteps(x) \/ SendFile(x) \/ ShareChanges(x)
  PROVE  TransferInv'
  <1>. USE DEF TransferInv
  <1>1. CASE SendFile(x)
    BY <1>1, AppendTyped DEF SendFile, Offers, TypeOK, CountersOrdered, DeliveredIntact
  <1>2. CASE ShareChanges(x)
    BY <1>2 DEF ShareChanges, TypeOK, CountersOrdered, DeliveredIntact, receiver, host
  <1>3. CASE OnGet(x)
    <2>1. up' \in Seq(Message)
      BY <1>3, TailTyped DEF OnGet, Takes, TypeOK
    <2>2. down' \in Seq(Message) /\ held' \subseteq Xids
      BY <1>3, AppendTyped DEF OnGet, Offers, TypeOK
    <2>. QED  BY <1>3, <2>1, <2>2 DEF OnGet, TypeOK, CountersOrdered, DeliveredIntact, receiver
  <1>4. CASE OnAccept(x)
    <2>1. up' \in Seq(Message)
      BY <1>4, TailTyped DEF OnAccept, Takes, TypeOK
    <2>. QED  BY <1>4, <2>1 DEF OnAccept, TypeOK, CountersOrdered, DeliveredIntact, receiver
  <1>5. CASE OnOpen(x)
    BY <1>5 DEF OnOpen, TypeOK, CountersOrdered, DeliveredIntact, receiver
  <1>6. CASE Stream(x)
    <2>1. sent[x] <= flushed[x] + Window
      BY <1>6 DEF Stream, Buffered, TypeOK, CountersOrdered
    <2>2. /\ Reach(x) \in Nat /\ Reach(x) <= Size[x]
          /\ Reach(x) <= flushed[x] + Window + 1 /\ flushed[x] <= Reach(x)
      BY <2>1 DEF Reach, Least, TypeOK, CountersOrdered
    <2>3. sent' = [sent EXCEPT ![x] = Reach(x)]
      BY <1>6 DEF Stream
    <2>4. CountersOrdered'
      BY <1>6, <2>2, <2>3 DEF Stream, CountersOrdered, TypeOK, receiver
    <2>5. task' \in [Xids -> {"none", "opening", "streaming", "ended"}]
      BY <1>6 DEF Stream, TypeOK
    <2>6. down' \in Seq(Message)
      <3>1. Append(down, Msg("file-done", x)) \in Seq(Message)
        BY AppendTyped DEF TypeOK
      <3>. QED  BY <1>6, <3>1 DEF Stream, TypeOK
    <2>7. sent' \in [Xids -> Nat]
      BY <2>2, <2>3 DEF TypeOK
    <2>8. UNCHANGED <<link, share, up, result, recv, got, held, chan, flushed>>
      BY <1>6 DEF Stream, receiver
    <2>. QED  BY <2>4, <2>5, <2>6, <2>7, <2>8 DEF TypeOK, DeliveredIntact
  <1>7. CASE StreamRaises(x)
    BY <1>7 DEF StreamRaises, TypeOK, CountersOrdered, DeliveredIntact, receiver
  <1>8. CASE Flush(x)
    BY <1>8 DEF Flush, TypeOK, CountersOrdered, DeliveredIntact, receiver
  <1>. QED  BY <1>1, <1>2, <1>3, <1>4, <1>5, <1>6, <1>7, <1>8 DEF HostSteps

\* The invariant is inductive.
LEMMA TransferStep == TransferInv /\ [Next]_vars => TransferInv'
  <1>. SUFFICES ASSUME TransferInv, [Next]_vars PROVE TransferInv'
    OBVIOUS
  <1>1. CASE UNCHANGED vars
    BY <1>1 DEF vars, TransferInv, TypeOK, CountersOrdered, DeliveredIntact
  <1>2. CASE Cut
    BY <1>2 DEF Cut, TransferInv, TypeOK, CountersOrdered, DeliveredIntact, receiver, host
  <1>3. ASSUME NEW x \in Xids, RequestGet(x) \/ ReceiverSteps(x) PROVE TransferInv'
    BY <1>3, ReceiverKeepsInv
  <1>4. ASSUME NEW x \in Xids, SendFile(x) \/ ShareChanges(x) \/ HostSteps(x)
        PROVE  TransferInv'
    BY <1>4, HostKeepsInv
  <1>. QED  BY <1>1, <1>2, <1>3, <1>4 DEF Next

\* In every reachable state the counters are in order.
THEOREM TransferInvariant == Spec => []TransferInv
  <1>1. Init => TransferInv
    BY InitialState
  <1>2. TransferInv /\ [Next]_vars => TransferInv'
    BY TransferStep
  <1>. QED  BY <1>1, <1>2, PTL DEF Spec

\* Every reachable state of the transfers is well typed.
THEOREM TransfersTyped == Spec => []TypeOK
  <1>1. TransferInv => TypeOK
    BY DEF TransferInv
  <1>. QED  BY <1>1, TransferInvariant, PTL

\* No user is handed a file that is not whole, however file-done and the
\* content overtake each other and wherever the link is cut.
THEOREM FilesIntact == Spec => []DeliveredIntact
  <1>1. TransferInv => DeliveredIntact
    BY DEF TransferInv
  <1>. QED  BY <1>1, TransferInvariant, PTL

\* The send buffer of a transfer never exceeds Window by more than a chunk.
THEOREM BufferStaysBounded == Spec => []BufferBounded
  <1>1. TransferInv => BufferBounded
    <2>. SUFFICES ASSUME TransferInv, NEW x \in Xids PROVE Buffered(x) <= Window + 1
      BY DEF BufferBounded
    <2>1. sent[x] \in Nat /\ flushed[x] \in Nat /\ sent[x] <= flushed[x] + Window + 1
      BY DEF TransferInv, TypeOK, CountersOrdered
    <2>. QED  BY <2>1 DEF Buffered
  <1>. QED  BY <1>1, TransferInvariant, PTL
=============================================================================

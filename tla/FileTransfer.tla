----------------------------- MODULE FileTransfer -----------------------------
(***************************************************************************)
(* Files over one link, cli/yaw2/peer.py: a node asks the other, the host, *)
(* for shared files or is sent files by it.  Messages of the `yaw` channel *)
(* arrive in order, and so does the content on the `f:<xid>` channel of a  *)
(* transfer, but nothing orders one channel against another.               *)
(*                                                                         *)
(* A transfer is called by its xid from the request on.  Its content is    *)
(* counted in chunks; `sent`, `flushed` and `got` count those that         *)
(* _stream_file has queued, that have left the host's send buffer, and     *)
(* that the receiver has appended.                                         *)
(***************************************************************************)
EXTENDS Naturals, Sequences

CONSTANTS
  Xids,    \* transfers
  Size,    \* chunks of each transfer's content
  Window   \* bufferedAmount, in chunks, beyond which _stream_file waits

ASSUME FileAssumption == Size \in [Xids -> Nat] /\ Window \in Nat

VARIABLES
  link,      \* "up" or "cut"; "opening" with a page (BrowserTransfer)
  share,     \* the transfers whose file is in the host's shared folder
  up, down,  \* `yaw` messages on their way to the host, to the receiver
  result,    \* what the receiver's user knows of a transfer
  recv,      \* `_recv`: "none", "taking", or "done" after file-done
  got,
  held,      \* `_send`: the transfers whose content the host keeps
  task,      \* _stream_file: "none", "opening", "streaming" or "ended"
  chan,      \* the f:<xid> channel: "none", "asked", "acked" or "open"
  sent, flushed

vars == <<link, share, up, down, result, recv, got, held, task, chan, sent, flushed>>
receiver == <<result, recv, got>>
host == <<held, task, chan, sent, flushed>>

Message == [type : {"get", "no-file", "file-offer", "file-accept", "file-done"}, xid : Xids]
Msg(t, x) == [type |-> t, xid |-> x]

TypeOK ==
  /\ link \in {"opening", "up", "cut"} /\ share \subseteq Xids /\ held \subseteq Xids
  /\ up \in Seq(Message) /\ down \in Seq(Message)
  /\ result \in [Xids -> {"unasked", "asked", "absent", "ok", "bad"}]
  /\ recv \in [Xids -> {"none", "taking", "done"}]
  /\ task \in [Xids -> {"none", "opening", "streaming", "ended"}]
  /\ chan \in [Xids -> {"none", "asked", "acked", "open"}]
  /\ got \in [Xids -> Nat] /\ sent \in [Xids -> Nat] /\ flushed \in [Xids -> Nat]

Idle ==
  /\ share \in SUBSET Xids /\ held = {}
  /\ up = <<>> /\ down = <<>>
  /\ result = [x \in Xids |-> "unasked"]
  /\ recv = [x \in Xids |-> "none"]
  /\ task = [x \in Xids |-> "none"]
  /\ chan = [x \in Xids |-> "none"]
  /\ got = [x \in Xids |-> 0] /\ sent = [x \in Xids |-> 0] /\ flushed = [x \in Xids |-> 0]

Init == link = "up" /\ Idle

Takes(queue, t, x) == queue # <<>> /\ Head(queue) = Msg(t, x)

-----------------------------------------------------------------------------
(* The receiver. *)

RequestGet(x) ==
  /\ link = "up" /\ result[x] = "unasked"
  /\ result' = [result EXCEPT ![x] = "asked"]
  /\ up' = Append(up, Msg("get", x))
  /\ UNCHANGED <<link, share, down, recv, got, host>>

OnNoFile(x) ==
  /\ Takes(down, "no-file", x)
  /\ down' = Tail(down)
  /\ result' = [result EXCEPT ![x] = "absent"]
  /\ UNCHANGED <<link, share, up, recv, got, host>>

OnOffer_Typo(x) ==   \* mutant: a type the host does not know
  /\ Takes(down, "file-offer", x)
  /\ down' = Tail(down)
  /\ recv' = [recv EXCEPT ![x] = "taking"]
  /\ up' = Append(up, Msg("accept", x))
  /\ UNCHANGED <<link, share, result, got, host>>
OnOffer(x) ==
  /\ Takes(down, "file-offer", x)
  /\ down' = Tail(down)
  /\ recv' = [recv EXCEPT ![x] = "taking"]
  /\ got' = [got EXCEPT ![x] = 0]
  /\ up' = Append(up, Msg("file-accept", x))
  /\ UNCHANGED <<link, share, result, host>>

\* _maybe_finish_file with the transfer in state st and n chunks: it needs
\* file-done AND all bytes.
Complete_Done(st, n, x) == st = "done"   \* mutant: the race of test_filerace_live
Complete(st, n, x) == st = "done" /\ n >= Size[x]

MaybeFinish(st, n, x) ==
  IF Complete(st, n, x)
  THEN /\ recv' = [recv EXCEPT ![x] = "none"]
       /\ result' = [result EXCEPT ![x] = IF n = Size[x] THEN "ok" ELSE "bad"]
  ELSE recv' = [recv EXCEPT ![x] = st] /\ UNCHANGED result

OnDone(x) ==
  /\ Takes(down, "file-done", x)
  /\ down' = Tail(down)
  /\ IF recv[x] = "none" THEN UNCHANGED <<recv, result>>
     ELSE MaybeFinish("done", got[x], x)
  /\ UNCHANGED <<link, share, up, got, host>>

\* The receiver is told of a new channel and wires it.
OnChannel(x) ==
  /\ link = "up" /\ chan[x] = "asked"
  /\ chan' = [chan EXCEPT ![x] = "acked"]
  /\ UNCHANGED <<link, share, up, down, receiver, held, task, sent, flushed>>

\* A chunk arrives; bytes can arrive after file-done.
OnData_Appends(x) ==   \* mutant: only file-done looks whether the file is complete
  /\ link = "up" /\ got[x] < flushed[x]
  /\ got' = [got EXCEPT ![x] = IF recv[x] = "none" THEN @ ELSE @ + 1]
  /\ UNCHANGED <<link, share, up, down, result, recv, host>>
OnData(x) ==
  /\ link = "up" /\ got[x] < flushed[x] /\ recv[x] # "none"
  /\ got' = [got EXCEPT ![x] = @ + 1]
  /\ MaybeFinish(recv[x], got[x] + 1, x)
  /\ UNCHANGED <<link, share, up, down, host>>

-----------------------------------------------------------------------------
(* The host. *)

ShareChanges(x) ==
  /\ share' = IF x \in share THEN share \ {x} ELSE share \cup {x}
  /\ UNCHANGED <<link, up, down, receiver, host>>

\* send_file
Offers(x) == held' = held \cup {x} /\ down' = Append(down, Msg("file-offer", x))

OnGet_Silent(x) ==   \* mutant: no answer when the file is not there
  /\ Takes(up, "get", x)
  /\ up' = Tail(up)
  /\ IF x \in share THEN Offers(x) ELSE UNCHANGED <<held, down>>
  /\ UNCHANGED <<link, share, receiver, task, chan, sent, flushed>>
OnGet(x) ==
  /\ Takes(up, "get", x)
  /\ up' = Tail(up)
  /\ \/ x \in share /\ Offers(x)
     \/ x \notin share /\ down' = Append(down, Msg("no-file", x)) /\ UNCHANGED held
  /\ UNCHANGED <<link, share, receiver, task, chan, sent, flushed>>

\* The host's user sends a file nobody asked for.
SendFile(x) ==
  /\ link = "up" /\ result[x] = "unasked"
  /\ result' = [result EXCEPT ![x] = "asked"]
  /\ Offers(x)
  /\ UNCHANGED <<link, share, up, recv, got, task, chan, sent, flushed>>

\* file-accept starts _stream_file, which runs until it waits for the channel.
OnAccept_Keeps(x) ==   \* mutant: the content is not popped
  /\ Takes(up, "file-accept", x)
  /\ up' = Tail(up)
  /\ task' = [task EXCEPT ![x] = "opening"]
  /\ chan' = [chan EXCEPT ![x] = "asked"]
  /\ UNCHANGED <<link, share, down, receiver, held, sent, flushed>>
OnAccept(x) ==
  /\ Takes(up, "file-accept", x)
  /\ up' = Tail(up)
  /\ held' = held \ {x}
  /\ IF x \in held
     THEN task' = [task EXCEPT ![x] = "opening"] /\ chan' = [chan EXCEPT ![x] = "asked"]
     ELSE UNCHANGED <<task, chan>>
  /\ UNCHANGED <<link, share, down, receiver, sent, flushed>>

\* The receiver's acknowledgement of the channel.
OnOpen(x) ==
  /\ link = "up" /\ chan[x] = "acked" /\ task[x] = "opening"
  /\ chan' = [chan EXCEPT ![x] = "open"]
  /\ task' = [task EXCEPT ![x] = "streaming"]
  /\ UNCHANGED <<link, share, up, down, receiver, held, sent, flushed>>

Buffered(x) == sent[x] - flushed[x]
Least(m, n) == IF m <= n THEN m ELSE n

\* How far _stream_file gets before it sleeps: send() does not wait, so chunks
\* are queued until more than Window are buffered.
Reach_All(x) == Size[x]   \* mutant: bufferedAmount is looked at once
Reach(x) == Least(Size[x], flushed[x] + Window + 1)

\* One run of _stream_file between two sleeps; with the last chunk in the
\* buffer, not on the wire, it sends file-done.
Stream(x) ==
  /\ link = "up" /\ task[x] = "streaming" /\ Buffered(x) <= Window
  /\ sent' = [sent EXCEPT ![x] = Reach(x)]
  /\ IF Reach(x) = Size[x]
     THEN /\ task' = [task EXCEPT ![x] = "ended"]
          /\ down' = Append(down, Msg("file-done", x))
     ELSE UNCHANGED <<task, down>>
  /\ UNCHANGED <<link, share, up, receiver, held, chan, flushed>>

\* After a cut, send() raises and the task ends; a task that waits for the
\* channel or for its buffer goes on waiting.
StreamRaises(x) ==
  /\ link = "cut" /\ task[x] = "streaming" /\ Buffered(x) <= Window
  /\ task' = [task EXCEPT ![x] = "ended"]
  /\ UNCHANGED <<link, share, up, down, receiver, held, chan, sent, flushed>>

Flush(x) ==
  /\ link = "up" /\ flushed[x] < sent[x]
  /\ flushed' = [flushed EXCEPT ![x] = @ + 1]
  /\ UNCHANGED <<link, share, up, down, receiver, held, task, chan, sent>>

\* The link is lost, with everything on its way.
Cut ==
  /\ link = "up"
  /\ link' = "cut" /\ up' = <<>> /\ down' = <<>>
  /\ UNCHANGED <<share, receiver, host>>

HostSteps(x) ==
  OnGet(x) \/ OnAccept(x) \/ OnOpen(x) \/ Stream(x) \/ StreamRaises(x) \/ Flush(x)
ReceiverSteps(x) ==
  OnNoFile(x) \/ OnOffer(x) \/ OnDone(x) \/ OnChannel(x) \/ OnData(x)

Next ==
  \/ Cut
  \/ \E x \in Xids : RequestGet(x) \/ SendFile(x) \/ ShareChanges(x)
  \/ \E x \in Xids : HostSteps(x) \/ ReceiverSteps(x)

Spec == Init /\ [][Next]_vars

\* Both event loops run and SCTP delivers; nobody has to ask or to cut.
FairSpec ==
  Spec /\ \A x \in Xids : WF_vars(HostSteps(x)) /\ WF_vars(ReceiverSteps(x))

-----------------------------------------------------------------------------
(* Properties. *)

\* What is handed to the user is whole, although file-done overtakes content.
DeliveredIntact == \A x \in Xids : result[x] # "bad"

\* However large the file, the host queues one chunk more than Window at most.
BufferBounded == \A x \in Xids : Buffered(x) <= Window + 1

\* While the link lasts the host keeps content only for an offer or an accept
\* that is under way, so serving files does not fill its memory.
UnderWay(queue, t, x) == \E k \in DOMAIN queue : queue[k] = Msg(t, x)
HeldForAnOffer ==
  link = "up" => \A x \in held :
    UnderWay(down, "file-offer", x) \/ UnderWay(up, "file-accept", x)

\* Over a link that lasts, every request is answered: with the whole file, or
\* with no-file.
Answered ==
  \A x \in Xids :
    result[x] = "asked" ~> result[x] \in {"ok", "absent"} \/ link = "cut"

\* A transfer as FileService sees it: open ones are where their messages are.
Status ==
  [x \in Xids |->
    IF result[x] # "asked" THEN result[x]
    ELSE IF link = "cut" THEN "lost"
    ELSE IF UnderWay(up, "get", x) THEN "asked"
    ELSE IF UnderWay(down, "no-file", x) THEN "no"
    ELSE "yes"]

Service == INSTANCE FileService WITH status <- Status

\* The answer to a request is what the shared folder held at one moment after
\* it was made, with the file whole.
ServesFiles == Service!Spec
=============================================================================

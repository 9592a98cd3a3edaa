---------------------------- MODULE BrowserTransfer ----------------------------
(***************************************************************************)
(* File transfers between any two nodes, browser pages or Python nodes: a  *)
(* page is Peer of web/yaw2.js with the buttons of web/index.html, the     *)
(* Python node is that of FileTransfer, whose actions are also those of a  *)
(* page where the two programs do the same.                                *)
(*                                                                         *)
(* A page reads the whole file before it offers it, and hashes what it has *)
(* received before it hands it over; other messages are handled meanwhile. *)
(***************************************************************************)
EXTENDS FileTransfer

CONSTANTS
  Changing,  \* the transfers whose file changes on disk: reading it may fail
  Early      \* may the page's user send files before the channel is open?

ASSUME PageFileAssumption == Changing \subseteq Xids /\ Early \in BOOLEAN

VARIABLES
  pages,     \* which ends are pages, fixed at the start
  reading,   \* a page host: the transfers whose sendFile waits for the content
  hashing    \* a page receiver: those whose content is complete and not hashed

bvars == <<vars, pages, reading, hashing>>

PageTypeOK ==
  /\ TypeOK /\ link \in {"opening", "up", "cut"}
  /\ pages \subseteq {"host", "receiver"} /\ reading \subseteq Xids /\ hashing \subseteq Xids

\* The peer is listed, with its button, before the `yaw` channel is open.
PageInit ==
  /\ link = "opening" /\ Idle
  /\ pages \in SUBSET {"host", "receiver"}
  /\ reading = {} /\ hashing = {}

LinkOpens ==
  /\ link = "opening" /\ link' = "up"
  /\ UNCHANGED <<share, up, down, receiver, host, pages, reading, hashing>>

-----------------------------------------------------------------------------
(* A page as the host. *)

\* A page's share only grows: a picked file stays in its map.
PageShares(x) == x \notin share /\ ShareChanges(x) /\ UNCHANGED <<reading, hashing>>

PageOnGet_Silent(x) ==   \* mutant: no answer when the file is not there
  /\ Takes(up, "get", x)
  /\ up' = Tail(up)
  /\ reading' = IF x \in share THEN reading \cup {x} ELSE reading
  /\ UNCHANGED <<link, share, down, receiver, host, hashing>>
PageOnGet(x) ==
  /\ Takes(up, "get", x)
  /\ up' = Tail(up)
  /\ \/ x \in share /\ reading' = reading \cup {x} /\ UNCHANGED down
     \/ x \notin share /\ down' = Append(down, Msg("no-file", x)) /\ UNCHANGED reading
  /\ UNCHANGED <<link, share, receiver, host, hashing>>

\* The button does not look at the channel, only at the list of peers.
PageSendFile(x) ==
  /\ link \in {"up"} \cup IF Early THEN {"opening"} ELSE {}
  /\ result[x] = "unasked"
  /\ result' = [result EXCEPT ![x] = "asked"]
  /\ reading' = reading \cup {x}
  /\ UNCHANGED <<link, share, up, down, recv, got, host, hashing>>

\* _dc sends nothing, and says nothing, unless the channel is open; the content
\* is kept by then.
ReadDone(x) ==
  /\ x \in reading /\ reading' = reading \ {x}
  /\ held' = held \cup {x}
  /\ down' = IF link = "up" THEN Append(down, Msg("file-offer", x)) ELSE down
  /\ UNCHANGED <<link, share, up, receiver, task, chan, sent, flushed, hashing>>

\* arrayBuffer() rejects; nothing catches it.
ReadFails(x) ==
  /\ x \in reading \cap Changing /\ reading' = reading \ {x}
  /\ UNCHANGED <<vars, hashing>>

-----------------------------------------------------------------------------
(* A page as the receiver. *)

\* _maybeFinishFile forgets the transfer before its content is hashed.
PageFinish_Early(st, n, x) ==   \* mutant: the race of test_filerace_live
  /\ recv' = [recv EXCEPT ![x] = IF st = "done" THEN "none" ELSE st]
  /\ hashing' = IF st = "done" THEN hashing \cup {x} ELSE hashing
PageFinish(st, n, x) ==
  /\ recv' = [recv EXCEPT ![x] = IF Complete(st, n, x) THEN "none" ELSE st]
  /\ hashing' = IF Complete(st, n, x) THEN hashing \cup {x} ELSE hashing

PageOnDone_Waits(x) ==   \* mutant: only content looks whether the file is complete
  /\ Takes(down, "file-done", x)
  /\ down' = Tail(down)
  /\ recv' = [recv EXCEPT ![x] = IF @ = "none" THEN "none" ELSE "done"]
  /\ UNCHANGED <<link, share, up, result, got, host, reading, hashing>>
PageOnDone(x) ==
  /\ Takes(down, "file-done", x)
  /\ down' = Tail(down)
  /\ IF recv[x] = "none" THEN UNCHANGED <<recv, hashing>>
     ELSE PageFinish("done", got[x], x)
  /\ UNCHANGED <<link, share, up, result, got, host, reading>>

PageOnData(x) ==
  /\ link = "up" /\ got[x] < flushed[x] /\ recv[x] # "none"
  /\ got' = [got EXCEPT ![x] = @ + 1]
  /\ PageFinish(recv[x], got[x] + 1, x)
  /\ UNCHANGED <<link, share, up, down, result, host, reading>>

\* The blob is whole when it holds what the host hashed.
Hashed(x) ==
  /\ x \in hashing /\ hashing' = hashing \ {x}
  /\ result' = [result EXCEPT ![x] = IF got[x] = Size[x] THEN "ok" ELSE "bad"]
  /\ UNCHANGED <<link, share, up, down, recv, got, host, reading>>

-----------------------------------------------------------------------------
(* The two ends: what is not the page's own is FileTransfer's. *)

Shared(x) == OnAccept(x) \/ OnOpen(x) \/ Stream(x) \/ StreamRaises(x) \/ Flush(x)
Common(x) == OnNoFile(x) \/ OnOffer(x) \/ OnChannel(x)
Still == UNCHANGED <<reading, hashing>>

HostEnd(x) ==
  /\ UNCHANGED pages
  /\ \/ Shared(x) /\ Still
     \/ "host" \in pages /\ (PageOnGet(x) \/ ReadDone(x) \/ ReadFails(x))
     \/ "host" \notin pages /\ OnGet(x) /\ Still

ReceiverEnd(x) ==
  /\ UNCHANGED pages
  /\ \/ Common(x) /\ Still
     \/ "receiver" \in pages /\ (PageOnDone(x) \/ PageOnData(x) \/ Hashed(x))
     \/ "receiver" \notin pages /\ (OnDone(x) \/ OnData(x)) /\ Still

UserSteps(x) ==
  /\ UNCHANGED pages
  /\ \/ RequestGet(x) /\ Still
     \/ "host" \in pages /\ (PageShares(x) \/ PageSendFile(x))
     \/ "host" \notin pages /\ (ShareChanges(x) \/ SendFile(x)) /\ Still

PageNext ==
  \/ LinkOpens
  \/ Cut /\ UNCHANGED <<pages, reading, hashing>>
  \/ \E x \in Xids : UserSteps(x) \/ HostEnd(x) \/ ReceiverEnd(x)

PageSpec ==
  /\ PageInit /\ [][PageNext]_bvars /\ WF_bvars(LinkOpens)
  /\ \A x \in Xids : WF_bvars(HostEnd(x)) /\ WF_bvars(ReceiverEnd(x))

-----------------------------------------------------------------------------
(* Properties; DeliveredIntact and BufferBounded are FileTransfer's. *)

\* A page too keeps content only for an offer or an accept under way, while the
\* link lasts, although it reads whole files in the background.
PageHolds == PageTypeOK /\ HeldForAnOffer

\* A page promises what the Python node does, although it reads and hashes in
\* the background: one look at the share, then the whole file or no-file.
PageService ==
  INSTANCE FileService WITH status <- [x \in Xids |-> IF x \in hashing THEN "yes" ELSE Status[x]]
PageServes == PageService!Spec

\* Over a link that lasts, a request for a file that can be read is answered,
\* whichever ends are pages.
AnsweredIf(x) == result[x] = "asked" ~> result[x] \in {"ok", "absent"} \/ link = "cut"
PageAnswered == \A x \in Xids \ Changing : AnsweredIf(x)

\* What docs/extensions/file-browse.md says of get, for every shared file: a
\* transfer or no-file.
EveryGetAnswered == \A x \in Xids : AnsweredIf(x)

\* What the page tells its user, "sending ... to N peer(s)": the peers get it.
SentArrives == PageAnswered
=============================================================================

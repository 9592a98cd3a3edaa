--------------------------- MODULE BrowserSession ---------------------------
(***************************************************************************)
(* Sessions in which at least one of the two nodes is a browser page: Node *)
(* and Peer of web/yaw2.js against each other or against the Python node   *)
(* of Session, whose state and environment this module shares.             *)
(*                                                                         *)
(* A page differs in what it waits for: onmessage starts a handler and     *)
(* does not wait for it, so boxes are handled while others gather; sendTo  *)
(* never fails, a box for a socket that is not open is lost; a rejected    *)
(* handler ends alone; and setInterval never stops.                        *)
(***************************************************************************)
EXTENDS Session

Page == mode.page   \* the nodes that are pages

VARIABLE
  answers   \* for every Peer of a page, its handlers of offers that gather: did
            \* the offer come under ephemeral keys?  (In place of `used`.)

bvars == <<vars, answers>>

PageTypeOK == TypeOK /\ answers \in [Peers -> Seq(BOOLEAN)]

PageInit == Init /\ answers = [p \in Peers |-> <<>>]

-----------------------------------------------------------------------------
(* Peer. *)

SendTo(n, box, in) == IF sig'[n] = "up" THEN Relayed(n, box, in) ELSE in

\* Peer._doOffer up to the gathering, from the Peers st.
PageDoOffer(p, st) == IF Offered(st[p]) THEN st ELSE [st EXCEPT ![p].stage = "gathering"]

\* Peer.startOffer of a new Peer.
PageStartOffer(p, in) ==
  /\ peer' = [WithNew("off", p) EXCEPT ![p].sent = TRUE, ![p].stage = "keying", ![p].timer = TRUE]
  /\ inbox' = SendTo("off", Ekey(p), in)

\* Peer._onEkey: the first verified ekey counts; the answer is sent once.
PageOnEkey(n, p, st, in, box) ==
  LET held == [st EXCEPT ![p].epk = box.src, ![p].sent = TRUE]
  IN \/ /\ st[p].epk # None
        /\ peer' = st /\ inbox' = in
     \/ /\ st[p].epk = None
        /\ peer' = IF st[p].stage = "keying" THEN PageDoOffer(p, held) ELSE held
        /\ inbox' = IF st[p].sent THEN in ELSE SendTo(n, Ekey(p), in)

\* setRemoteDescription of an offer on a connection that has had one: browsers
\* begin anew with the other end, or refuse, and the handler rejects.
Rebinds(q) == IF q.remote = None THEN {TRUE} ELSE BOOLEAN

PageOnOffer(p, st, box) ==
  \E binds \in Rebinds(st[p]) :
    IF binds
    THEN /\ peer' = [st EXCEPT ![p].pc = "new", ![p].stage = "answering", ![p].used = FALSE,
                               ![p].remote = box.src, ![p].secret = (box.key # None)]
         /\ answers' = [answers EXCEPT ![p] = Append(@, box.key # None)]
    ELSE peer' = st /\ UNCHANGED answers

\* sessionFs is set before setRemoteDescription, which may reject.
PageOnAnswer(p, st, box) ==
  LET told == [st EXCEPT ![p].fs = (box.key # None)]
  IN peer' = IF Expects(st[p])
             THEN [told EXCEPT ![p].remote = Answerer(p, box), ![p].secret = (box.key # None)]
             ELSE told

PageOnBox(n, p, st, in, box) ==
  \/ /\ ~Opens(st, p, box)
     /\ peer' = st /\ inbox' = in /\ UNCHANGED answers
  \/ /\ Opens(st, p, box) /\ box.kind = "ekey"
     /\ PageOnEkey(n, p, st, in, box) /\ UNCHANGED answers
  \/ /\ Opens(st, p, box) /\ box.kind = "offer"
     /\ PageOnOffer(p, st, box) /\ inbox' = in
  \/ /\ Opens(st, p, box) /\ box.kind = "answer"
     /\ PageOnAnswer(p, st, box) /\ inbox' = in /\ UNCHANGED answers

-----------------------------------------------------------------------------
(* Node. *)

\* Node._tryConnect on the offering side.
PageTryConnect_Once(n, in) ==   \* mutant: an attempt is never given up
  IF n = "ans" \/ "off" \notin trusts' \/ cur["off"] # None
  THEN inbox' = in /\ UNCHANGED <<cur, peer>>
  ELSE \E p \in OPeers :
         /\ Free(p)
         /\ cur' = [cur EXCEPT !["off"] = p]
         /\ PageStartOffer(p, in)
PageTryConnect(n, in) ==
  IF n = "ans" \/ "off" \notin trusts' \/ (cur["off"] # None /\ Settled(cur["off"]))
  THEN inbox' = in /\ UNCHANGED <<cur, peer>>
  ELSE \E p \in OPeers :
         /\ Free(p)
         /\ cur' = [cur EXCEPT !["off"] = p]
         /\ PageStartOffer(p, in)

\* Node.start's first `joined`, or Node._onReconnect after a blip.
PageConnect(n) ==
  /\ sig[n] = "down" /\ inbox[n] = <<>>
  /\ opened[n] < Sockets[n] /\ opened' = [opened EXCEPT ![n] = @ + 1]
  /\ sig' = [sig EXCEPT ![n] = "up"]
  /\ reg' = reg \cup {n}
  /\ known' = [known EXCEPT ![n] = Other(n) \in reg]
  /\ UNCHANGED <<trusts, recon, mode, late, cuts, answers>>
  /\ \E frames \in {<<[kind |-> "join"]>>} \cup
         (IF n \in reg THEN {<<[kind |-> "leave"], [kind |-> "join"]>>} ELSE {}) :
       LET in == Notify(n, frames, inbox)
       IN IF known'[n] THEN PageTryConnect(n, in)
          ELSE inbox' = in /\ UNCHANGED <<cur, peer>>

\* The timer of setInterval, which nothing stops.
PageSweep ==
  /\ recon = "on" /\ known["off"]
  /\ UNCHANGED <<signaling, trusts, recon, rest, answers>>
  /\ PageTryConnect("off", inbox)

PageAccept(n) ==
  /\ n \notin trusts
  /\ trusts' = trusts \cup {n}
  /\ UNCHANGED <<signaling, recon, rest, answers>>
  /\ IF known[n] THEN PageTryConnect(n, inbox) ELSE UNCHANGED <<inbox, cur, peer>>

Arrives(n, kinds) == inbox[n] # <<>> /\ Head(inbox[n]).kind \in kinds

PageJoin(n) ==
  /\ Arrives(n, {"join"})
  /\ known' = [known EXCEPT ![n] = TRUE]
  /\ UNCHANGED <<sig, reg, trusts, recon, rest, answers>>
  /\ PageTryConnect(n, Rest(n))

\* The Peer is deleted, not closed.
PageLeave(n) ==
  /\ Arrives(n, {"leave"})
  /\ known' = [known EXCEPT ![n] = FALSE]
  /\ cur' = [cur EXCEPT ![n] = None]
  /\ inbox' = Rest(n)
  /\ UNCHANGED <<sig, reg, trusts, recon, peer, rest, answers>>

\* Node._onFrom.
PageFrom(n) ==
  /\ Arrives(n, {"ekey", "offer", "answer"})
  /\ UNCHANGED <<signaling, trusts, recon, rest>>
  /\ IF ~Admits(n) THEN inbox' = Rest(n) /\ UNCHANGED <<cur, peer, answers>>
     ELSE \E p \in PeersOf(n) :
            /\ IF Usable(n) THEN p = cur[n] ELSE Free(p)
            /\ cur' = [cur EXCEPT ![n] = p]
            /\ PageOnBox(n, p, IF Usable(n) THEN peer ELSE WithNew(n, p), Rest(n),
                         Head(inbox[n]))

-----------------------------------------------------------------------------
(* What a Peer waits for. *)

\* FS_TIMEOUT is over.
PageOfferTimer(p) ==
  /\ peer[p].timer
  /\ LET st == [peer EXCEPT ![p].timer = FALSE]
     IN peer' = IF peer[p].stage = "keying" THEN PageDoOffer(p, st) ELSE st
  /\ UNCHANGED <<signaling, inbox, trusts, cur, recon, rest, answers>>

\* Candidates are gathered, or 6 s are over: the offer goes out.
PageOfferGathered(p) ==
  LET eph == peer[p].epk # None
      box == [kind |-> "offer", src |-> p, key |-> peer[p].epk, to |-> None]
  IN /\ peer[p].stage = "gathering"
     /\ peer' = [peer EXCEPT ![p].stage = "offered", ![p].fs = eph]
     /\ UNCHANGED <<signaling, trusts, cur, recon, rest, answers>>
     /\ inbox' = SendTo("off", box, inbox)

\* A handler of an offer goes on: its answer matches that offer's keying, and
\* carries the description the connection has by now.
PageAnswerGathered_Best(p) ==   \* mutant: ephemeral whenever a key is held
  /\ answers[p] # <<>>
  /\ LET box == [kind |-> "answer", src |-> p, key |-> peer[p].epk, to |-> peer[p].remote]
     IN /\ answers' = [answers EXCEPT ![p] = Tail(@)]
        /\ peer' = [peer EXCEPT ![p].fs = (box.key # None),
                                ![p].stage = IF answers'[p] = <<>> THEN "idle" ELSE @]
        /\ UNCHANGED <<signaling, trusts, cur, recon, rest>>
        /\ inbox' = SendTo("ans", box, inbox)
PageAnswerGathered(p) ==
  /\ answers[p] # <<>>
  /\ \E k \in DOMAIN answers[p] :
       LET eph == answers[p][k]
           box == [kind |-> "answer", src |-> p, key |-> IF eph THEN peer[p].epk ELSE None,
                   to |-> peer[p].remote]
           left == SubSeq(answers[p], 1, k - 1) \o SubSeq(answers[p], k + 1, Len(answers[p]))
       IN /\ answers' = [answers EXCEPT ![p] = left]
          /\ peer' = [peer EXCEPT ![p].fs = eph,
                                  ![p].stage = IF left = <<>> THEN "idle" ELSE @]
          /\ UNCHANGED <<signaling, trusts, cur, recon, rest>>
          /\ inbox' = SendTo("ans", box, inbox)

PageNode(n) ==
  \/ PageConnect(n) \/ PageAccept(n) \/ (Forget(n) /\ UNCHANGED answers)
  \/ PageJoin(n) \/ PageLeave(n) \/ PageFrom(n)
PythonNode(n) == Connect(n) \/ Accept(n) \/ Forget(n) \/ Pump(n)

PageOfferer ==
  \/ PageSweep
  \/ \E p \in OPeers : PageOfferTimer(p) \/ PageOfferGathered(p)
PythonOfferer ==
  \/ Reconcile
  \/ \E p \in OPeers : OfferTimer(p) \/ OfferGathered(p)

\* aiortc, browsers, the network and the server.
Environment ==
  \/ \E n \in Nodes : Blip(n) \/ ServerNotices(n)
  \/ StartSweep
  \/ \E p \in OPeers : Stale(p)
  \/ \E p \in OPeers, q \in APeers : LinkUp(p, q)
  \/ \E p \in Peers : Hello(p) \/ LinkCut(p) \/ EndFails(p) \/ IceFails(p)

PageNext ==
  \/ \E n \in Nodes : Page[n] /\ PageNode(n)
  \/ \E n \in Nodes : ~Page[n] /\ PythonNode(n) /\ UNCHANGED answers
  \/ Page["off"] /\ PageOfferer
  \/ ~Page["off"] /\ PythonOfferer /\ UNCHANGED answers
  \/ Page["ans"] /\ \E p \in APeers : PageAnswerGathered(p)
  \/ ~Page["ans"] /\ (\E p \in APeers : AnswerGathered(p)) /\ UNCHANGED answers
  \/ Environment /\ UNCHANGED answers

PageSpec == PageInit /\ [][PageNext]_bvars

\* As in Session; whether a page or the Python node takes a step, it does so
\* when it can.
PageFairness ==
  /\ \A n \in Nodes :
       /\ WF_bvars(Page[n] /\ PageConnect(n))
       /\ WF_bvars(Page[n] /\ (PageJoin(n) \/ PageLeave(n) \/ PageFrom(n)))
       /\ WF_bvars(~Page[n] /\ Connect(n) /\ UNCHANGED answers)
       /\ WF_bvars(~Page[n] /\ Pump(n) /\ UNCHANGED answers)
  /\ WF_bvars(Page["off"] /\ PageSweep)
  /\ WF_bvars(~Page["off"] /\ Reconcile /\ UNCHANGED answers)
  /\ WF_bvars(StartSweep /\ UNCHANGED answers)
  /\ \A p \in OPeers :
       /\ WF_bvars(Page["off"] /\ PageOfferTimer(p))
       /\ WF_bvars(Page["off"] /\ PageOfferGathered(p))
       /\ WF_bvars(~Page["off"] /\ OfferTimer(p) /\ UNCHANGED answers)
       /\ WF_bvars(~Page["off"] /\ OfferGathered(p) /\ UNCHANGED answers)
       /\ WF_bvars(Stale(p) /\ UNCHANGED answers)
  /\ \A p \in APeers :
       /\ WF_bvars(Page["ans"] /\ PageAnswerGathered(p))
       /\ WF_bvars(~Page["ans"] /\ AnswerGathered(p) /\ UNCHANGED answers)
  /\ \A p \in OPeers, q \in APeers : WF_bvars(LinkUp(p, q) /\ UNCHANGED answers)
  /\ \A p \in Peers :
       /\ WF_bvars((Hello(p) \/ EndFails(p)) /\ UNCHANGED answers)
       /\ SF_bvars(IceFails(p) /\ UNCHANGED answers)

FairPageSpec == PageSpec /\ PageFairness

-----------------------------------------------------------------------------
(* Properties, besides those of Session. *)

\* With either kind of node: the user is told "forward-secret" only of a session
\* that is, although a page's handlers of several offers gather at once.
ClaimsHonest == PageTypeOK /\ ClaimHonest

LinkHeld ==
  \E p \in OPeers, q \in APeers :
    /\ cur["off"] = p
    /\ peer[p].remote = q /\ peer[q].remote = p
    /\ \A r \in {p, q} : peer[r].pc = "connected" /\ peer[r].verified

\* Whatever the offerer's socket does to an exchange half done, a link comes up
\* that the offerer keeps.  (The answerer may forget it at a peer-leave.)
LinkReached == <>[](trusts = Nodes) /\ []SweepGoesOn => <>[]LinkHeld
=============================================================================

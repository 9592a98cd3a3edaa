------------------------------- MODULE Session -------------------------------
(***************************************************************************)
(* How two nodes bring up a session: Node, YawPeer and the pump of         *)
(* Signaling in cli/yaw2, with the signaling server between them.  The     *)
(* node with the smaller id ("off") offers, the other ("ans") answers.     *)
(*                                                                         *)
(* A YawPeer stands for its RTCPeerConnection and for its ephemeral key    *)
(* pair, both made with it.  A node's tasks run on one event loop and an   *)
(* action runs until the task waits: for a frame, a timer, or ICE          *)
(* gathering in setLocalDescription.  A YawPeer nobody refers to any more  *)
(* may be used again for a new one.                                        *)
(***************************************************************************)
EXTENDS Naturals, Sequences

CONSTANTS
  OPeers,    \* YawPeer objects of the offering node
  APeers,    \* YawPeer objects of the answering node
  Modes,     \* the settings of a behaviour, see `mode`
  Trusting,  \* the nodes that trust the other from the start
  MaxLate,   \* bound: exchanges that take longer than RETRY_AFTER or than ICE waits
  MaxCuts,   \* bound: peer-to-peer links lost
  None

Nodes == {"off", "ans"}
Other(n) == IF n = "off" THEN "ans" ELSE "off"
Peers == OPeers \cup APeers
PeersOf(n) == IF n = "off" THEN OPeers ELSE APeers
NodeOf(p) == IF p \in OPeers THEN "off" ELSE "ans"

ASSUME SessionAssumption ==
  /\ OPeers \cap APeers = {} /\ None \notin Peers
  /\ \A m \in Modes :
       /\ m.fs \in [Nodes -> BOOLEAN] /\ m.require \in [Nodes -> BOOLEAN]
       /\ m.page \in [Nodes -> BOOLEAN] /\ m.fickle \subseteq Nodes /\ m.sockets \in [Nodes -> Nat]
       /\ \A n \in Nodes : m.page[n] => ~m.require[n]   \* a page has no such setting
  /\ Trusting \subseteq Nodes /\ MaxLate \in Nat /\ MaxCuts \in Nat

VARIABLES
  (* signaling *)
  sig,      \* a node's socket: "up", "down", or "broken": its pump has left
            \* the loop although the socket is open
  reg,      \* the nodes the server has registered
  inbox,    \* the frames a node has not handled yet, in order
  known,    \* is the other node in `sig.peers`?
  (* the nodes *)
  trusts,   \* the nodes whose keyring holds the other
  cur,      \* a node's YawPeer for the other in `Node.peers`, or None
  recon,    \* the offerer's _reconcile task: "off", "on" or "dead"
  peer,     \* the state of every YawPeer
  mode,     \* fixed at the start: the settings of either node, below
  (* bounds *)
  late, opened, cuts

vars == <<sig, reg, inbox, known, trusts, cur, recon, peer, mode, late, opened, cuts>>
signaling == <<sig, reg, known>>
rest == <<mode, late, opened, cuts>>

Fs == mode.fs            \* does a node offer ephemeral keys?
Require == mode.require  \* does it refuse sessions without them?
Fickle == mode.fickle    \* the nodes whose users may forget the other again
Sockets == mode.sockets  \* bound: the signaling sockets each node opens

PeerState ==
  [pc : {"new", "connected", "failed", "closed"},  \* connectionState
   stage : {"idle", "keying", "gathering", "offered", "answering"},
   by : {"none", "run", "timer", "reconcile", "user"},  \* the task that gathers
   epk : Peers \cup {None},     \* whose ephemeral key it holds
   sent : BOOLEAN,              \* _ekey_sent
   used : BOOLEAN,              \* the offer being answered came under ephemeral keys
   remote : Peers \cup {None},  \* whose description it was bound to first; itself, if
                                \* that was an answer to another's offer: of no use
   secret : BOOLEAN,            \* that description came under ephemeral keys
   fs : BOOLEAN,                \* session_fs
   verified : BOOLEAN,
   claim : BOOLEAN,             \* `fs` of the last "connected" event
   fresh : BOOLEAN,             \* younger than RETRY_AFTER
   timer : BOOLEAN]             \* _offer_timer is sleeping

Born ==
  [pc |-> "new", stage |-> "idle", by |-> "none", epk |-> None, sent |-> FALSE,
   used |-> FALSE, remote |-> None, secret |-> FALSE, fs |-> FALSE,
   verified |-> FALSE, claim |-> FALSE, fresh |-> TRUE, timer |-> FALSE]

Presence == [kind : {"join", "leave"}]
\* key: the YawPeer whose ephemeral key the box is sealed for, or None: static.
\* to: the one whose offer the description in an answer was made for.
Box == [kind : {"ekey", "offer", "answer"}, src : Peers, key : Peers \cup {None},
        to : Peers \cup {None}]

TypeOK ==
  /\ sig \in [Nodes -> {"up", "down", "broken"}]
  /\ reg \subseteq Nodes
  /\ inbox \in [Nodes -> Seq(Presence \cup Box)]
  /\ known \in [Nodes -> BOOLEAN]
  /\ trusts \subseteq Nodes
  /\ cur \in [Nodes -> Peers \cup {None}] /\ \A n \in Nodes : cur[n] \in PeersOf(n) \cup {None}
  /\ recon \in {"off", "on", "dead"}
  /\ peer \in [Peers -> PeerState] /\ mode \in Modes
  /\ opened \in [Nodes -> Nat]
  /\ late \in 0..MaxLate /\ cuts \in 0..MaxCuts

Init ==
  /\ sig = [n \in Nodes |-> "down"]
  /\ reg = {}
  /\ inbox = [n \in Nodes |-> <<>>]
  /\ known = [n \in Nodes |-> FALSE]
  /\ trusts = Trusting
  /\ cur = [n \in Nodes |-> None]
  /\ recon = "off"
  /\ peer = [p \in Peers |-> [Born EXCEPT !.pc = "closed"]]
  /\ mode \in Modes
  /\ late = 0 /\ opened = [n \in Nodes |-> 0] /\ cuts = 0

-----------------------------------------------------------------------------
(* Signaling. *)

InFlight(p) ==
  \E n \in Nodes : \E k \in DOMAIN inbox[n] :
    inbox[n][k] \in Box /\ p \in {inbox[n][k].src, inbox[n][k].key, inbox[n][k].to}

\* sig.send_to raises on a lost socket.
CanSend(n) == sig[n] # "down"

\* The inboxes after n has sent box: the server answers no-peer, which the
\* client ignores, or relays into a socket nobody reads any more.
Relayed(n, box, in) ==
  IF sig[Other(n)] = "up" THEN [in EXCEPT ![Other(n)] = Append(@, box)] ELSE in

Notify(n, frames, in) ==
  IF sig[Other(n)] = "up" THEN [in EXCEPT ![Other(n)] = @ \o frames] ELSE in

Ekey(p) == [kind |-> "ekey", src |-> p, key |-> None, to |-> None]

\* Does the box open with p's keys?  Try-both: ephemeral, then static.
Opens(st, p, box) == box.key = None \/ (box.key = p /\ st[p].epk = box.src)

\* The pump of n is inside a handler that gathers.
Busy(n) ==
  \E p \in PeersOf(n) : peer[p].stage \in {"gathering", "answering"} /\ peer[p].by = "run"

\* An exception leaves the receive loop; frames not handled yet are lost.
PumpFails(n) ==
  /\ sig' = [sig EXCEPT ![n] = IF @ = "up" THEN "broken" ELSE @]
  /\ inbox' = [inbox EXCEPT ![n] = <<>>]

-----------------------------------------------------------------------------
(* YawPeer objects. *)

Gathers(p) == peer[p].stage \in {"gathering", "answering"}

\* Nobody refers to p and it has no link to bring up.
Free(p) ==
  /\ peer[p].pc # "connected" /\ (peer[p].pc = "new" => peer[p].remote = None)
  /\ ~Gathers(p) /\ ~peer[p].timer
  /\ cur[NodeOf(p)] # p /\ ~InFlight(p)
  /\ \A q \in Peers : peer[q].pc \in {"new", "connected"} \/ Gathers(q) =>
       peer[q].epk # p /\ peer[q].remote # p

\* Node._new_peer: the one it replaces is closed.
WithNew(n, p) ==
  [q \in Peers |-> IF q = p THEN Born
                   ELSE IF q = cur[n] THEN [peer[q] EXCEPT !.pc = "closed"]
                   ELSE peer[q]]

\* YawPeer._do_offer up to the gathering, from the YawPeers st.
Offered(q) == q.stage \in {"gathering", "offered"}   \* _offered
DoOffer(p, by, st) ==
  peer' = IF Offered(st[p]) THEN st
          ELSE IF Require["off"] /\ st[p].epk = None
          THEN [st EXCEPT ![p].stage = "idle", ![p].pc = "closed"]   \* fs-refused
          ELSE [st EXCEPT ![p].stage = "gathering", ![p].by = by]

\* YawPeer.start_offer of a new YawPeer.  The pump drops its frames at an
\* exception and goes on, _reconcile ends.
StartOffer(p, by, in) ==
  LET st == WithNew("off", p)
  IN \/ /\ Fs["off"] /\ CanSend("off")'
        /\ peer' = [st EXCEPT ![p].sent = TRUE, ![p].stage = "keying", ![p].timer = TRUE]
        /\ inbox' = Relayed("off", Ekey(p), in)
        /\ UNCHANGED recon
     \/ /\ Fs["off"] /\ ~CanSend("off")'
        /\ peer' = [st EXCEPT ![p].sent = TRUE]
        /\ inbox' = IF by = "run" THEN [in EXCEPT !["off"] = <<>>] ELSE in
        /\ recon' = IF by = "reconcile" THEN "dead" ELSE recon
     \/ /\ ~Fs["off"]
        /\ DoOffer(p, by, st)
        /\ inbox' = in
        /\ UNCHANGED recon

\* The link is up, or young enough to come up.
Settled_YoungOnly(p) == peer[p].pc = "new" /\ peer[p].fresh   \* mutant
Settled(p) ==
  \/ peer[p].verified
  \/ peer[p].pc = "connected"
  \/ peer[p].pc = "new" /\ peer[p].fresh

\* Node._try_connect on the offering node.
TryConnect(by, in) ==
  IF "off" \notin trusts' \/ (cur["off"] # None /\ Settled(cur["off"]))
  THEN inbox' = in /\ UNCHANGED <<cur, recon, peer>>
  ELSE \E p \in OPeers :
         /\ Free(p)
         /\ cur' = [cur EXCEPT !["off"] = p]
         /\ StartOffer(p, by, in)

\* The answering node never offers.
TryConnectAt(n, by, in) ==
  IF n = "off" THEN TryConnect(by, in)
  ELSE inbox' = in /\ UNCHANGED <<cur, recon, peer>>

-----------------------------------------------------------------------------
(* Node: presence, trust and the periodic sweep. *)

\* Node.start, or the pump's reconnection once it has left the loop.  The
\* server displaces a socket it still holds, with or without a peer-leave.
Connect(n) ==
  /\ sig[n] # "up" /\ inbox[n] = <<>> /\ ~Busy(n)
  /\ opened[n] < Sockets[n] /\ opened' = [opened EXCEPT ![n] = @ + 1]
  /\ sig' = [sig EXCEPT ![n] = "up"]
  /\ reg' = reg \cup {n}
  /\ known' = [known EXCEPT ![n] = Other(n) \in reg]
  /\ UNCHANGED trusts
  /\ \E frames \in {<<[kind |-> "join"]>>} \cup
         (IF n \in reg THEN {<<[kind |-> "leave"], [kind |-> "join"]>>} ELSE {}) :
       LET in == Notify(n, frames, inbox)
       IN IF known'[n] THEN TryConnectAt(n, "run", in)
          ELSE inbox' = in /\ UNCHANGED <<cur, recon, peer>>
  /\ UNCHANGED <<mode, late, cuts>>

\* Node.start ends by starting the sweep; it matters on the offering node.
StartSweep ==
  /\ recon = "off" /\ sig["off"] = "up"
  /\ recon' = "on"
  /\ UNCHANGED <<sig, reg, inbox, known, trusts, cur, peer, rest>>

Reconcile ==
  /\ recon = "on" /\ known["off"]
  /\ \A p \in OPeers : ~(Gathers(p) /\ peer[p].by = "reconcile")
  /\ UNCHANGED <<signaling, trusts, rest>>
  /\ TryConnect("reconcile", inbox)

\* Node.accept: at any time, and an offer at once if the other is present.
Accept(n) ==
  /\ n \notin trusts
  /\ trusts' = trusts \cup {n}
  /\ UNCHANGED <<signaling, rest>>
  /\ IF known[n] THEN TryConnectAt(n, "user", inbox)
     ELSE UNCHANGED <<inbox, cur, recon, peer>>

\* /forget: the keyring only; what is under way or open is left alone.
Forget(n) ==
  /\ n \in Fickle /\ n \in trusts
  /\ trusts' = trusts \ {n}
  /\ UNCHANGED <<signaling, inbox, cur, recon, peer, rest>>

\* A frame is taken up when the pump is back in its loop.
Takes(n, kinds) == inbox[n] # <<>> /\ ~Busy(n) /\ Head(inbox[n]).kind \in kinds
Rest(n) == [inbox EXCEPT ![n] = Tail(@)]

PeerJoin(n) ==
  /\ Takes(n, {"join"})
  /\ known' = [known EXCEPT ![n] = TRUE]
  /\ UNCHANGED <<sig, reg, trusts, rest>>
  /\ TryConnectAt(n, "run", Rest(n))

\* Node._on_leave: the YawPeer is forgotten, not closed.
PeerLeave(n) ==
  /\ Takes(n, {"leave"})
  /\ known' = [known EXCEPT ![n] = FALSE]
  /\ cur' = [cur EXCEPT ![n] = None]
  /\ inbox' = Rest(n)
  /\ UNCHANGED <<sig, reg, trusts, recon, peer, rest>>

-----------------------------------------------------------------------------
(* YawPeer.on_box and what it dispatches to, on the YawPeers st. *)

\* The first verified ekey counts; the answer to it is sent once.
OnEkey(n, p, st, in, box) ==
  LET held == [st EXCEPT ![p].epk = box.src, ![p].sent = TRUE]
  IN \/ /\ ~Fs[n] \/ st[p].epk # None
        /\ peer' = st /\ inbox' = in
     \/ /\ Fs[n] /\ st[p].epk = None /\ ~st[p].sent /\ ~CanSend(n)
        /\ peer' = held /\ inbox' = [in EXCEPT ![n] = <<>>]
     \/ /\ Fs[n] /\ st[p].epk = None /\ (st[p].sent \/ CanSend(n))
        /\ inbox' = IF st[p].sent THEN in ELSE Relayed(n, Ekey(p), in)
        /\ IF st[p].stage = "keying" THEN DoOffer(p, "run", held) ELSE peer' = held

\* require_fs: a box under static keys is a 2.0 peer's.
Refuses_No(n, box) == FALSE   \* mutant
Refuses(n, box) == Require[n] /\ box.key = None

\* A connection stays bound to the first description it was given.
OnOffer(p, st, in, box) ==
  /\ inbox' = in
  /\ peer' =
       IF Refuses("ans", box) THEN [st EXCEPT ![p].pc = "closed"]
       ELSE [st EXCEPT
              ![p].stage = "answering", ![p].by = "run", ![p].used = (box.key # None),
              ![p].remote = IF @ = None THEN box.src ELSE @,
              ![p].secret = IF st[p].remote = None THEN box.key # None ELSE @]

\* setRemoteDescription(answer) raises unless an offer is outstanding.
Expects(q) == q.stage \in {"gathering", "offered"} /\ q.remote = None
Answerer(p, box) == IF box.to = p THEN box.src ELSE p

\* What an answer says of forward secrecy, told to the user at `hello`.
AnswerFs_Held(p, st, box) == st[p].epk # None   \* mutant: a key is held
AnswerFs(p, st, box) == box.key # None

OnAnswer(p, st, in, box) ==
  \/ /\ Refuses("off", box)
     /\ inbox' = in /\ peer' = [st EXCEPT ![p].pc = "closed"] /\ UNCHANGED sig
  \/ /\ ~Refuses("off", box) /\ Expects(st[p])
     /\ inbox' = in /\ UNCHANGED sig
     /\ peer' = [st EXCEPT ![p].fs = AnswerFs(p, st, box), ![p].remote = Answerer(p, box),
                           ![p].secret = (box.key # None)]
  \/ /\ ~Refuses("off", box) /\ ~Expects(st[p])
     /\ peer' = [st EXCEPT ![p].fs = AnswerFs(p, st, box)]
     /\ PumpFails("off")

OnBox(n, p, st, in, box) ==
  \/ /\ ~Opens(st, p, box)
     /\ peer' = st /\ inbox' = in /\ UNCHANGED sig
  \/ /\ Opens(st, p, box) /\ box.kind = "ekey"
     /\ OnEkey(n, p, st, in, box) /\ UNCHANGED sig
  \/ /\ Opens(st, p, box) /\ box.kind = "offer"
     /\ OnOffer(p, st, in, box) /\ UNCHANGED sig
  \/ /\ Opens(st, p, box) /\ box.kind = "answer"
     /\ OnAnswer(p, st, in, box)

\* Node._on_from: a new YawPeer unless the current one can still be used.
Usable(n) == cur[n] # None /\ peer[cur[n]].pc \in {"new", "connected"}

Admits_Any(n) == TRUE   \* mutant: no trust gate for incoming boxes
Admits(n) == n \in trusts

FromPeer(n) ==
  /\ Takes(n, {"ekey", "offer", "answer"})
  /\ IF ~Admits(n) THEN inbox' = Rest(n) /\ UNCHANGED <<sig, cur, peer>>
     ELSE \E p \in PeersOf(n) :
            /\ IF Usable(n) THEN p = cur[n] ELSE Free(p)
            /\ cur' = [cur EXCEPT ![n] = p]
            /\ OnBox(n, p, IF Usable(n) THEN peer ELSE WithNew(n, p), Rest(n),
                     Head(inbox[n]))
  /\ UNCHANGED <<reg, known, trusts, recon, rest>>

-----------------------------------------------------------------------------
(* What a YawPeer waits for. *)

\* FS_TIMEOUT is over: fall back to 2.0 unless the offer is already made.
OfferTimer_Silent(p) ==   \* mutant: no fall-back to 2.0
  /\ peer[p].timer
  /\ peer' = [peer EXCEPT ![p].timer = FALSE]
  /\ UNCHANGED <<signaling, inbox, trusts, cur, recon, rest>>
OfferTimer(p) ==
  /\ peer[p].timer
  /\ LET st == [peer EXCEPT ![p].timer = FALSE]
     IN IF peer[p].stage = "keying" THEN DoOffer(p, "timer", st) ELSE peer' = st
  /\ UNCHANGED <<signaling, inbox, trusts, cur, recon, rest>>

\* The candidates of an offer are gathered: it is sealed with whatever key is
\* held by now and sent, or the send raises in the task that gathered.
OfferGathered(p) ==
  LET eph == Fs["off"] /\ peer[p].epk # None
      box == [kind |-> "offer", src |-> p, key |-> IF eph THEN peer[p].epk ELSE None,
              to |-> None]
  IN /\ peer[p].stage = "gathering"
     /\ peer' = [peer EXCEPT ![p].stage = "offered", ![p].fs = eph, ![p].by = "none"]
     /\ \/ /\ CanSend("off")
           /\ inbox' = Relayed("off", box, inbox)
           /\ UNCHANGED recon
        \/ /\ ~CanSend("off")
           /\ inbox' = IF peer[p].by = "run" THEN [inbox EXCEPT !["off"] = <<>>] ELSE inbox
           /\ recon' = IF peer[p].by = "reconcile" THEN "dead" ELSE recon
     /\ UNCHANGED <<signaling, trusts, cur, rest>>

\* The answer matches the offer's keying.
AnswerKeying_Best(p) == peer[p].epk # None   \* mutant: ephemeral whenever possible
AnswerKeying(p) == peer[p].used

AnswerGathered(p) ==
  LET eph == AnswerKeying(p)
      box == [kind |-> "answer", src |-> p, key |-> IF eph THEN peer[p].epk ELSE None,
              to |-> peer[p].remote]
  IN /\ peer[p].stage = "answering"
     /\ peer' = [peer EXCEPT ![p].stage = "idle", ![p].fs = eph, ![p].by = "none"]
     /\ inbox' = IF CanSend("ans") THEN Relayed("ans", box, inbox)
                 ELSE [inbox EXCEPT !["ans"] = <<>>]
     /\ UNCHANGED <<signaling, trusts, cur, recon, rest>>

-----------------------------------------------------------------------------
(* WebRTC.  Two connections meet when each was given the other's           *)
(* description: the credentials in it are used once.                       *)

Keeps == <<signaling, inbox, trusts, cur, recon>>

Matched(p, q) ==
  /\ p # q /\ peer[p].remote = q /\ peer[q].remote = p
  /\ peer[p].pc = "new" /\ peer[q].pc = "new"
  /\ ~Gathers(p) /\ ~Gathers(q)

LinkUp(p, q) ==
  /\ Matched(p, q)
  /\ peer' = [peer EXCEPT ![p].pc = "connected", ![q].pc = "connected"]
  /\ UNCHANGED <<Keeps, rest>>

\* The `hello` of the other end.
Hello(p) ==
  /\ peer[p].pc = "connected" /\ ~peer[p].verified
  /\ peer' = [peer EXCEPT ![p].verified = TRUE, ![p].claim = peer[p].fs]
  /\ UNCHANGED <<Keeps, rest>>

\* The path between the two ends is lost.
LinkCut(p) ==
  /\ peer[p].pc = "connected" /\ cuts < MaxCuts
  /\ cuts' = cuts + 1
  /\ peer' = [peer EXCEPT ![p].pc = "failed"]
  /\ UNCHANGED <<Keeps, mode, late, opened>>

\* The other end is gone.
EndFails(p) ==
  /\ peer[p].pc = "connected" /\ peer[peer[p].remote].pc # "connected"
  /\ peer' = [peer EXCEPT ![p].pc = "failed"]
  /\ UNCHANGED <<Keeps, rest>>

\* The nodes are still exchanging boxes, or p is about to be linked.
UnderWay(p) ==
  \/ \E q \in Peers : InFlight(q) \/ Gathers(q) \/ peer[q].timer
  \/ \E q \in Peers : Matched(p, q)

\* A time limit for p is over: after the exchange it allows for, or late ones.
Overdue(p) ==
  IF UnderWay(p) THEN late < MaxLate /\ late' = late + 1 ELSE UNCHANGED late

\* Connectivity checks time out.
IceFails(p) ==
  /\ peer[p].pc = "new" /\ peer[p].remote # None /\ ~Gathers(p)
  /\ Overdue(p)
  /\ peer' = [peer EXCEPT ![p].pc = "failed"]
  /\ UNCHANGED <<Keeps, mode, opened, cuts>>

\* RETRY_AFTER, which is longer than FS_TIMEOUT and gathering together.
Stale(p) ==
  /\ peer[p].pc = "new" /\ peer[p].fresh /\ ~peer[p].timer /\ ~Gathers(p)
  /\ Overdue(p)
  /\ peer' = [peer EXCEPT ![p].fresh = FALSE]
  /\ UNCHANGED <<Keeps, mode, opened, cuts>>

-----------------------------------------------------------------------------
(* The sockets to the server. *)

\* A socket is lost, with frames that were on their way to the node.  (The
\* last socket of a node is not.)
Blip(n) ==
  /\ sig[n] = "up" /\ opened[n] < Sockets[n]
  /\ sig' = [sig EXCEPT ![n] = "down"]
  /\ \E k \in 0..Len(inbox[n]) : inbox' = [inbox EXCEPT ![n] = SubSeq(@, 1, k)]
  /\ UNCHANGED <<reg, known, trusts, cur, recon, peer, rest>>

\* The server finds out.
ServerNotices(n) ==
  /\ sig[n] = "down" /\ n \in reg
  /\ reg' = reg \ {n}
  /\ inbox' = Notify(n, <<[kind |-> "leave"]>>, inbox)
  /\ UNCHANGED <<sig, known, trusts, cur, recon, peer, rest>>

Pump(n) == PeerJoin(n) \/ PeerLeave(n) \/ FromPeer(n)

Next ==
  \/ \E n \in Nodes : Connect(n) \/ Accept(n) \/ Forget(n) \/ Pump(n) \/ Blip(n) \/ ServerNotices(n)
  \/ StartSweep \/ Reconcile
  \/ \E p \in OPeers : OfferTimer(p) \/ OfferGathered(p) \/ Stale(p)
  \/ \E p \in APeers : AnswerGathered(p)
  \/ \E p \in OPeers, q \in APeers : LinkUp(p, q)
  \/ \E p \in Peers : Hello(p) \/ LinkCut(p) \/ EndFails(p) \/ IceFails(p)

Spec == Init /\ [][Next]_vars

\* Tasks that can run do, the server and the checks of ICE time out, and the
\* offerer sweeps for ever.  (Strong fairness, for ICE gives up even if new
\* exchanges begin meanwhile.)  Nothing makes a user accept or forget a key.
Fairness ==
  /\ \A n \in Nodes : WF_vars(Connect(n)) /\ WF_vars(Pump(n))
  /\ WF_vars(StartSweep) /\ WF_vars(Reconcile)
  /\ \A p \in OPeers : WF_vars(OfferTimer(p)) /\ WF_vars(OfferGathered(p)) /\ WF_vars(Stale(p))
  /\ \A p \in APeers : WF_vars(AnswerGathered(p))
  /\ \A p \in OPeers, q \in APeers : WF_vars(LinkUp(p, q))
  /\ \A p \in Peers : WF_vars(Hello(p)) /\ WF_vars(EndFails(p)) /\ SF_vars(IceFails(p))

FairSpec == Spec /\ Fairness

-----------------------------------------------------------------------------
(* Properties. *)

\* A node with require_fs holds no session whose description came under static
\* keys, however ekeys, offers and answers of several attempts are mixed up.
RequireHonoured ==
  \A p \in Peers :
    Require[NodeOf(p)] /\ peer[p].pc = "connected" => peer[p].secret

\* If the answer to a session came under ephemeral keys, so did the offer, and
\* the keys are those of the two ends, however many attempts are mixed up.
KeysAgree ==
  \A p \in OPeers, q \in APeers :
    /\ peer[p].pc = "connected" /\ peer[q].pc = "connected"
    /\ peer[p].remote = q /\ peer[q].remote = p /\ peer[p].secret
    => peer[q].secret /\ peer[p].epk = q /\ peer[q].epk = p

\* The user is told "forward-secret" only of a session that is.
ClaimHonest == \A p \in Peers : peer[p].verified /\ peer[p].claim => peer[p].secret

\* The user of an offerer is told so truly even if sockets are lost, an ekey comes
\* when the timer has made a static offer, and attempts are mixed up: the last
\* answer a YawPeer noted in session_fs is the one its connection rests on.
OffererHonest == \A p \in OPeers : peer[p].verified /\ peer[p].claim => peer[p].secret

\* A session forms only between nodes that have each accepted the other.
BothTrust ==
  \A p \in Peers : peer[p].pc = "connected" => Nodes \ Fickle \subseteq trusts

\* The connections of n that were given a description and are not up yet.
HalfMade(n) == {p \in PeersOf(n) : peer[p].pc = "new" /\ peer[p].remote # None}

\* A node that has forgotten the other begins no session with it, whatever is
\* under way; it brings up only what was half made when the user forgot.
ForgottenStaysOut ==
  [][\A n \in Nodes \ trusts :
       /\ HalfMade(n)' \subseteq HalfMade(n)
       /\ \A p \in PeersOf(n) \ HalfMade(n) :
            peer[p].pc # "connected" => peer'[p].pc # "connected"]_vars

\* An open link is settled: no sweep, join or box replaces its YawPeer by
\* another (a peer-leave only forgets it).
OpenLinkSettled ==
  [][\A n \in Nodes :
       cur[n] # None /\ cur'[n] \notin {None, cur[n]} => peer[cur[n]].pc # "connected"]_vars

Linked(p, q) ==
  /\ cur["off"] = p /\ cur["ans"] = q
  /\ \A r \in {p, q} : peer[r].pc = "connected" /\ peer[r].verified
  /\ peer[p].remote = q /\ peer[q].remote = p

Together == \E p \in OPeers, q \in APeers : Linked(p, q)

\* Once each has accepted the other, at whatever time, the session comes up
\* and stays up, if no signaling socket was lost.
Meet == <>[](trusts = Nodes) /\ [](\A n \in Nodes : opened[n] <= 1) => <>[]Together

-----------------------------------------------------------------------------
(* What the documents say and the code does not do. *)

\* "An offerer periodically re-offers": the sweep does not end.
SweepGoesOn == recon # "dead"

\* "An untrusted id is ignored": no session with one whose key was removed.
UntrustedIgnored == \A p \in Peers : peer[p].pc = "connected" => NodeOf(p) \in trusts

\* "DataChannels survive a signaling outage untouched": while both connections
\* of a link are up, the nodes hold on to it.
LinkSurvives ==
  [][\A p \in OPeers, q \in APeers :
       Linked(p, q) /\ (\A r \in {p, q} : peer'[r].pc = "connected") => Linked(p, q)']_vars

\* "require-FS node + 2.1 node -> still connects", when an ekey is late too.
NewNodesMeet == <>[](trusts = Nodes) => <>Together
=============================================================================

----------------------------- MODULE SessionProofs -----------------------------
(***************************************************************************)
(* What TLAPS proves of Session and BrowserSession, for any number of      *)
(* connections, attempts and lost sockets: whose keys a session is under,  *)
(* what a node that requires forward secrecy gets, who must have accepted  *)
(* whom, and what the user of an offerer is told.                          *)
(*                                                                         *)
(* A handler works on the connections step by step (a new YawPeer, then    *)
(* the box), so the invariant takes them, the inboxes and the handlers of  *)
(* offers that gather as parameters, and there is a lemma for every such   *)
(* part of a handler.                                                      *)
(***************************************************************************)
EXTENDS BrowserSession, SequenceTheorems, TLAPS

Boxes == {"ekey", "offer", "answer"}

\* What each node can find in its inbox, and what its connections can be at.
Frames(in) ==
  /\ \A k \in DOMAIN in["ans"] :
       in["ans"][k].kind \in Boxes => in["ans"][k].kind # "answer" /\ in["ans"][k].src \in OPeers
  /\ \A k \in DOMAIN in["off"] :
       in["off"][k].kind \in Boxes => in["off"][k].kind # "offer" /\ in["off"][k].src \in APeers

Roles(st) ==
  /\ \A p \in OPeers : st[p].epk \in APeers \cup {None}
  /\ \A q \in APeers : st[q].epk \in OPeers \cup {None} /\ st[q].stage \in {"idle", "answering"}

\* May the connection of an answerer still be used?
Alive(st, q) == st[q].pc \in {"new", "connected"} \/ st[q].stage \in {"gathering", "answering"}

IsOffer(in, k, p) == in["ans"][k].kind = "offer" /\ in["ans"][k].src = p
NoOffer(in, p) == \A k \in DOMAIN in["ans"] : ~IsOffer(in, k, p)
Unbound(st, p) == \A q \in APeers : Alive(st, q) => st[q].remote # p

\* p's offer is behind it, q holds p's ephemeral key, and if that offer is what q
\* is bound to, it came under ephemeral keys.
Sealed(st, in, p, q) ==
  /\ st[p].stage = "offered" /\ NoOffer(in, p)
  /\ st[q].epk = p
  /\ st[q].remote = p => st[q].secret

\* q is going to answer under ephemeral keys.
AnswersUnder(st, ans, q) ==
  (st[q].stage = "answering" /\ st[q].used) \/ \E k \in DOMAIN ans[q] : ans[q][k]

\* An attempt that has made no offer yet is unknown to the answerer.
Unmade(st, in) ==
  \A p \in OPeers : st[p].stage \in {"keying", "gathering"} => NoOffer(in, p) /\ Unbound(st, p)

\* An attempt has one offer under way at the most, and the answerer did not use it.
OneOffer(st, in) ==
  \A k \in DOMAIN in["ans"] :
    in["ans"][k].kind = "offer" =>
      /\ st[in["ans"][k].src].stage = "offered"
      /\ Unbound(st, in["ans"][k].src)
      /\ \A j \in DOMAIN in["ans"] : IsOffer(in, j, in["ans"][k].src) => j = k

\* Whoever answers under ephemeral keys answers an offer that came under them,
Answering(st, in, ans) ==
  \A q \in APeers :
    /\ ans[q] # <<>> => st[q].stage = "answering"
    /\ AnswersUnder(st, ans, q) => st[q].epk # None /\ Sealed(st, in, st[q].epk, q)

\* so does an answer under way,
Answered(st, in) ==
  \A k \in DOMAIN in["off"] :
    in["off"][k].kind = "answer" /\ in["off"][k].key # None =>
      in["off"][k].key \in OPeers /\ Sealed(st, in, in["off"][k].key, in["off"][k].src)

\* and an answer that an offerer is bound to.
Bound(st, in) ==
  \A p \in OPeers, q \in APeers :
    st[p].pc \in {"new", "connected"} /\ st[p].secret /\ st[p].remote = q =>
      st[p].epk = q /\ Sealed(st, in, p, q)

KeyInv(st, in, ans) ==
  /\ Frames(in) /\ Roles(st) /\ Unmade(st, in) /\ OneOffer(st, in)
  /\ Answering(st, in, ans) /\ Answered(st, in) /\ Bound(st, in)

\* Only a page has several handlers of offers under way.
Handlers == ~Page["ans"] => \A q \in APeers : answers[q] = <<>>

\* A connection is bound to another only at a node that has accepted the other,
\* and under ephemeral keys if it insists; it comes up only when it is bound.
TrustInv == \A p \in Peers : peer[p].remote # None => NodeOf(p) \in trusts \cup Fickle
RequireInv == \A p \in Peers : Require[NodeOf(p)] /\ peer[p].remote # None => peer[p].secret
LinkInv == \A p \in Peers : peer[p].pc = "connected" => peer[p].remote # None

NoAnswers == [p \in Peers |-> <<>>]

Core(ans) == KeyInv(peer, inbox, ans) /\ TrustInv /\ RequireInv /\ LinkInv /\ BothTrust

SessionInv == TypeOK /\ Core(NoAnswers)
PageInv == PageTypeOK /\ Handlers /\ Core(answers)

-----------------------------------------------------------------------------
(* Parts of a handler and the keys.                                         *)

Mailboxes == [Nodes -> Seq(Presence \cup Box)]

\* The older inbox s may have lost its head or a tail, and t got new presence
\* frames and ekeys.
Passes(t, s) ==
  \E c \in {0, 1} : \A k \in DOMAIN t :
    t[k].kind \in {"offer", "answer"} => k + c \in DOMAIN s /\ t[k] = s[k + c]

\* Frames taken up, lost or added that are no offers and no answers change nothing.
LEMMA PassingFrames ==
  ASSUME NEW st, NEW ans, NEW in \in Mailboxes, NEW in2 \in Mailboxes,
         KeyInv(st, in, ans), Frames(in2),
         Passes(in2["ans"], in["ans"]), Passes(in2["off"], in["off"])
  PROVE  /\ KeyInv(st, in2, ans)
         /\ \A p \in OPeers : NoOffer(in, p) => NoOffer(in2, p)
<1>1. /\ in["ans"] \in Seq(Presence \cup Box) /\ in["off"] \in Seq(Presence \cup Box)
      /\ in2["ans"] \in Seq(Presence \cup Box) /\ in2["off"] \in Seq(Presence \cup Box)
  BY DEF Mailboxes, Nodes
<1>2. DOMAIN in2["ans"] \subseteq Nat
  BY <1>1
<1>3. \A p : NoOffer(in, p) => NoOffer(in2, p)
  BY DEF NoOffer, IsOffer, Passes
<1>4. \A p, q : Sealed(st, in, p, q) => Sealed(st, in2, p, q)
  BY <1>3 DEF Sealed
<1>5. Unmade(st, in2)
  BY <1>3 DEF KeyInv, Unmade
<1>6. OneOffer(st, in2)
  <2>1. PICK c \in {0, 1} : \A k \in DOMAIN in2["ans"] :
          in2["ans"][k].kind \in {"offer", "answer"} =>
            k + c \in DOMAIN in["ans"] /\ in2["ans"][k] = in["ans"][k + c]
    BY DEF Passes
  <2>2. SUFFICES ASSUME NEW k \in DOMAIN in2["ans"], in2["ans"][k].kind = "offer"
                 PROVE  /\ st[in2["ans"][k].src].stage = "offered"
                        /\ Unbound(st, in2["ans"][k].src)
                        /\ \A j \in DOMAIN in2["ans"] : IsOffer(in2, j, in2["ans"][k].src) => j = k
    BY DEF OneOffer
  <2>3. k + c \in DOMAIN in["ans"] /\ in2["ans"][k] = in["ans"][k + c]
    BY <2>1, <2>2
  <2>4. /\ st[in2["ans"][k].src].stage = "offered" /\ Unbound(st, in2["ans"][k].src)
        /\ \A j \in DOMAIN in["ans"] : IsOffer(in, j, in2["ans"][k].src) => j = k + c
    BY <2>2, <2>3 DEF KeyInv, OneOffer
  <2>5. ASSUME NEW j \in DOMAIN in2["ans"], IsOffer(in2, j, in2["ans"][k].src)
        PROVE  j = k
    <3>1. j + c \in DOMAIN in["ans"] /\ IsOffer(in, j + c, in2["ans"][k].src)
      BY <2>1, <2>5 DEF IsOffer
    <3>2. j + c = k + c
      BY <3>1, <2>4
    <3> QED
      BY <3>2, <1>2
  <2> QED
    BY <2>4, <2>5
<1>7. Answering(st, in2, ans)
  BY <1>4 DEF KeyInv, Answering
<1>8. Answered(st, in2)
  BY <1>4 DEF KeyInv, Answered, Passes
<1>9. Bound(st, in2)
  BY <1>4 DEF KeyInv, Bound
<1> QED
  BY <1>3, <1>5, <1>6, <1>7, <1>8, <1>9 DEF KeyInv

\* What happens to a connection apart from its keys and its binding.
SameKeys(st, st2, r) ==
  /\ st2[r].epk = st[r].epk /\ st2[r].remote = st[r].remote /\ st2[r].secret = st[r].secret
  /\ st2[r].used = st[r].used /\ st2[r].stage = st[r].stage
  /\ st2[r].pc \in {"new", "connected"} => st[r].pc \in {"new", "connected"}

\* Links that come up or fail, time limits, claims and hellos leave the keys alone.
LEMMA KeysAside ==
  ASSUME NEW st, NEW st2, NEW in, NEW ans, KeyInv(st, in, ans),
         \A r \in Peers : SameKeys(st, st2, r)
  PROVE  /\ KeyInv(st2, in, ans)
         /\ \A p : Unbound(st, p) => Unbound(st2, p)
<1>1. \A r \in OPeers : SameKeys(st, st2, r)
  BY DEF Peers
<1>2. \A r \in APeers : SameKeys(st, st2, r)
  BY DEF Peers
<1>3. \A p : Unbound(st, p) => Unbound(st2, p)
  BY <1>2 DEF Unbound, Alive, SameKeys
<1>4. \A p \in OPeers, q \in APeers : Sealed(st, in, p, q) => Sealed(st2, in, p, q)
  BY <1>1, <1>2 DEF Sealed, SameKeys
<1>5. Frames(in)
  BY DEF KeyInv
<1>6. Roles(st2)
  BY <1>1, <1>2 DEF KeyInv, Roles, SameKeys
<1>7. Unmade(st2, in)
  BY <1>1, <1>3 DEF KeyInv, Unmade, SameKeys
<1>8. OneOffer(st2, in)
  BY <1>1, <1>3, <1>5 DEF KeyInv, OneOffer, SameKeys, Frames, Boxes
<1>9. Answering(st2, in, ans)
  BY <1>2, <1>4, <1>6 DEF KeyInv, Answering, AnswersUnder, SameKeys, Roles
<1>10. Answered(st2, in)
  BY <1>4, <1>5 DEF KeyInv, Answered, Frames, Boxes
<1>11. Bound(st2, in)
  BY <1>1, <1>4 DEF KeyInv, Bound, SameKeys
<1> QED
  BY <1>3, <1>5, <1>6, <1>7, <1>8, <1>9, <1>10, <1>11 DEF KeyInv

PeersTyped(st) == st \in [Peers -> PeerState]

\* A new YawPeer.
LEMMA BornFacts ==
  /\ Born \in PeerState
  /\ Born.pc = "new" /\ Born.epk = None /\ Born.remote = None /\ Born.stage = "idle"
  /\ Born.used = FALSE /\ Born.secret = FALSE /\ Born.sent = FALSE
BY DEF Born, PeerState

\* Nobody refers to p.
Unused(st, in, p) ==
  /\ \A n \in Nodes : \A k \in DOMAIN in[n] :
       in[n][k].kind \in Boxes => p # in[n][k].src /\ p # in[n][k].key
  /\ \A r \in Peers : Alive(st, r) => st[r].epk # p /\ st[r].remote # p
  /\ st[p].stage \notin {"gathering", "answering"}

\* A new YawPeer takes the place of one that nobody refers to.
LEMMA KeysOfNewPeer ==
  ASSUME NEW st, NEW st2, NEW in, NEW ans \in [Peers -> Seq(BOOLEAN)], KeyInv(st, in, ans),
         NEW p \in Peers, Unused(st, in, p), st2[p] = Born,
         \A r \in Peers \ {p} : SameKeys(st, st2, r)
  PROVE  KeyInv(st2, in, ans) /\ NoOffer(in, p) /\ Unbound(st2, p)
<1> USE DEF Unused
<1>0. st2[p].epk = None /\ st2[p].remote = None /\ st2[p].stage = "idle" /\ st2[p].used = FALSE
  BY BornFacts
<1>1. None \notin Peers
  BY SessionAssumption
<1>2. NoOffer(in, p)
  BY DEF NoOffer, IsOffer, Nodes, Boxes
<1>3. \A x \in Peers : Unbound(st, x) => Unbound(st2, x)
  BY <1>0, <1>1 DEF Unbound, Alive, SameKeys, Peers
<1>4. Unbound(st2, p)
  BY <1>0, <1>1 DEF Unbound, Alive, SameKeys, Peers
<1>5. \A x \in OPeers \ {p}, q \in APeers \ {p} : Sealed(st, in, x, q) => Sealed(st2, in, x, q)
  BY DEF Sealed, SameKeys, Peers
<1>6. Frames(in) /\ Roles(st2)
  BY <1>0 DEF KeyInv, Roles, SameKeys, Peers
<1>7. Unmade(st2, in)
  BY <1>0, <1>3 DEF KeyInv, Unmade, SameKeys, Peers
<1>8. OneOffer(st2, in)
  <2>1. \A k \in DOMAIN in["ans"] :
          in["ans"][k].kind = "offer" => in["ans"][k].src \in OPeers \ {p}
    BY <1>2, <1>6 DEF Frames, Boxes, NoOffer, IsOffer
  <2> QED
    BY <2>1, <1>3 DEF KeyInv, OneOffer, SameKeys, Peers
<1>9. Answering(st2, in, ans)
  <2> SUFFICES ASSUME NEW q \in APeers
               PROVE  /\ ans[q] # <<>> => st2[q].stage = "answering"
                      /\ AnswersUnder(st2, ans, q) =>
                           st2[q].epk # None /\ Sealed(st2, in, st2[q].epk, q)
    BY DEF Answering
  <2>1. CASE q = p
    BY <2>1, <1>0 DEF KeyInv, Answering, AnswersUnder
  <2>2. CASE q # p
    <3>1. SameKeys(st, st2, q)
      BY <2>2 DEF Peers
    <3>2. AnswersUnder(st2, ans, q) => AnswersUnder(st, ans, q)
      BY <3>1 DEF AnswersUnder, SameKeys
    <3>3. ans[q] # <<>> => st2[q].stage = "answering"
      BY <3>1 DEF KeyInv, Answering, SameKeys
    <3>4. ASSUME AnswersUnder(st2, ans, q)
          PROVE  st2[q].epk # None /\ Sealed(st2, in, st2[q].epk, q)
      <4>1. st[q].epk # None /\ Sealed(st, in, st[q].epk, q)
        BY <3>2, <3>4 DEF KeyInv, Answering
      <4>2. st[q].stage = "answering"
        <5>1. CASE st[q].stage = "answering"
          BY <5>1
        <5>2. CASE \E k \in DOMAIN ans[q] : ans[q][k]
          BY <5>2 DEF KeyInv, Answering
        <5> QED
          BY <5>1, <5>2, <3>2, <3>4 DEF AnswersUnder
      <4>3. st[q].epk \in OPeers \ {p}
        BY <4>1, <4>2 DEF KeyInv, Roles, Alive, Peers
      <4> QED
        BY <4>1, <4>3, <3>1, <2>2, <1>5 DEF SameKeys
    <3> QED
      BY <3>3, <3>4
  <2> QED
    BY <2>1, <2>2
<1>10. Answered(st2, in)
  BY <1>5, <1>6 DEF KeyInv, Answered, Frames, Boxes, Nodes, Peers
<1>11. Bound(st2, in)
  <2> SUFFICES ASSUME NEW x \in OPeers, NEW q \in APeers, st2[x].pc \in {"new", "connected"},
                      st2[x].secret, st2[x].remote = q
               PROVE  st2[x].epk = q /\ Sealed(st2, in, x, q)
    BY DEF Bound
  <2>1. x # p
    BY <1>0, <1>1 DEF Peers
  <2>2. SameKeys(st, st2, x)
    BY <2>1 DEF Peers
  <2>3. q # p
    BY <2>2 DEF SameKeys, Alive, Peers
  <2> QED
    BY <2>1, <2>2, <2>3, <1>5 DEF KeyInv, Bound, SameKeys
<1> QED
  BY <1>2, <1>4, <1>6, <1>7, <1>8, <1>9, <1>10, <1>11 DEF KeyInv

\* The new YawPeer of an offerer, or one that waits, begins an attempt or goes on.
LEMMA KeysOfAttempt ==
  ASSUME NEW st, NEW st2, NEW in, NEW ans, KeyInv(st, in, ans),
         NEW p \in OPeers, NoOffer(in, p), Unbound(st, p),
         st[p].stage # "offered", st2[p].stage # "offered",
         st2[p].epk = st[p].epk, st2[p].remote = st[p].remote, st2[p].secret = st[p].secret,
         st2[p].pc \in {"new", "connected"} => st[p].pc \in {"new", "connected"},
         \A r \in Peers \ {p} : SameKeys(st, st2, r)
  PROVE  KeyInv(st2, in, ans)
<1>1. /\ \A r \in APeers : SameKeys(st, st2, r) /\ r # p
      /\ \A r \in OPeers \ {p} : SameKeys(st, st2, r)
  BY SessionAssumption DEF Peers
<1>2. \A x : Unbound(st, x) => Unbound(st2, x)
  BY <1>1 DEF Unbound, Alive, SameKeys
<1>3. \A x \in OPeers, q \in APeers : Sealed(st, in, x, q) => Sealed(st2, in, x, q)
  BY <1>1 DEF Sealed, SameKeys
<1>4. Frames(in) /\ Roles(st2)
  BY <1>1 DEF KeyInv, Roles, SameKeys
<1>5. Unmade(st2, in)
  BY <1>1, <1>2 DEF KeyInv, Unmade, SameKeys
<1>6. OneOffer(st2, in)
  BY <1>1, <1>2, <1>4 DEF KeyInv, OneOffer, SameKeys, Frames, Boxes, NoOffer, IsOffer
<1>7. Answering(st2, in, ans)
  BY <1>1, <1>3, <1>4 DEF KeyInv, Answering, AnswersUnder, SameKeys, Roles
<1>8. Answered(st2, in)
  BY <1>3, <1>4 DEF KeyInv, Answered, Frames, Boxes
<1>9. Bound(st2, in)
  BY <1>1, <1>3 DEF KeyInv, Bound, SameKeys
<1> QED
  BY <1>4, <1>5, <1>6, <1>7, <1>8, <1>9 DEF KeyInv

\* The first ekey counts.
LEMMA KeysOfEkey ==
  ASSUME NEW st, NEW st2, NEW in, NEW ans, KeyInv(st, in, ans),
         NEW p \in Peers, st[p].epk = None,
         p \in OPeers => st2[p].epk \in APeers, p \in APeers => st2[p].epk \in OPeers,
         st2[p].remote = st[p].remote, st2[p].secret = st[p].secret, st2[p].used = st[p].used,
         st2[p].stage = st[p].stage, st2[p].pc = st[p].pc,
         \A r \in Peers \ {p} : SameKeys(st, st2, r)
  PROVE  /\ KeyInv(st2, in, ans)
         /\ \A x : Unbound(st, x) => Unbound(st2, x)
<1>1. None \notin OPeers /\ None \notin APeers
  BY SessionAssumption DEF Peers
<1>2. /\ \A r \in OPeers \ {p} : SameKeys(st, st2, r)
      /\ \A r \in APeers \ {p} : SameKeys(st, st2, r)
  BY DEF Peers
<1>3. \A x : Unbound(st, x) => Unbound(st2, x)
  BY <1>2 DEF Unbound, Alive, SameKeys
<1>4. \A x \in OPeers, q \in APeers : Sealed(st, in, x, q) => q # p /\ Sealed(st2, in, x, q)
  BY <1>1, <1>2 DEF Sealed, SameKeys
<1>5. Frames(in) /\ Roles(st2)
  BY <1>2 DEF KeyInv, Roles, SameKeys
<1>6. Unmade(st2, in)
  BY <1>2, <1>3 DEF KeyInv, Unmade, SameKeys
<1>7. OneOffer(st2, in)
  BY <1>2, <1>3, <1>5 DEF KeyInv, OneOffer, SameKeys, Frames, Boxes
<1>8. Answering(st2, in, ans)
  BY <1>2, <1>4, <1>5 DEF KeyInv, Answering, AnswersUnder, SameKeys, Roles
<1>9. Answered(st2, in)
  BY <1>4, <1>5 DEF KeyInv, Answered, Frames, Boxes
<1>10. Bound(st2, in)
  BY <1>1, <1>2, <1>4 DEF KeyInv, Bound, SameKeys
<1> QED
  BY <1>3, <1>5, <1>6, <1>7, <1>8, <1>9, <1>10 DEF KeyInv

\* q takes up an offer: it is bound to it or stays bound, and it will answer under
\* ephemeral keys only if the offer came under them.
TakesOffer(st, ans, st2, ans2, q, box) ==
  /\ Opens(st, q, box) /\ Alive(st, q)
  /\ st2[q].epk = st[q].epk /\ st2[q].stage = "answering"
  /\ \/ st2[q].remote = st[q].remote /\ st2[q].secret = st[q].secret
     \/ st2[q].remote = box.src /\ st2[q].secret = (box.key # None)
  /\ AnswersUnder(st2, ans2, q) => AnswersUnder(st, ans, q) \/ box.key # None
  /\ \A r \in Peers \ {q} : SameKeys(st, st2, r) /\ ans2[r] = ans[r]

LEMMA KeysOfOffer ==
  ASSUME NEW st, NEW st2, NEW in \in Mailboxes, NEW in2, NEW ans, NEW ans2, KeyInv(st, in, ans),
         NEW q \in APeers, in["ans"] # <<>>, NEW box, box = Head(in["ans"]), box.kind = "offer",
         in2["ans"] = Tail(in["ans"]), in2["off"] = in["off"],
         TakesOffer(st, ans, st2, ans2, q, box)
  PROVE  KeyInv(st2, in2, ans2)
<1> USE DEF TakesOffer
<1>1. None \notin OPeers /\ None \notin APeers
  BY SessionAssumption DEF Peers
<1>2. /\ \A r \in OPeers : r # q /\ SameKeys(st, st2, r)
      /\ \A r \in APeers \ {q} : SameKeys(st, st2, r) /\ ans2[r] = ans[r]
  BY SessionAssumption DEF Peers
<1>3. in["ans"] \in Seq(Presence \cup Box)
  BY DEF Mailboxes, Nodes
<1>4. /\ 1 \in DOMAIN in["ans"] /\ box = in["ans"][1]
      /\ DOMAIN in2["ans"] \subseteq Nat
      /\ \A k \in DOMAIN in2["ans"] :
           k + 1 \in DOMAIN in["ans"] /\ in2["ans"][k] = in["ans"][k + 1] /\ k + 1 # 1
  BY <1>3
<1>5. \A k \in DOMAIN in2["ans"] :
        \E j \in DOMAIN in["ans"] : j # 1 /\ in2["ans"][k] = in["ans"][j]
  BY <1>4
<1>6. /\ st[box.src].stage = "offered" /\ Unbound(st, box.src) /\ box.src \in OPeers
      /\ \A j \in DOMAIN in["ans"] : IsOffer(in, j, box.src) => j = 1
  BY <1>4 DEF KeyInv, OneOffer, Frames, Boxes
<1>7. NoOffer(in2, box.src) /\ \A x : NoOffer(in, x) => NoOffer(in2, x)
  BY <1>5, <1>6 DEF NoOffer, IsOffer
<1>8. st[q].remote # box.src
  BY <1>6 DEF Unbound
<1>9. \A x \in OPeers, y \in APeers : Sealed(st, in, x, y) => Sealed(st2, in2, x, y)
  <2> SUFFICES ASSUME NEW x \in OPeers, NEW y \in APeers, Sealed(st, in, x, y)
               PROVE  Sealed(st2, in2, x, y)
    OBVIOUS
  <2>1. x # box.src
    BY <1>4 DEF Sealed, NoOffer, IsOffer
  <2>2. st2[x].stage = "offered" /\ NoOffer(in2, x)
    BY <1>2, <1>7 DEF Sealed, SameKeys
  <2>3. st2[y].epk = x
    BY <1>2 DEF Sealed, SameKeys
  <2>4. st2[y].remote = x => st2[y].secret
    BY <1>2, <2>1 DEF Sealed, SameKeys
  <2> QED
    BY <2>2, <2>3, <2>4 DEF Sealed
<1>10. ASSUME box.key # None
       PROVE  st2[q].epk = box.src /\ Sealed(st2, in2, box.src, q)
  <2>1. st[q].epk = box.src
    BY <1>10 DEF Opens
  <2> QED
    BY <2>1, <1>2, <1>6, <1>7, <1>8, <1>10 DEF Sealed, SameKeys
<1>11. Frames(in2)
  BY <1>5 DEF KeyInv, Frames
<1>12. Roles(st2)
  BY <1>2 DEF KeyInv, Roles, SameKeys
<1>13. \A x : x # box.src /\ Unbound(st, x) => Unbound(st2, x)
  BY <1>2 DEF Unbound, Alive, SameKeys
<1>14. Unmade(st2, in2)
  <2>1. \A x \in OPeers : st[x].stage \in {"keying", "gathering"} => x # box.src
    BY <1>6
  <2> QED
    BY <2>1, <1>2, <1>7, <1>13 DEF KeyInv, Unmade, SameKeys
<1>15. OneOffer(st2, in2)
  <2> SUFFICES ASSUME NEW k \in DOMAIN in2["ans"], in2["ans"][k].kind = "offer"
               PROVE  /\ st2[in2["ans"][k].src].stage = "offered"
                      /\ Unbound(st2, in2["ans"][k].src)
                      /\ \A j \in DOMAIN in2["ans"] : IsOffer(in2, j, in2["ans"][k].src) => j = k
    BY DEF OneOffer
  <2>1. /\ k + 1 \in DOMAIN in["ans"] /\ in2["ans"][k] = in["ans"][k + 1] /\ k \in Nat
    BY <1>4
  <2>2. /\ in2["ans"][k].src \in OPeers
        /\ st[in2["ans"][k].src].stage = "offered" /\ Unbound(st, in2["ans"][k].src)
        /\ \A j \in DOMAIN in["ans"] : IsOffer(in, j, in2["ans"][k].src) => j = k + 1
    BY <2>1 DEF KeyInv, OneOffer, Frames, Boxes
  <2>3. in2["ans"][k].src # box.src
    BY <1>7 DEF NoOffer, IsOffer
  <2>4. ASSUME NEW j \in DOMAIN in2["ans"], IsOffer(in2, j, in2["ans"][k].src)
        PROVE  j = k
    <3>1. j + 1 = k + 1 /\ j \in Nat
      BY <1>4, <2>2, <2>4 DEF IsOffer
    <3> QED
      BY <3>1, <2>1
  <2> QED
    BY <1>2, <1>13, <2>2, <2>3, <2>4 DEF SameKeys
<1>16. Answering(st2, in2, ans2)
  <2> SUFFICES ASSUME NEW y \in APeers
               PROVE  /\ ans2[y] # <<>> => st2[y].stage = "answering"
                      /\ AnswersUnder(st2, ans2, y) =>
                           st2[y].epk # None /\ Sealed(st2, in2, st2[y].epk, y)
    BY DEF Answering
  <2>0. st[y].epk \in OPeers \cup {None}
    BY DEF KeyInv, Roles
  <2>1. CASE y = q /\ box.key # None
    BY <2>1, <1>1, <1>6, <1>10
  <2>2. CASE y = q /\ box.key = None
    BY <2>0, <2>2, <1>9 DEF KeyInv, Answering
  <2>3. CASE y # q
    BY <2>0, <2>3, <1>2, <1>9 DEF KeyInv, Answering, AnswersUnder, SameKeys
  <2> QED
    BY <2>1, <2>2, <2>3
<1>17. Answered(st2, in2)
  BY <1>9 DEF KeyInv, Answered, Frames, Boxes
<1>18. Bound(st2, in2)
  BY <1>2, <1>9 DEF KeyInv, Bound, SameKeys
<1> QED
  BY <1>11, <1>12, <1>14, <1>15, <1>16, <1>17, <1>18 DEF KeyInv

\* p takes up an answer, and is bound to it or not.
LEMMA KeysOfAnswer ==
  ASSUME NEW st, NEW st2, NEW in, NEW ans, KeyInv(st, in, ans),
         NEW p \in OPeers, NEW k \in DOMAIN in["off"], NEW box, box = in["off"][k],
         box.kind = "answer", Opens(st, p, box),
         \/ st2[p].remote = st[p].remote /\ st2[p].secret = st[p].secret
         \/ st2[p].remote = Answerer(p, box) /\ st2[p].secret = (box.key # None),
         st2[p].epk = st[p].epk, st2[p].stage = st[p].stage,
         st2[p].pc \in {"new", "connected"} => st[p].pc \in {"new", "connected"},
         \A r \in Peers \ {p} : SameKeys(st, st2, r)
  PROVE  KeyInv(st2, in, ans)
<1>1. /\ \A r \in APeers : r # p /\ SameKeys(st, st2, r)
      /\ \A r \in OPeers \ {p} : SameKeys(st, st2, r)
  BY SessionAssumption DEF Peers
<1>2. \A x : Unbound(st, x) => Unbound(st2, x)
  BY <1>1 DEF Unbound, Alive, SameKeys
<1>3. \A x \in OPeers, q \in APeers : Sealed(st, in, x, q) => Sealed(st2, in, x, q)
  BY <1>1 DEF Sealed, SameKeys
<1>4. Frames(in) /\ Roles(st2)
  BY <1>1 DEF KeyInv, Roles, SameKeys
<1>5. Unmade(st2, in)
  BY <1>1, <1>2 DEF KeyInv, Unmade, SameKeys
<1>6. OneOffer(st2, in)
  BY <1>1, <1>2, <1>4 DEF KeyInv, OneOffer, SameKeys, Frames, Boxes
<1>7. Answering(st2, in, ans)
  BY <1>1, <1>3, <1>4 DEF KeyInv, Answering, AnswersUnder, SameKeys, Roles
<1>8. Answered(st2, in)
  BY <1>3, <1>4 DEF KeyInv, Answered, Frames, Boxes
<1>9. Bound(st2, in)
  <2> SUFFICES ASSUME NEW x \in OPeers, NEW q \in APeers, st2[x].pc \in {"new", "connected"},
                      st2[x].secret, st2[x].remote = q
               PROVE  st2[x].epk = q /\ Sealed(st2, in, x, q)
    BY DEF Bound
  <2>1. CASE st2[x].remote = st[x].remote /\ st2[x].secret = st[x].secret
    BY <2>1, <1>1, <1>3 DEF KeyInv, Bound, SameKeys
  <2>2. CASE x = p /\ st2[p].remote = Answerer(p, box) /\ st2[p].secret = (box.key # None)
    <3>1. box.key = p /\ st[p].epk = box.src /\ box.key # None
      BY <2>2 DEF Opens
    <3>2. box.src = q
      BY <2>2, <1>1 DEF Answerer
    <3>3. Sealed(st, in, p, q)
      BY <3>1, <3>2 DEF KeyInv, Answered
    <3> QED
      BY <2>2, <3>1, <3>2, <3>3, <1>3
  <2> QED
    BY <2>1, <2>2, <1>1 DEF SameKeys
<1> QED
  BY <1>4, <1>5, <1>6, <1>7, <1>8, <1>9 DEF KeyInv

\* A box is delivered to n, or lost.
Adds(in, in2, n, box) ==
  in2[Other(n)] = in[Other(n)] /\ in2[n] \in {in[n], Append(in[n], box)}

\* The offer of an attempt goes out, or is lost.
LEMMA KeysOfOfferSent ==
  ASSUME NEW st, NEW st2, NEW in \in Mailboxes, NEW in2, NEW ans, KeyInv(st, in, ans),
         NEW p \in OPeers, st[p].stage = "gathering", st2[p].stage = "offered",
         st2[p].epk = st[p].epk, st2[p].remote = st[p].remote, st2[p].secret = st[p].secret,
         st2[p].pc = st[p].pc, \A r \in Peers \ {p} : SameKeys(st, st2, r),
         NEW box, box.kind = "offer", box.src = p, Adds(in, in2, "ans", box)
  PROVE  KeyInv(st2, in2, ans)
<1>1. /\ \A r \in APeers : r # p /\ SameKeys(st, st2, r)
      /\ \A r \in OPeers \ {p} : SameKeys(st, st2, r)
  BY SessionAssumption DEF Peers
<1>2. /\ in["ans"] \in Seq(Presence \cup Box) /\ in2["off"] = in["off"]
      /\ in2["ans"] \in {in["ans"], Append(in["ans"], box)}
  BY DEF Mailboxes, Nodes, Adds, Other
<1>3. \A k \in DOMAIN in2["ans"] :
        \/ k \in DOMAIN in["ans"] /\ in2["ans"][k] = in["ans"][k]
        \/ k = Len(in["ans"]) + 1 /\ in2["ans"][k] = box
  BY <1>2
<1>4. Unbound(st, p) /\ NoOffer(in, p)
  BY DEF KeyInv, Unmade
<1>5. \A x : Unbound(st, x) => Unbound(st2, x)
  BY <1>1 DEF Unbound, Alive, SameKeys
<1>6. \A x : x # p /\ NoOffer(in, x) => NoOffer(in2, x)
  BY <1>3 DEF NoOffer, IsOffer
<1>7. \A x \in OPeers, q \in APeers : Sealed(st, in, x, q) => Sealed(st2, in2, x, q)
  BY <1>1, <1>6 DEF Sealed, SameKeys
<1>8. Frames(in2) /\ Roles(st2)
  BY <1>1, <1>2, <1>3 DEF KeyInv, Roles, SameKeys, Frames
<1>9. Unmade(st2, in2)
  BY <1>1, <1>5, <1>6 DEF KeyInv, Unmade, SameKeys
<1>10. OneOffer(st2, in2)
  <2> SUFFICES ASSUME NEW k \in DOMAIN in2["ans"], in2["ans"][k].kind = "offer"
               PROVE  /\ st2[in2["ans"][k].src].stage = "offered"
                      /\ Unbound(st2, in2["ans"][k].src)
                      /\ \A j \in DOMAIN in2["ans"] : IsOffer(in2, j, in2["ans"][k].src) => j = k
    BY DEF OneOffer
  <2>1. CASE k = Len(in["ans"]) + 1 /\ in2["ans"][k] = box
    BY <2>1, <1>3, <1>4, <1>5 DEF NoOffer, IsOffer
  <2>2. CASE k \in DOMAIN in["ans"] /\ in2["ans"][k] = in["ans"][k]
    <3>1. /\ in["ans"][k].src \in OPeers \ {p}
          /\ st[in["ans"][k].src].stage = "offered" /\ Unbound(st, in["ans"][k].src)
          /\ \A j \in DOMAIN in["ans"] : IsOffer(in, j, in["ans"][k].src) => j = k
      BY <2>2, <1>4 DEF KeyInv, OneOffer, Frames, Boxes, NoOffer, IsOffer
    <3> QED
      BY <2>2, <3>1, <1>1, <1>3, <1>5 DEF IsOffer, SameKeys
  <2> QED
    BY <2>1, <2>2, <1>3
<1>11. Answering(st2, in2, ans)
  BY <1>1, <1>7, <1>8 DEF KeyInv, Answering, AnswersUnder, SameKeys, Roles
<1>12. Answered(st2, in2)
  BY <1>2, <1>7, <1>8 DEF KeyInv, Answered, Frames, Boxes
<1>13. Bound(st2, in2)
  BY <1>1, <1>7 DEF KeyInv, Bound, SameKeys
<1> QED
  BY <1>8, <1>9, <1>10, <1>11, <1>12, <1>13 DEF KeyInv

\* An answer goes out, or is lost: what that changes in the answerer's connection.
Replies(st, ans, st2, ans2, q, box) ==
  /\ PeersTyped(st2) /\ \A r \in Peers \ {q} : st2[r] = st[r] /\ ans2[r] = ans[r]
  /\ st2[q].epk = st[q].epk /\ st2[q].remote = st[q].remote /\ st2[q].secret = st[q].secret
  /\ st2[q].pc = st[q].pc /\ st2[q].used = st[q].used /\ st2[q].stage \in {"idle", st[q].stage}
  /\ ans2[q] # <<>> => st2[q].stage = "answering"
  /\ AnswersUnder(st2, ans2, q) => AnswersUnder(st, ans, q)
  /\ box.kind = "answer" /\ box.src = q
  /\ box.key # None => box.key = st[q].epk /\ AnswersUnder(st, ans, q)

LEMMA KeysOfAnswerSent ==
  ASSUME NEW st, NEW st2, NEW in \in Mailboxes, NEW in2, NEW ans, NEW ans2, KeyInv(st, in, ans),
         NEW q \in APeers, NEW box, Replies(st, ans, st2, ans2, q, box),
         Adds(in, in2, "off", box)
  PROVE  KeyInv(st2, in2, ans2)
<1>0. /\ ans2[q] # <<>> => st2[q].stage = "answering"
      /\ AnswersUnder(st2, ans2, q) => AnswersUnder(st, ans, q)
      /\ box.kind = "answer" /\ box.src = q
      /\ box.key # None => box.key = st[q].epk /\ AnswersUnder(st, ans, q)
  BY DEF Replies
<1>1. /\ \A r \in OPeers : r # q /\ SameKeys(st, st2, r)
      /\ \A r \in APeers \ {q} : SameKeys(st, st2, r) /\ ans2[r] = ans[r]
      /\ st2[q].epk = st[q].epk /\ st2[q].remote = st[q].remote /\ st2[q].secret = st[q].secret
      /\ st2[q].stage \in {"idle", "answering"} /\ (Alive(st2, q) => Alive(st, q))
  BY SessionAssumption DEF Peers, Replies, SameKeys, Alive, KeyInv, Roles
<1>2. /\ in["off"] \in Seq(Presence \cup Box) /\ in2["ans"] = in["ans"]
      /\ in2["off"] \in {in["off"], Append(in["off"], box)}
  BY DEF Mailboxes, Nodes, Adds, Other
<1>3. \A k \in DOMAIN in2["off"] :
        \/ k \in DOMAIN in["off"] /\ in2["off"][k] = in["off"][k]
        \/ in2["off"][k] = box
  BY <1>2
<1>4. \A x : Unbound(st, x) => Unbound(st2, x)
  BY <1>1 DEF Unbound, Alive, SameKeys
<1>5. \A x : NoOffer(in, x) => NoOffer(in2, x)
  BY <1>2 DEF NoOffer, IsOffer
<1>6. \A x \in OPeers, y \in APeers : Sealed(st, in, x, y) => Sealed(st2, in2, x, y)
  BY <1>1, <1>5 DEF Sealed, SameKeys
<1>7. Frames(in2) /\ Roles(st2)
  BY <1>1, <1>2, <1>3 DEF Replies, KeyInv, Roles, SameKeys, Frames
<1>8. Unmade(st2, in2)
  BY <1>1, <1>4, <1>5 DEF KeyInv, Unmade, SameKeys
<1>9. OneOffer(st2, in2)
  BY <1>1, <1>2, <1>4, <1>7 DEF KeyInv, OneOffer, SameKeys, Frames, Boxes, IsOffer
<1>10. Answering(st2, in2, ans2)
  <2> SUFFICES ASSUME NEW y \in APeers
               PROVE  /\ ans2[y] # <<>> => st2[y].stage = "answering"
                      /\ AnswersUnder(st2, ans2, y) =>
                           st2[y].epk # None /\ Sealed(st2, in2, st2[y].epk, y)
    BY DEF Answering
  <2>1. st[y].epk \in OPeers \cup {None}
    BY DEF KeyInv, Roles
  <2>2. CASE y = q
    BY <2>1, <2>2, <1>1, <1>6, <1>0 DEF KeyInv, Answering
  <2>3. CASE y # q
    BY <2>1, <2>3, <1>1, <1>6 DEF KeyInv, Answering, AnswersUnder, SameKeys
  <2> QED
    BY <2>2, <2>3
<1>11. Answered(st2, in2)
  <2>1. box.key # None => box.key \in OPeers /\ Sealed(st, in, box.key, q)
    BY <1>0 DEF KeyInv, Answering, Roles
  <2> QED
    BY <2>1, <1>3, <1>6, <1>7, <1>0 DEF KeyInv, Answered, Frames, Boxes
<1>12. Bound(st2, in2)
  BY <1>1, <1>6 DEF KeyInv, Bound, SameKeys
<1> QED
  BY <1>7, <1>8, <1>9, <1>10, <1>11, <1>12 DEF KeyInv

-----------------------------------------------------------------------------
(* Parts of a handler and the inboxes.                                      *)

\* in2 is what the inboxes in are after a step that sends no offer and no answer.
MailKept(in2, in) ==
  /\ in2 \in Mailboxes /\ Frames(in2)
  /\ Passes(in2["ans"], in["ans"]) /\ Passes(in2["off"], in["off"])

LEMMA KeysOfMail ==
  ASSUME NEW st, NEW ans, NEW in \in Mailboxes, NEW in2, KeyInv(st, in, ans), MailKept(in2, in)
  PROVE  /\ KeyInv(st, in2, ans)
         /\ \A p \in OPeers : NoOffer(in, p) => NoOffer(in2, p)
BY PassingFrames DEF MailKept

LEMMA MailSame ==
  ASSUME NEW in \in Mailboxes, Frames(in)
  PROVE  MailKept(in, in)
<1>1. \A n \in Nodes : DOMAIN in[n] \subseteq Nat
  BY DEF Mailboxes
<1>2. \A n \in Nodes : Passes(in[n], in[n])
  <2> SUFFICES ASSUME NEW n \in Nodes
               PROVE  \A k \in DOMAIN in[n] : k + 0 \in DOMAIN in[n] /\ in[n][k] = in[n][k + 0]
    BY DEF Passes
  <2> QED
    BY <1>1
<1> QED
  BY <1>2 DEF MailKept, Nodes

\* One node's inbox changes.
LEMMA MailAt ==
  ASSUME NEW in \in Mailboxes, Frames(in), NEW n \in Nodes,
         NEW t \in Seq(Presence \cup Box), Passes(t, in[n]), Frames([in EXCEPT ![n] = t])
  PROVE  MailKept([in EXCEPT ![n] = t], in)
<1>1. [in EXCEPT ![n] = t] \in Mailboxes
  BY DEF Mailboxes
<1>2. \A m \in Nodes : Passes([in EXCEPT ![n] = t][m], in[m])
  <2>1. ASSUME NEW m \in Nodes
        PROVE  Passes(in[m], in[m])
    BY MailSame DEF MailKept, Nodes
  <2> QED
    BY <2>1 DEF Mailboxes
<1> QED
  BY <1>1, <1>2 DEF MailKept, Nodes

\* New frames at the end that are neither offers nor answers.
LEMMA MailExtended ==
  ASSUME NEW in \in Mailboxes, Frames(in), NEW n \in Nodes, NEW more \in Seq(Presence \cup Box),
         \A k \in DOMAIN more :
           \/ more[k].kind \notin Boxes
           \/ more[k].kind = "ekey" /\ more[k].src \in PeersOf(Other(n))
  PROVE  MailKept([in EXCEPT ![n] = @ \o more], in)
<1> DEFINE t == in[n] \o more
<1>1. in[n] \in Seq(Presence \cup Box)
  BY DEF Mailboxes
<1>2. t \in Seq(Presence \cup Box)
  BY <1>1
<1>3. \A k \in DOMAIN t :
        \/ k \in DOMAIN in[n] /\ k \in Nat /\ t[k] = in[n][k]
        \/ \E j \in DOMAIN more : t[k] = more[j]
  <2> SUFFICES ASSUME NEW k \in DOMAIN t, k \notin DOMAIN in[n]
               PROVE  \E j \in DOMAIN more : t[k] = more[j]
    BY <1>1
  <2>1. k - Len(in[n]) \in DOMAIN more /\ t[k] = more[k - Len(in[n])]
    BY <1>1
  <2> QED
    BY <2>1
<1>4. Passes(t, in[n])
  <2>1. \A k \in DOMAIN t :
          t[k].kind \in {"offer", "answer"} => k + 0 \in DOMAIN in[n] /\ t[k] = in[n][k + 0]
    BY <1>3 DEF Boxes
  <2> QED
    BY <2>1 DEF Passes
<1>5. [in EXCEPT ![n] = t][n] = t /\ \A m \in Nodes \ {n} : [in EXCEPT ![n] = t][m] = in[m]
  BY DEF Mailboxes
<1>6. Frames([in EXCEPT ![n] = t])
  <2>1. CASE n = "ans"
    BY <2>1, <1>3, <1>5 DEF Frames, PeersOf, Other, Nodes, Boxes
  <2>2. CASE n = "off"
    BY <2>2, <1>3, <1>5 DEF Frames, PeersOf, Other, Nodes, Boxes
  <2> QED
    BY <2>1, <2>2 DEF Nodes
<1>7. [in EXCEPT ![n] = @ \o more] = [in EXCEPT ![n] = t]
  OBVIOUS
<1> QED
  BY <1>2, <1>4, <1>6, <1>7, MailAt

\* The head taken up, the end lost, or everything lost.
LEMMA MailShortened ==
  ASSUME NEW in \in Mailboxes, Frames(in), NEW n \in Nodes, NEW t,
         \/ in[n] # <<>> /\ t = Tail(in[n])
         \/ \E k \in 0..Len(in[n]) : t = SubSeq(in[n], 1, k)
         \/ t = <<>>
  PROVE  MailKept([in EXCEPT ![n] = t], in)
<1>1. in[n] \in Seq(Presence \cup Box)
  BY DEF Mailboxes
<1>2. /\ t \in Seq(Presence \cup Box)
      /\ \E c \in {0, 1} : \A k \in DOMAIN t : k + c \in DOMAIN in[n] /\ t[k] = in[n][k + c]
  <2>1. CASE in[n] # <<>> /\ t = Tail(in[n])
    <3>1. \A k \in DOMAIN t : k + 1 \in DOMAIN in[n] /\ t[k] = in[n][k + 1]
      BY <2>1, <1>1
    <3> QED
      BY <3>1, <2>1, <1>1
  <2>2. CASE \E k \in 0..Len(in[n]) : t = SubSeq(in[n], 1, k)
    <3>1. PICK k \in 0..Len(in[n]) : t = SubSeq(in[n], 1, k)
      BY <2>2
    <3>2. \A j \in DOMAIN t : j + 0 \in DOMAIN in[n] /\ t[j] = in[n][j + 0]
      BY <3>1, <1>1
    <3>3. t \in Seq(Presence \cup Box)
      BY <3>1, <1>1
    <3> QED
      BY <3>2, <3>3
  <2>3. CASE t = <<>>
    BY <2>3
  <2> QED
    BY <2>1, <2>2, <2>3
<1>3. Passes(t, in[n])
  BY <1>2 DEF Passes
<1>4. \A k \in DOMAIN t : \E j \in DOMAIN in[n] : t[k] = in[n][j]
  BY <1>2
<1>5. [in EXCEPT ![n] = t][n] = t /\ \A m \in Nodes \ {n} : [in EXCEPT ![n] = t][m] = in[m]
  BY DEF Mailboxes
<1>6. Frames([in EXCEPT ![n] = t])
  BY <1>4, <1>5 DEF Frames, Nodes
<1> QED
  BY <1>2, <1>3, <1>6, MailAt

\* An ekey is relayed or lost.
LEMMA MailEkey ==
  ASSUME NEW in \in Mailboxes, Frames(in), NEW n \in Nodes, NEW p \in PeersOf(n)
  PROVE  MailKept(Relayed(n, Ekey(p), in), in)
<1>1. Other(n) \in Nodes /\ Other(Other(n)) = n /\ p \in Peers
  BY DEF Nodes, Other, PeersOf, Peers
<1>2. Ekey(p) \in Box /\ Ekey(p).kind = "ekey" /\ Ekey(p).src = p
  BY <1>1 DEF Ekey, Box
<1>3. in[Other(n)] \in Seq(Presence \cup Box)
  BY <1>1 DEF Mailboxes
<1>4. Append(in[Other(n)], Ekey(p)) = in[Other(n)] \o <<Ekey(p)>>
  BY <1>2, <1>3
<1>5. [in EXCEPT ![Other(n)] = Append(@, Ekey(p))] = [in EXCEPT ![Other(n)] = @ \o <<Ekey(p)>>]
  BY <1>4
<1>6. MailKept([in EXCEPT ![Other(n)] = @ \o <<Ekey(p)>>], in)
  <2>1. <<Ekey(p)>> \in Seq(Presence \cup Box)
    BY <1>2
  <2>2. \A k \in DOMAIN <<Ekey(p)>> : <<Ekey(p)>>[k] = Ekey(p)
    OBVIOUS
  <2> QED
    BY <1>1, <1>2, <2>1, <2>2, MailExtended
<1> QED
  BY <1>5, <1>6, MailSame DEF Relayed

\* The server tells the other node of a join or a leave.
LEMMA MailPresence ==
  ASSUME NEW in \in Mailboxes, Frames(in), NEW n \in Nodes, NEW frames \in Seq(Presence)
  PROVE  MailKept(Notify(n, frames, in), in)
<1>1. Other(n) \in Nodes
  BY DEF Nodes, Other
<1>2. frames \in Seq(Presence \cup Box)
  OBVIOUS
<1>3. \A k \in DOMAIN frames : frames[k].kind \notin Boxes
  <2>1. \A k \in DOMAIN frames : frames[k] \in Presence
    OBVIOUS
  <2> QED
    BY <2>1 DEF Presence, Boxes
<1> QED
  BY <1>1, <1>2, <1>3, MailExtended, MailSame DEF Notify

-----------------------------------------------------------------------------
(* Handlers and what they do to the connections.                            *)

CurTyped(c) == c \in [Nodes -> Peers \cup {None}] /\ \A n \in Nodes : c[n] \in PeersOf(n) \cup {None}

\* What any step but LinkUp may do to a connection: only the node's trust lets it be
\* bound anew, only ephemeral keys if the node insists; no link comes up; and it
\* gathers for an offer out of its wait for the ekey or as the node's new YawPeer.
Effect(st, st2, r) ==
  /\ st2[r].remote \in {st[r].remote, None} \/ NodeOf(r) \in trusts
  /\ Require[NodeOf(r)] /\ st2[r].remote # None =>
       st2[r].secret \/ (st2[r].remote = st[r].remote /\ st2[r].secret = st[r].secret)
  /\ st2[r].pc = "connected" =>
       st[r].pc = "connected" /\ (st[r].remote # None => st2[r].remote # None)
  /\ st2[r].pc = "new" => st[r].pc = "new" \/ st2[r].remote = None \/ NodeOf(r) \in trusts

\* A connection that is the same, or closed.
Left(st, st2, r) == st2[r] = st[r] \/ st2[r] = [st[r] EXCEPT !.pc = "closed"]

LEMMA LeftEffect ==
  ASSUME NEW st, NEW st2, NEW r \in Peers, st[r] \in PeerState, Left(st, st2, r)
  PROVE  SameKeys(st, st2, r) /\ Effect(st, st2, r)
<1>1. CASE st2[r] = st[r]
  BY <1>1 DEF SameKeys, Effect
<1>2. CASE st2[r] = [st[r] EXCEPT !.pc = "closed"]
  <2>1. /\ st2[r].pc = "closed" /\ st2[r].epk = st[r].epk /\ st2[r].remote = st[r].remote
        /\ st2[r].secret = st[r].secret /\ st2[r].used = st[r].used /\ st2[r].stage = st[r].stage
    BY <1>2 DEF PeerState
  <2> QED
    BY <2>1 DEF SameKeys, Effect
<1> QED
  BY <1>1, <1>2 DEF Left

\* Node._new_peer
LEMMA NewPeer ==
  ASSUME TypeOK, NEW ans \in [Peers -> Seq(BOOLEAN)], KeyInv(peer, inbox, ans),
         NEW n \in Nodes, NEW p \in PeersOf(n), Free(p)
  PROVE  /\ PeersTyped(WithNew(n, p)) /\ WithNew(n, p)[p] = Born
         /\ \A r \in Peers \ {p} : Left(peer, WithNew(n, p), r)
         /\ KeyInv(WithNew(n, p), inbox, ans)
         /\ NoOffer(inbox, p) /\ Unbound(WithNew(n, p), p)
         /\ cur[n] # p
<1> DEFINE st == WithNew(n, p)
<1>1. p \in Peers /\ NodeOf(p) = n
  BY SessionAssumption DEF PeersOf, Peers, NodeOf, Nodes
<1>2. peer \in [Peers -> PeerState] /\ inbox \in Mailboxes
  BY DEF TypeOK, Mailboxes
<1>3. \A r \in Peers : [peer[r] EXCEPT !.pc = "closed"] \in PeerState
  <2> SUFFICES ASSUME NEW r \in Peers
               PROVE  [peer[r] EXCEPT !.pc = "closed"] \in PeerState
    OBVIOUS
  <2>1. peer[r] \in PeerState
    BY <1>2
  <2> QED
    BY <2>1 DEF PeerState
<1>4. /\ st \in [Peers -> PeerState] /\ st[p] = Born
      /\ \A r \in Peers \ {p} : Left(peer, st, r)
  BY <1>1, <1>2, <1>3, BornFacts DEF WithNew, Left
<1>5. \A r \in Peers \ {p} : SameKeys(peer, st, r)
  BY <1>2, <1>4, LeftEffect
<1>6. ASSUME NEW m \in Nodes, NEW k \in DOMAIN inbox[m], inbox[m][k].kind \in Boxes
      PROVE  p # inbox[m][k].src /\ p # inbox[m][k].key
  <2>1. inbox[m] \in Seq(Presence \cup Box)
    BY <1>2 DEF Mailboxes
  <2>2. inbox[m][k] \in Presence \cup Box
    BY <2>1
  <2>3. inbox[m][k] \in Box
    BY <2>2, <1>6 DEF Presence, Boxes
  <2>4. ~InFlight(p)
    BY DEF Free
  <2> QED
    BY <2>3, <2>4 DEF InFlight
<1>7. \A r \in Peers : Alive(peer, r) => peer[r].epk # p /\ peer[r].remote # p
  BY DEF Free, Alive, Gathers
<1>8. peer[p].stage \notin {"gathering", "answering"}
  BY DEF Free, Gathers
<1>9. KeyInv(st, inbox, ans) /\ NoOffer(inbox, p) /\ Unbound(st, p)
  <2> HIDE DEF st
  <2>1. Unused(peer, inbox, p)
    BY <1>6, <1>7, <1>8 DEF Unused
  <2> QED
    BY <1>1, <1>4, <1>5, <2>1, KeysOfNewPeer
<1>10. cur[n] # p
  BY <1>1 DEF Free
<1> QED
  BY <1>4, <1>9, <1>10 DEF PeersTyped

\* What a handler keeps, besides what it does to each connection.
Sound(st, in, ans) == PeersTyped(st) /\ in \in Mailboxes /\ KeyInv(st, in, ans)
Sweeps == {"off", "on", "dead"}

LEMMA SoundMail ==
  ASSUME NEW st, NEW ans, NEW in, NEW in2, Sound(st, in, ans), MailKept(in2, in)
  PROVE  Sound(st, in2, ans) /\ \A p \in OPeers : NoOffer(in, p) => NoOffer(in2, p)
BY KeysOfMail DEF Sound, MailKept

\* YawPeer._do_offer of p, which has not offered yet.
LEMMA DoOfferSound ==
  ASSUME NEW st, NEW in, NEW ans, Sound(st, in, ans), NEW p \in OPeers,
         NoOffer(in, p), Unbound(st, p), st[p].stage \in {"idle", "keying"},
         NEW by \in {"run", "timer", "reconcile", "user"}, DoOffer(p, by, st)
  PROVE  /\ Sound(peer', in, ans)
         /\ \A r \in Peers \ {p} : peer'[r] = st[r]
         /\ peer'[p].remote = st[p].remote /\ peer'[p].secret = st[p].secret
         /\ peer'[p].pc \in {st[p].pc, "closed"}
<1>1. p \in Peers /\ st \in [Peers -> PeerState] /\ st[p] \in PeerState
  BY DEF Peers, Sound, PeersTyped
<1>2. /\ peer' \in [Peers -> PeerState] /\ \A r \in Peers \ {p} : peer'[r] = st[r]
      /\ peer'[p].epk = st[p].epk /\ peer'[p].remote = st[p].remote
      /\ peer'[p].secret = st[p].secret /\ peer'[p].stage \in {"idle", "gathering"}
      /\ peer'[p].pc \in {st[p].pc, "closed"}
  <2>1. CASE peer' = [st EXCEPT ![p].stage = "idle", ![p].pc = "closed"]
    BY <2>1, <1>1 DEF PeerState
  <2>2. CASE peer' = [st EXCEPT ![p].stage = "gathering", ![p].by = by]
    BY <2>2, <1>1 DEF PeerState
  <2> QED
    BY <2>1, <2>2 DEF DoOffer, Offered
<1>3. \A r \in Peers \ {p} : SameKeys(st, peer', r)
  BY <1>2 DEF SameKeys
<1>4. KeyInv(peer', in, ans)
  BY <1>2, <1>3, KeysOfAttempt DEF Sound
<1> QED
  BY <1>2, <1>4 DEF Sound, PeersTyped

\* YawPeer.start_offer of a new YawPeer.
LEMMA StartOfferSound ==
  ASSUME NEW ans, NEW in, NEW p \in OPeers, Sound(WithNew("off", p), in, ans),
         WithNew("off", p)[p] = Born, NoOffer(in, p), Unbound(WithNew("off", p), p),
         recon \in Sweeps,
         NEW by \in {"run", "timer", "reconcile", "user"}, StartOffer(p, by, in)
  PROVE  /\ Sound(peer', inbox', ans) /\ recon' \in Sweeps
         /\ \A r \in Peers \ {p} : peer'[r] = WithNew("off", p)[r]
         /\ peer'[p].remote = None /\ peer'[p].pc \in {"new", "closed"}
<1> DEFINE st == WithNew("off", p)
<1>1. /\ p \in Peers /\ st \in [Peers -> PeerState] /\ st[p] \in PeerState
      /\ st[p].remote = None /\ st[p].stage = "idle" /\ st[p].pc = "new" /\ st[p].epk = None
  BY BornFacts DEF Peers, Sound, PeersTyped
<1> HIDE DEF st
<1>2. Sound(st, in, ans) /\ NoOffer(in, p) /\ Unbound(st, p)
  BY DEF st
<1>3. in \in Mailboxes /\ Frames(in)
  BY <1>2 DEF Sound, KeyInv
<1>4. CASE /\ peer' = [st EXCEPT ![p].sent = TRUE, ![p].stage = "keying", ![p].timer = TRUE]
           /\ inbox' = Relayed("off", Ekey(p), in)
           /\ UNCHANGED recon
  <2>1. /\ peer' \in [Peers -> PeerState] /\ \A r \in Peers \ {p} : peer'[r] = st[r]
        /\ peer'[p].epk = st[p].epk /\ peer'[p].remote = st[p].remote
        /\ peer'[p].secret = st[p].secret /\ peer'[p].stage = "keying"
        /\ peer'[p].pc = st[p].pc
    BY <1>1, <1>4 DEF PeerState
  <2>2. \A r \in Peers \ {p} : SameKeys(st, peer', r)
    BY <2>1 DEF SameKeys
  <2>3. KeyInv(peer', in, ans)
    BY <1>1, <1>2, <2>1, <2>2, KeysOfAttempt DEF Sound
  <2>4. Sound(peer', in, ans)
    BY <2>1, <2>3, <1>3 DEF Sound, PeersTyped
  <2>5. MailKept(inbox', in)
    <3>1. "off" \in Nodes /\ p \in PeersOf("off")
      BY DEF Nodes, PeersOf
    <3> QED
      BY <3>1, <1>3, <1>4, MailEkey
  <2> QED
    BY <2>1, <2>4, <2>5, <1>1, <1>4, SoundMail DEF st
<1>5. CASE /\ peer' = [st EXCEPT ![p].sent = TRUE]
           /\ inbox' = (IF by = "run" THEN [in EXCEPT !["off"] = <<>>] ELSE in)
           /\ recon' = (IF by = "reconcile" THEN "dead" ELSE recon)
  <2>1. /\ peer' \in [Peers -> PeerState] /\ \A r \in Peers \ {p} : peer'[r] = st[r]
        /\ peer'[p].epk = st[p].epk /\ peer'[p].remote = st[p].remote
        /\ peer'[p].secret = st[p].secret /\ peer'[p].stage = st[p].stage
        /\ peer'[p].used = st[p].used /\ peer'[p].pc = st[p].pc
    BY <1>1, <1>5 DEF PeerState
  <2>2. \A r \in Peers : SameKeys(st, peer', r)
    BY <2>1 DEF SameKeys
  <2>3. Sound(peer', in, ans)
    BY <1>2, <2>1, <2>2, KeysAside DEF Sound, PeersTyped
  <2>4. MailKept(inbox', in)
    <3>1. "off" \in Nodes
      BY DEF Nodes
    <3> QED
      BY <3>1, <1>3, <1>5, MailShortened, MailSame
  <2> QED
    BY <2>1, <2>3, <2>4, <1>1, <1>5, SoundMail DEF st, Sweeps
<1>6. CASE /\ DoOffer(p, by, st)
           /\ inbox' = in
           /\ UNCHANGED recon
  <2>1. /\ Sound(peer', in, ans)
        /\ \A r \in Peers \ {p} : peer'[r] = st[r]
        /\ peer'[p].remote = st[p].remote
        /\ peer'[p].pc \in {st[p].pc, "closed"}
    BY <1>1, <1>2, <1>6, DoOfferSound
  <2> QED
    BY <2>1, <1>1, <1>6 DEF st
<1> QED
  BY <1>4, <1>5, <1>6 DEF StartOffer, st

\* An open link's YawPeer is not replaced by another.
CurKept ==
  \A n \in Nodes :
    cur[n] # None /\ cur'[n] \notin {None, cur[n]} => peer[cur[n]].pc # "connected"

Handled(ans) ==
  /\ Sound(peer', inbox', ans) /\ CurTyped(cur') /\ recon' \in Sweeps
  /\ \A r \in Peers : Effect(peer, peer', r)
  /\ CurKept

\* A handler that leaves the connections alone.
LEMMA PeersAlone ==
  ASSUME TypeOK, NEW ans, KeyInv(peer, inbox, ans), NEW in, MailKept(in, inbox),
         inbox' = in, UNCHANGED peer, recon' \in Sweeps,
         CurTyped(cur'), \A n \in Nodes : cur'[n] \in {None, cur[n]}
  PROVE  Handled(ans)
<1>1. Sound(peer, inbox, ans)
  BY DEF TypeOK, Sound, PeersTyped, Mailboxes
<1>2. \A r \in Peers : Effect(peer, peer', r)
  BY <1>1, LeftEffect DEF Sound, PeersTyped, Left
<1> QED
  BY <1>1, <1>2, SoundMail DEF Handled, CurKept

\* What is left to say of a handler that has a new YawPeer.
LEMMA NewPeerEffect ==
  ASSUME TypeOK, NEW n \in Nodes, NEW p \in PeersOf(n), cur[n] # p,
         \A r \in Peers \ {p} : Left(peer, WithNew(n, p), r) /\ peer'[r] = WithNew(n, p)[r],
         peer'[p].remote = None, peer'[p].pc \in {"new", "closed"},
         cur' = [cur EXCEPT ![n] = p], cur[n] = None \/ peer[cur[n]].pc # "connected"
  PROVE  (\A r \in Peers : Effect(peer, peer', r)) /\ CurTyped(cur') /\ CurKept
<1>1. /\ peer \in [Peers -> PeerState] /\ cur \in [Nodes -> Peers \cup {None}]
      /\ p \in Peers /\ \A m \in Nodes : cur[m] \in PeersOf(m) \cup {None}
  BY DEF TypeOK, PeersOf, Peers
<1>2. /\ CurTyped(cur') /\ cur'[n] = p
      /\ \A m \in Nodes \ {n} : cur'[m] = cur[m]
  BY <1>1 DEF CurTyped
<1>3. CurKept
  BY <1>2 DEF CurKept
<1>4. ASSUME NEW r \in Peers
      PROVE  Effect(peer, peer', r)
  <2>1. CASE r = p
    BY <2>1 DEF Effect
  <2>2. CASE r # p
    <3>1. Left(peer, peer', r)
      BY <2>2 DEF Left
    <3> QED
      BY <3>1, <1>1, LeftEffect
  <2> QED
    BY <2>1, <2>2
<1> QED
  BY <1>2, <1>3, <1>4

\* Node._try_connect
LEMMA TryConnectHandled ==
  ASSUME TypeOK, NEW ans \in [Peers -> Seq(BOOLEAN)], KeyInv(peer, inbox, ans),
         NEW in, MailKept(in, inbox),
         NEW by \in {"run", "timer", "reconcile", "user"}, TryConnect(by, in)
  PROVE  Handled(ans)
<1>1. recon \in Sweeps /\ CurTyped(cur)
  BY DEF TypeOK, Sweeps, CurTyped
<1>2. CASE inbox' = in /\ UNCHANGED <<cur, recon, peer>>
  BY <1>1, <1>2, PeersAlone
<1>3. CASE /\ ~(cur["off"] # None /\ Settled(cur["off"]))
           /\ \E p \in OPeers :
                Free(p) /\ cur' = [cur EXCEPT !["off"] = p] /\ StartOffer(p, by, in)
  <2>1. PICK p \in OPeers :
          Free(p) /\ cur' = [cur EXCEPT !["off"] = p] /\ StartOffer(p, by, in)
    BY <1>3
  <2>2. "off" \in Nodes /\ p \in PeersOf("off")
    BY DEF Nodes, PeersOf
  <2>3. /\ PeersTyped(WithNew("off", p)) /\ WithNew("off", p)[p] = Born
        /\ \A r \in Peers \ {p} : Left(peer, WithNew("off", p), r)
        /\ KeyInv(WithNew("off", p), inbox, ans)
        /\ NoOffer(inbox, p) /\ Unbound(WithNew("off", p), p)
        /\ cur["off"] # p
    BY <2>1, <2>2, NewPeer
  <2>4. Sound(WithNew("off", p), in, ans) /\ NoOffer(in, p)
    <3>1. inbox \in Mailboxes
      BY DEF TypeOK, Mailboxes
    <3>2. Sound(WithNew("off", p), inbox, ans)
      BY <2>3, <3>1 DEF Sound
    <3> QED
      BY <2>3, <3>2, SoundMail
  <2>5. /\ Sound(peer', inbox', ans) /\ recon' \in Sweeps
        /\ \A r \in Peers \ {p} : peer'[r] = WithNew("off", p)[r]
        /\ peer'[p].remote = None /\ peer'[p].pc \in {"new", "closed"}
    BY <1>1, <2>1, <2>3, <2>4, StartOfferSound
  <2>6. cur["off"] = None \/ peer[cur["off"]].pc # "connected"
    BY <1>3 DEF Settled
  <2>7. (\A r \in Peers : Effect(peer, peer', r)) /\ CurTyped(cur') /\ CurKept
    BY <2>1, <2>2, <2>3, <2>5, <2>6, NewPeerEffect
  <2> QED
    BY <2>5, <2>7 DEF Handled
<1> QED
  BY <1>2, <1>3 DEF TryConnect

LEMMA TryConnectAtHandled ==
  ASSUME TypeOK, NEW ans \in [Peers -> Seq(BOOLEAN)], KeyInv(peer, inbox, ans),
         NEW in, MailKept(in, inbox), NEW n \in Nodes,
         NEW by \in {"run", "timer", "reconcile", "user"}, TryConnectAt(n, by, in)
  PROVE  Handled(ans)
<1>1. recon \in Sweeps /\ CurTyped(cur)
  BY DEF TypeOK, Sweeps, CurTyped
<1> QED
  BY <1>1, PeersAlone, TryConnectHandled DEF TryConnectAt

\* YawPeer._on_ekey, of either kind of node: the first verified ekey is held, and
\* answered once.
Holding(st, p, src) == [st EXCEPT ![p].epk = src, ![p].sent = TRUE]

LEMMA EkeyHeld ==
  ASSUME NEW ans, NEW in, NEW st, Sound(st, in, ans), NEW n \in Nodes, NEW p \in PeersOf(n),
         st[p].epk = None, NEW src \in PeersOf(Other(n)), NEW held, held = Holding(st, p, src)
  PROVE  /\ Sound(held, in, ans)
         /\ \A r \in Peers \ {p} : held[r] = st[r]
         /\ held[p].remote = st[p].remote /\ held[p].secret = st[p].secret
         /\ held[p].pc = st[p].pc /\ held[p].stage = st[p].stage
<1>1. p \in Peers /\ src \in Peers /\ st \in [Peers -> PeerState] /\ st[p] \in PeerState
  BY DEF PeersOf, Peers, Sound, PeersTyped
<1>2. /\ held \in [Peers -> PeerState] /\ \A r \in Peers \ {p} : held[r] = st[r]
      /\ held[p].epk = src /\ held[p].remote = st[p].remote /\ held[p].secret = st[p].secret
      /\ held[p].used = st[p].used /\ held[p].stage = st[p].stage /\ held[p].pc = st[p].pc
  BY <1>1 DEF PeerState, Holding
<1>3. (p \in OPeers => held[p].epk \in APeers) /\ (p \in APeers => held[p].epk \in OPeers)
  BY <1>2, SessionAssumption DEF PeersOf, Other, Nodes
<1>4. \A r \in Peers \ {p} : SameKeys(st, held, r)
  BY <1>2 DEF SameKeys
<1>5. KeyInv(held, in, ans)
  BY <1>1, <1>2, <1>3, <1>4, KeysOfEkey DEF Sound
<1> QED
  BY <1>2, <1>5 DEF Sound, PeersTyped

LEMMA OnEkeySound ==
  ASSUME NEW ans, NEW in, NEW st, Sound(st, in, ans), NEW n \in Nodes, NEW p \in PeersOf(n),
         NEW box, box.src \in PeersOf(Other(n)), OnEkey(n, p, st, in, box)
  PROVE  /\ Sound(peer', inbox', ans)
         /\ \A r \in Peers \ {p} : peer'[r] = st[r]
         /\ Effect(st, peer', p)
<1> DEFINE held == Holding(st, p, box.src)
<1>1. p \in Peers /\ in \in Mailboxes /\ Frames(in)
  BY DEF PeersOf, Peers, Sound, KeyInv
<1>2. CASE peer' = st /\ inbox' = in
  BY <1>2 DEF Effect
<1>3. ASSUME st[p].epk = None
      PROVE  /\ Sound(held, in, ans)
             /\ \A r \in Peers \ {p} : held[r] = st[r]
             /\ held[p].remote = st[p].remote /\ held[p].secret = st[p].secret
             /\ held[p].pc = st[p].pc /\ held[p].stage = st[p].stage
  BY <1>3, EkeyHeld
<1> HIDE DEF held
<1>4. CASE st[p].epk = None /\ peer' = held /\ inbox' = [in EXCEPT ![n] = <<>>]
  <2>1. MailKept(inbox', in)
    BY <1>1, <1>4, MailShortened
  <2> QED
    BY <1>3, <1>4, <2>1, SoundMail DEF Effect
<1>5. CASE /\ st[p].epk = None
           /\ inbox' = (IF st[p].sent THEN in ELSE Relayed(n, Ekey(p), in))
           /\ IF st[p].stage = "keying" THEN DoOffer(p, "run", held) ELSE peer' = held
  <2>1. MailKept(inbox', in)
    BY <1>1, <1>5, MailEkey, MailSame
  <2>2. CASE st[p].stage = "keying"
    <3>1. p \in OPeers
      BY <2>2, <1>1 DEF Sound, KeyInv, Roles, Peers
    <3>2. NoOffer(in, p) /\ Unbound(held, p) /\ held[p].stage = "keying"
      BY <1>3, <1>5, <2>2, <3>1 DEF Sound, KeyInv, Unmade
    <3>3. /\ Sound(peer', in, ans)
          /\ \A r \in Peers \ {p} : peer'[r] = held[r]
          /\ peer'[p].remote = held[p].remote /\ peer'[p].secret = held[p].secret
          /\ peer'[p].pc \in {held[p].pc, "closed"}
      BY <1>3, <1>5, <2>2, <3>1, <3>2, DoOfferSound
    <3> QED
      BY <1>3, <1>5, <2>1, <2>2, <3>3, SoundMail DEF Effect
  <2>3. CASE st[p].stage # "keying"
    BY <1>3, <1>5, <2>1, <2>3, SoundMail DEF Effect
  <2> QED
    BY <2>2, <2>3
<1> QED
  BY <1>2, <1>4, <1>5 DEF OnEkey, held, Holding

\* A box in a node's inbox is from a connection of the other's.
LEMMA HeadOfMail ==
  ASSUME NEW in \in Mailboxes, Frames(in), NEW n \in Nodes, in[n] # <<>>, Head(in[n]).kind \in Boxes
  PROVE  /\ 1 \in DOMAIN in[n] /\ Head(in[n]) = in[n][1]
         /\ Head(in[n]).src \in PeersOf(Other(n))
         /\ Head(in[n]).kind = "offer" => n = "ans"
         /\ Head(in[n]).kind = "answer" => n = "off"
         /\ MailKept([in EXCEPT ![n] = Tail(@)], in)
<1>1. in[n] \in Seq(Presence \cup Box)
  BY DEF Mailboxes
<1>2. 1 \in DOMAIN in[n] /\ Head(in[n]) = in[n][1]
  BY <1>1
<1>3. MailKept([in EXCEPT ![n] = Tail(@)], in)
  BY MailShortened
<1> QED
  BY <1>2, <1>3 DEF Frames, Nodes, PeersOf, Other, Boxes

\* One connection closes, or its claim or its sending mark changes.
LEMMA AsideSound ==
  ASSUME NEW st, NEW st2, NEW in, NEW ans, Sound(st, in, ans), NEW p \in Peers,
         st2 \in [Peers -> PeerState], \A r \in Peers \ {p} : st2[r] = st[r], SameKeys(st, st2, p)
  PROVE  Sound(st2, in, ans)
<1>1. \A r \in Peers : SameKeys(st, st2, r)
  BY DEF SameKeys
<1> QED
  BY <1>1, KeysAside DEF Sound, PeersTyped

\* YawPeer.on_box, an offer
LEMMA OnOfferSound ==
  ASSUME TypeOK, NEW ans, NEW st, Sound(st, inbox, ans), NEW p \in APeers,
         inbox["ans"] # <<>>, NEW box, box = Head(inbox["ans"]), box.kind = "offer",
         Opens(st, p, box), st[p].pc \in {"new", "connected"},
         NEW in, in = [inbox EXCEPT !["ans"] = Tail(@)], OnOffer(p, st, in, box)
  PROVE  /\ Sound(peer', inbox', ans)
         /\ \A r \in Peers \ {p} : peer'[r] = st[r]
         /\ "ans" \in trusts => Effect(st, peer', p)
<1>1. /\ p \in Peers /\ "ans" \in Nodes /\ NodeOf(p) = "ans" /\ p \notin OPeers
      /\ st \in [Peers -> PeerState] /\ st[p] \in PeerState
      /\ inbox \in Mailboxes /\ Frames(inbox) /\ KeyInv(st, inbox, ans)
  BY SessionAssumption DEF NodeOf, Nodes, Peers, Sound, PeersTyped, KeyInv
<1>2. /\ MailKept(in, inbox) /\ box.src \in Peers
      /\ in["ans"] = Tail(inbox["ans"]) /\ in["off"] = inbox["off"]
  <2>1. MailKept(in, inbox) /\ box.src \in PeersOf(Other("ans"))
    BY <1>1, HeadOfMail DEF Boxes
  <2>2. in["ans"] = Tail(inbox["ans"]) /\ in["off"] = inbox["off"]
    BY <1>1 DEF Mailboxes, Nodes
  <2> QED
    BY <2>1, <2>2 DEF PeersOf, Other, Peers
<1>3. CASE Refuses("ans", box) /\ peer' = [st EXCEPT ![p].pc = "closed"]
  <2>1. /\ peer' \in [Peers -> PeerState] /\ \A r \in Peers \ {p} : peer'[r] = st[r]
        /\ peer'[p] = [st[p] EXCEPT !.pc = "closed"]
    BY <1>1, <1>3 DEF PeerState
  <2>2. SameKeys(st, peer', p) /\ Effect(st, peer', p)
    BY <1>1, <2>1, LeftEffect DEF Left
  <2>3. Sound(peer', inbox, ans)
    BY <1>1, <2>1, <2>2, AsideSound
  <2> QED
    BY <1>2, <2>1, <2>2, <2>3, SoundMail DEF OnOffer
<1>4. CASE /\ ~Refuses("ans", box)
           /\ peer' = [st EXCEPT
                ![p].stage = "answering", ![p].by = "run", ![p].used = (box.key # None),
                ![p].remote = IF @ = None THEN box.src ELSE @,
                ![p].secret = IF st[p].remote = None THEN box.key # None ELSE @]
  <2>1. /\ peer' \in [Peers -> PeerState] /\ \A r \in Peers \ {p} : peer'[r] = st[r]
        /\ peer'[p].epk = st[p].epk /\ peer'[p].stage = "answering" /\ peer'[p].pc = st[p].pc
        /\ peer'[p].used = (box.key # None)
        /\ \/ st[p].remote # None /\ peer'[p].remote = st[p].remote
                                  /\ peer'[p].secret = st[p].secret
           \/ st[p].remote = None /\ peer'[p].remote = box.src
                                  /\ peer'[p].secret = (box.key # None)
    <3> DEFINE remote == IF st[p].remote = None THEN box.src ELSE st[p].remote
               secret == IF st[p].remote = None THEN box.key # None ELSE st[p].secret
               c == [st[p] EXCEPT !.stage = "answering", !.by = "run",
                                  !.used = (box.key # None), !.remote = remote,
                                  !.secret = secret]
    <3>1. remote \in Peers \cup {None} /\ secret \in BOOLEAN /\ (box.key # None) \in BOOLEAN
      BY <1>1, <1>2 DEF PeerState
    <3>2. peer' = [st EXCEPT ![p] = c]
      BY <1>1, <1>4
    <3>3. /\ c \in PeerState /\ c.epk = st[p].epk /\ c.stage = "answering" /\ c.pc = st[p].pc
          /\ c.used = (box.key # None) /\ c.remote = remote /\ c.secret = secret
      <4> HIDE DEF remote, secret
      <4> QED
        BY <1>1, <3>1 DEF PeerState
    <3>4. /\ peer' \in [Peers -> PeerState] /\ peer'[p] = c
          /\ \A r \in Peers \ {p} : peer'[r] = st[r]
      <4> HIDE DEF c
      <4> QED
        BY <1>1, <3>2, <3>3
    <3> HIDE DEF c
    <3> QED
      BY <3>3, <3>4
  <2>2. \A r \in Peers \ {p} : SameKeys(st, peer', r) /\ ans[r] = ans[r]
    BY <2>1 DEF SameKeys
  <2>3. AnswersUnder(peer', ans, p) => AnswersUnder(st, ans, p) \/ box.key # None
    BY <2>1 DEF AnswersUnder
  <2>4. Alive(st, p)
    BY DEF Alive
  <2>5. \/ peer'[p].remote = st[p].remote /\ peer'[p].secret = st[p].secret
        \/ peer'[p].remote = box.src /\ peer'[p].secret = (box.key # None)
    BY <2>1
  <2>6. KeyInv(peer', in, ans)
    <3>1. TakesOffer(st, ans, peer', ans, p, box)
      BY <2>1, <2>2, <2>3, <2>4, <2>5 DEF TakesOffer
    <3> QED
      BY <1>1, <1>2, <3>1, KeysOfOffer
  <2>7. Sound(peer', inbox', ans)
    BY <1>2, <2>1, <2>6 DEF Sound, PeersTyped, MailKept, OnOffer
  <2>8. "ans" \in trusts => Effect(st, peer', p)
    BY <1>1, <1>4, <2>1 DEF Effect, Refuses
  <2> QED
    BY <2>1, <2>7, <2>8
<1> QED
  BY <1>3, <1>4 DEF OnOffer

\* What an answer changes in the connection that takes it up.
Taking(st, p, box) ==
  [st EXCEPT ![p].fs = (box.key # None), ![p].remote = Answerer(p, box),
             ![p].secret = (box.key # None)]

LEMMA AnswerTaken ==
  ASSUME NEW ans, NEW st, Sound(st, inbox, ans), NEW p \in OPeers,
         inbox["off"] # <<>>, NEW box, box = Head(inbox["off"]), box.kind = "answer",
         Opens(st, p, box), NEW st2, st2 = Taking(st, p, box)
  PROVE  /\ Sound(st2, inbox, ans)
         /\ \A r \in Peers \ {p} : st2[r] = st[r]
         /\ st2[p].secret = (box.key # None) /\ st2[p].remote # None
         /\ st2[p].pc = st[p].pc /\ st2[p].stage = st[p].stage
<1>1. /\ p \in Peers /\ "off" \in Nodes
      /\ st \in [Peers -> PeerState] /\ st[p] \in PeerState
      /\ inbox \in Mailboxes /\ Frames(inbox) /\ KeyInv(st, inbox, ans)
  BY DEF Nodes, Peers, Sound, PeersTyped, KeyInv
<1>2. 1 \in DOMAIN inbox["off"] /\ box = inbox["off"][1] /\ box.src \in PeersOf(Other("off"))
  BY <1>1, HeadOfMail DEF Boxes
<1>3. Answerer(p, box) \in Peers /\ Answerer(p, box) # None
  BY <1>1, <1>2, SessionAssumption DEF Answerer, PeersOf, Other, Peers
<1>4. /\ st2 \in [Peers -> PeerState] /\ \A r \in Peers \ {p} : st2[r] = st[r]
      /\ st2[p].epk = st[p].epk /\ st2[p].stage = st[p].stage /\ st2[p].pc = st[p].pc
      /\ st2[p].remote = Answerer(p, box) /\ st2[p].secret = (box.key # None)
  <2> DEFINE fs == (box.key # None)
             c == [st[p] EXCEPT !.fs = fs, !.remote = Answerer(p, box), !.secret = fs]
  <2>1. fs \in BOOLEAN /\ st2 = [st EXCEPT ![p] = c]
    BY <1>1 DEF Taking
  <2>2. /\ c \in PeerState /\ c.epk = st[p].epk /\ c.stage = st[p].stage /\ c.pc = st[p].pc
        /\ c.remote = Answerer(p, box) /\ c.secret = fs
    <3> HIDE DEF fs
    <3> QED
      BY <1>1, <1>3, <2>1 DEF PeerState
  <2> HIDE DEF c
  <2> QED
    BY <1>1, <2>1, <2>2
<1>5. \A r \in Peers \ {p} : SameKeys(st, st2, r)
  BY <1>4 DEF SameKeys
<1>6. KeyInv(st2, inbox, ans)
  BY <1>1, <1>2, <1>4, <1>5, KeysOfAnswer
<1> QED
  BY <1>1, <1>3, <1>4, <1>6 DEF Sound, PeersTyped

\* The claim about a connection changes, and nothing else.
LEMMA FsSet ==
  ASSUME NEW ans, NEW in, NEW st, Sound(st, in, ans), NEW p \in Peers, NEW fs \in BOOLEAN,
         NEW st2, st2 = [st EXCEPT ![p].fs = fs]
  PROVE  /\ Sound(st2, in, ans)
         /\ \A r \in Peers \ {p} : st2[r] = st[r]
         /\ Effect(st, st2, p)
<1>1. st \in [Peers -> PeerState] /\ st[p] \in PeerState
  BY DEF Sound, PeersTyped
<1>2. /\ st2 \in [Peers -> PeerState] /\ \A r \in Peers \ {p} : st2[r] = st[r]
      /\ SameKeys(st, st2, p) /\ st2[p].pc = st[p].pc
  BY <1>1 DEF PeerState, SameKeys
<1> QED
  BY <1>2, AsideSound DEF Effect, SameKeys

\* YawPeer.on_box, an answer
LEMMA OnAnswerSound ==
  ASSUME TypeOK, NEW ans, NEW st, Sound(st, inbox, ans), NEW p \in OPeers,
         inbox["off"] # <<>>, NEW box, box = Head(inbox["off"]), box.kind = "answer",
         Opens(st, p, box),
         NEW in, in = [inbox EXCEPT !["off"] = Tail(@)], OnAnswer(p, st, in, box)
  PROVE  /\ Sound(peer', inbox', ans)
         /\ \A r \in Peers \ {p} : peer'[r] = st[r]
         /\ "off" \in trusts => Effect(st, peer', p)
<1>1. /\ p \in Peers /\ "off" \in Nodes /\ NodeOf(p) = "off"
      /\ st \in [Peers -> PeerState] /\ st[p] \in PeerState
      /\ inbox \in Mailboxes /\ Frames(inbox) /\ MailKept(in, inbox)
  BY HeadOfMail DEF NodeOf, Nodes, Peers, Sound, PeersTyped, KeyInv, Boxes
<1>2. CASE peer' = [st EXCEPT ![p].pc = "closed"] /\ inbox' = in
  <2>1. /\ peer' \in [Peers -> PeerState] /\ \A r \in Peers \ {p} : peer'[r] = st[r]
        /\ peer'[p] = [st[p] EXCEPT !.pc = "closed"]
    BY <1>1, <1>2 DEF PeerState
  <2>2. SameKeys(st, peer', p) /\ Effect(st, peer', p)
    BY <1>1, <2>1, LeftEffect DEF Left
  <2>3. Sound(peer', inbox, ans)
    BY <1>1, <2>1, <2>2, AsideSound
  <2> QED
    BY <1>1, <1>2, <2>1, <2>2, <2>3, SoundMail
<1>3. CASE /\ ~Refuses("off", box) /\ Expects(st[p]) /\ inbox' = in
           /\ peer' = Taking(st, p, box)
  <2>1. /\ Sound(peer', inbox, ans)
        /\ \A r \in Peers \ {p} : peer'[r] = st[r]
        /\ peer'[p].secret = (box.key # None) /\ peer'[p].remote # None
        /\ peer'[p].pc = st[p].pc /\ peer'[p].stage = st[p].stage
    BY <1>3, AnswerTaken
  <2>2. "off" \in trusts => Effect(st, peer', p)
    BY <1>1, <1>3, <2>1 DEF Effect, Refuses
  <2> QED
    BY <1>1, <1>3, <2>1, <2>2, SoundMail
<1>4. CASE peer' = [st EXCEPT ![p].fs = (box.key # None)] /\ PumpFails("off")
  <2>1. (box.key # None) \in BOOLEAN
    OBVIOUS
  <2>2. /\ Sound(peer', inbox, ans)
        /\ \A r \in Peers \ {p} : peer'[r] = st[r]
        /\ Effect(st, peer', p)
    BY <1>1, <1>4, <2>1, FsSet
  <2>3. MailKept(inbox', inbox)
    BY <1>1, <1>4, MailShortened DEF PumpFails
  <2> QED
    BY <2>2, <2>3, SoundMail
<1> QED
  BY <1>2, <1>3, <1>4 DEF OnAnswer, AnswerFs, Taking

\* YawPeer.on_box
LEMMA OnBoxSound ==
  ASSUME TypeOK, NEW ans, NEW st, Sound(st, inbox, ans), NEW n \in Nodes, n \in trusts,
         NEW p \in PeersOf(n), st[p].pc \in {"new", "connected"},
         Takes(n, {"ekey", "offer", "answer"}), OnBox(n, p, st, Rest(n), Head(inbox[n]))
  PROVE  /\ Sound(peer', inbox', ans)
         /\ \A r \in Peers \ {p} : peer'[r] = st[r]
         /\ Effect(st, peer', p)
         /\ sig' \in [Nodes -> {"up", "down", "broken"}]
<1> DEFINE box == Head(inbox[n])
           in == Rest(n)
<1>1. /\ p \in Peers /\ inbox \in Mailboxes /\ Frames(inbox)
      /\ inbox[n] # <<>> /\ box.kind \in Boxes
  BY DEF PeersOf, Peers, Sound, KeyInv, Takes, Boxes
<1>2. /\ box.src \in PeersOf(Other(n)) /\ MailKept(in, inbox)
      /\ box.kind = "offer" => n = "ans"
      /\ box.kind = "answer" => n = "off"
  BY <1>1, HeadOfMail DEF Rest
<1>3. Sound(st, in, ans)
  BY <1>2, SoundMail
<1>4. sig' \in [Nodes -> {"up", "down", "broken"}]
  <2>1. sig \in [Nodes -> {"up", "down", "broken"}]
    BY DEF TypeOK
  <2>2. UNCHANGED sig \/ PumpFails("off")
    BY DEF OnBox, OnAnswer, AnswerFs
  <2> QED
    BY <2>1, <2>2 DEF PumpFails
<1>5. CASE peer' = st /\ inbox' = in
  BY <1>3, <1>4, <1>5 DEF Effect
<1>6. CASE box.kind = "ekey" /\ OnEkey(n, p, st, in, box)
  <2> HIDE DEF box, in
  <2> QED
    BY <1>2, <1>3, <1>4, <1>6, OnEkeySound
<1>7. CASE Opens(st, p, box) /\ box.kind = "offer" /\ OnOffer(p, st, in, box)
  <2>1. n = "ans" /\ p \in APeers
    BY <1>2, <1>7 DEF PeersOf
  <2> QED
    BY <1>1, <1>4, <1>7, <2>1, OnOfferSound DEF Rest
<1>8. CASE Opens(st, p, box) /\ box.kind = "answer" /\ OnAnswer(p, st, in, box)
  <2>1. n = "off" /\ p \in OPeers
    BY <1>2, <1>8 DEF PeersOf
  <2> QED
    BY <1>1, <1>4, <1>8, <2>1, OnAnswerSound DEF Rest
<1> QED
  BY <1>5, <1>6, <1>7, <1>8 DEF OnBox

\* Node._on_from
LEMMA FromPeerHandled ==
  ASSUME TypeOK, NEW ans \in [Peers -> Seq(BOOLEAN)], KeyInv(peer, inbox, ans),
         NEW n \in Nodes, FromPeer(n)
  PROVE  Handled(ans) /\ sig' \in [Nodes -> {"up", "down", "broken"}]
<1>1. /\ inbox \in Mailboxes /\ Frames(inbox) /\ CurTyped(cur) /\ peer \in [Peers -> PeerState]
      /\ recon' \in Sweeps /\ inbox[n] # <<>> /\ Head(inbox[n]).kind \in Boxes
      /\ sig \in [Nodes -> {"up", "down", "broken"}] /\ Sound(peer, inbox, ans)
  BY DEF TypeOK, Mailboxes, KeyInv, CurTyped, Sweeps, FromPeer, Takes, Boxes, Sound, PeersTyped
<1>2. MailKept(Rest(n), inbox)
  BY <1>1, HeadOfMail DEF Rest
<1>3. CASE ~Admits(n)
  BY <1>1, <1>2, <1>3, PeersAlone DEF FromPeer
<1>4. CASE Admits(n) /\ Usable(n)
  <2>1. /\ cur[n] # None /\ peer[cur[n]].pc \in {"new", "connected"} /\ cur' = cur
        /\ OnBox(n, cur[n], peer, Rest(n), Head(inbox[n]))
    BY <1>1, <1>4 DEF FromPeer, Usable, CurTyped
  <2>2. cur[n] \in PeersOf(n) /\ cur[n] \in Peers /\ n \in trusts
    BY <1>1, <1>4, <2>1 DEF CurTyped, PeersOf, Peers, Admits
  <2>3. /\ Sound(peer', inbox', ans)
        /\ \A r \in Peers \ {cur[n]} : peer'[r] = peer[r]
        /\ Effect(peer, peer', cur[n])
        /\ sig' \in [Nodes -> {"up", "down", "broken"}]
    BY <1>1, <2>1, <2>2, OnBoxSound DEF FromPeer
  <2>4. \A r \in Peers : Effect(peer, peer', r)
    BY <1>1, <2>3, LeftEffect DEF Left
  <2> QED
    BY <1>1, <2>1, <2>3, <2>4 DEF Handled, CurKept
<1>5. CASE Admits(n) /\ ~Usable(n)
  <2>1. PICK p \in PeersOf(n) :
          /\ Free(p) /\ cur' = [cur EXCEPT ![n] = p]
          /\ OnBox(n, p, WithNew(n, p), Rest(n), Head(inbox[n]))
    BY <1>5 DEF FromPeer
  <2>2. p \in Peers /\ n \in trusts
    BY <1>5 DEF PeersOf, Peers, Admits
  <2>3. /\ PeersTyped(WithNew(n, p)) /\ WithNew(n, p)[p] = Born
        /\ \A r \in Peers \ {p} : Left(peer, WithNew(n, p), r)
        /\ KeyInv(WithNew(n, p), inbox, ans)
        /\ cur[n] # p
    BY <2>1, NewPeer
  <2>4. Sound(WithNew(n, p), inbox, ans) /\ WithNew(n, p)[p].pc \in {"new", "connected"}
    BY <1>1, <2>3, BornFacts DEF Sound
  <2>5. /\ Sound(peer', inbox', ans)
        /\ \A r \in Peers \ {p} : peer'[r] = WithNew(n, p)[r]
        /\ Effect(WithNew(n, p), peer', p)
        /\ sig' \in [Nodes -> {"up", "down", "broken"}]
    BY <2>1, <2>2, <2>4, OnBoxSound DEF FromPeer
  <2>6. Effect(peer, peer', p)
    <3>1. NodeOf(p) = n
      BY SessionAssumption DEF NodeOf, PeersOf, Nodes, Peers
    <3>2. WithNew(n, p)[p].pc = "new" /\ WithNew(n, p)[p].remote = None
          /\ WithNew(n, p)[p].stage = "idle"
      BY <2>3, BornFacts
    <3> QED
      BY <2>2, <2>5, <3>1, <3>2 DEF Effect
  <2>7. \A r \in Peers : Effect(peer, peer', r)
    <3> SUFFICES ASSUME NEW r \in Peers \ {p}
                 PROVE  Effect(peer, peer', r)
      BY <2>6
    <3>1. Left(peer, peer', r)
      BY <2>3, <2>5 DEF Left
    <3> QED
      BY <1>1, <3>1, LeftEffect
  <2>8. CurTyped(cur') /\ CurKept
    BY <1>1, <1>5, <2>1, <2>2 DEF CurTyped, CurKept, Usable
  <2> QED
    BY <1>1, <2>5, <2>7, <2>8 DEF Handled
<1> QED
  BY <1>3, <1>4, <1>5

\* YawPeer._offer_timer
LEMMA OfferTimerHandled ==
  ASSUME TypeOK, NEW ans \in [Peers -> Seq(BOOLEAN)], KeyInv(peer, inbox, ans),
         NEW p \in OPeers, OfferTimer(p)
  PROVE  Handled(ans)
<1> DEFINE st == [peer EXCEPT ![p].timer = FALSE]
<1>1. /\ p \in Peers /\ peer \in [Peers -> PeerState] /\ inbox \in Mailboxes /\ CurTyped(cur)
      /\ Sound(peer, inbox, ans) /\ recon \in Sweeps
  BY DEF Peers, TypeOK, Mailboxes, CurTyped, Sound, PeersTyped, Sweeps
<1>2. /\ st \in [Peers -> PeerState] /\ \A r \in Peers \ {p} : st[r] = peer[r]
      /\ SameKeys(peer, st, p) /\ st[p].pc = peer[p].pc
  <2>1. peer[p] \in PeerState
    BY <1>1
  <2> QED
    BY <1>1, <2>1 DEF PeerState, SameKeys
<1>3. /\ IF peer[p].stage = "keying" THEN DoOffer(p, "timer", st) ELSE peer' = st
      /\ UNCHANGED <<inbox, cur, recon>>
  BY DEF OfferTimer
<1> HIDE DEF st
<1>4. Sound(st, inbox, ans)
  BY <1>1, <1>2, AsideSound
<1>5. CASE peer[p].stage = "keying"
  <2>1. NoOffer(inbox, p) /\ Unbound(st, p) /\ st[p].stage = "keying"
    BY <1>2, <1>4, <1>5 DEF Sound, KeyInv, Unmade, SameKeys
  <2>2. /\ Sound(peer', inbox, ans)
        /\ \A r \in Peers \ {p} : peer'[r] = st[r]
        /\ peer'[p].remote = st[p].remote /\ peer'[p].secret = st[p].secret
        /\ peer'[p].pc \in {st[p].pc, "closed"}
    BY <1>3, <1>4, <1>5, <2>1, DoOfferSound
  <2>3. \A r \in Peers : Effect(peer, peer', r)
    BY <1>2, <1>5, <2>2 DEF Effect, SameKeys
  <2> QED
    BY <1>1, <1>3, <2>2, <2>3 DEF Handled, CurKept
<1>6. CASE peer[p].stage # "keying"
  <2>1. \A r \in Peers : Effect(peer, peer', r)
    BY <1>2, <1>3, <1>6 DEF Effect, SameKeys
  <2> QED
    BY <1>1, <1>3, <1>4, <1>6, <2>1 DEF Handled, CurKept
<1> QED
  BY <1>5, <1>6

\* An offer is sealed and goes out, or is lost: what both kinds of offerer do.
LEMMA OfferSent ==
  ASSUME TypeOK, NEW ans, KeyInv(peer, inbox, ans), NEW p \in OPeers,
         peer[p].stage = "gathering", NEW fs \in BOOLEAN,
         NEW by \in {"none", "run", "timer", "reconcile", "user"},
         peer' = [peer EXCEPT ![p].stage = "offered", ![p].fs = fs, ![p].by = by],
         NEW key \in Peers \cup {None},
         NEW box, box = [kind |-> "offer", src |-> p, key |-> key, to |-> None],
         NEW in \in {inbox, Relayed("off", box, inbox), [inbox EXCEPT !["off"] = <<>>]},
         inbox' = in
  PROVE  /\ Sound(peer', inbox', ans)
         /\ \A r \in Peers : Effect(peer, peer', r)
<1>1. /\ p \in Peers /\ peer \in [Peers -> PeerState] /\ inbox \in Mailboxes
      /\ peer[p] \in PeerState /\ box \in Box /\ "off" \in Nodes
  BY DEF Peers, TypeOK, Mailboxes, Box, Nodes
<1>2. /\ peer' \in [Peers -> PeerState] /\ \A r \in Peers \ {p} : peer'[r] = peer[r]
      /\ peer'[p].epk = peer[p].epk /\ peer'[p].remote = peer[p].remote
      /\ peer'[p].secret = peer[p].secret /\ peer'[p].pc = peer[p].pc
      /\ peer'[p].stage = "offered"
  BY <1>1 DEF PeerState
<1>3. \A r \in Peers \ {p} : SameKeys(peer, peer', r)
  BY <1>2 DEF SameKeys
<1>4. \A r \in Peers : Effect(peer, peer', r)
  BY <1>2 DEF Effect
<1>5. ASSUME NEW in2, Adds(inbox, in2, "ans", box)
      PROVE  KeyInv(peer', in2, ans)
  <2>1. box.kind = "offer" /\ box.src = p
    OBVIOUS
  <2> QED
    BY <1>1, <1>2, <1>3, <1>5, <2>1, KeysOfOfferSent
<1>6. Sound(peer', inbox, ans)
  BY <1>1, <1>2, <1>5 DEF Sound, PeersTyped, Adds
<1>7. CASE in = Relayed("off", box, inbox)
  <2>1. in \in Mailboxes /\ Adds(inbox, in, "ans", box)
    BY <1>1, <1>7 DEF Relayed, Mailboxes, Adds, Other, Nodes
  <2> QED
    BY <1>2, <1>4, <1>5, <2>1 DEF Sound, PeersTyped
<1>8. CASE in = inbox
  BY <1>4, <1>6, <1>8
<1>9. CASE in = [inbox EXCEPT !["off"] = <<>>]
  <2>1. MailKept(in, inbox)
    BY <1>1, <1>9, MailShortened DEF KeyInv
  <2> QED
    BY <1>4, <1>6, <1>9, <2>1, SoundMail
<1> QED
  BY <1>7, <1>8, <1>9

LEMMA OfferGatheredHandled ==
  ASSUME TypeOK, NEW ans, KeyInv(peer, inbox, ans), NEW p \in OPeers, OfferGathered(p)
  PROVE  Handled(ans)
<1> DEFINE eph == Fs["off"] /\ peer[p].epk # None
           key == IF eph THEN peer[p].epk ELSE None
           box == [kind |-> "offer", src |-> p, key |-> key, to |-> None]
<1>1. /\ p \in Peers /\ peer \in [Peers -> PeerState] /\ peer[p] \in PeerState
      /\ CurTyped(cur) /\ recon \in Sweeps /\ Fs["off"] \in BOOLEAN
  BY SessionAssumption DEF Peers, TypeOK, CurTyped, Sweeps, Fs, Nodes
<1>2. key \in Peers \cup {None} /\ eph \in BOOLEAN
  BY <1>1 DEF PeerState
<1>3. /\ peer[p].stage = "gathering"
      /\ peer' = [peer EXCEPT ![p].stage = "offered", ![p].fs = eph, ![p].by = "none"]
      /\ inbox' \in {inbox, Relayed("off", box, inbox), [inbox EXCEPT !["off"] = <<>>]}
      /\ recon' \in {recon, "dead"} /\ UNCHANGED cur
  BY DEF OfferGathered
<1> HIDE DEF eph, key
<1>4. Sound(peer', inbox', ans) /\ \A r \in Peers : Effect(peer, peer', r)
  BY <1>2, <1>3, OfferSent
<1> QED
  BY <1>1, <1>3, <1>4 DEF Handled, CurKept, Sweeps

\* What both kinds of answerer do.
LEMMA AnswerSent ==
  ASSUME TypeOK, NEW ans, NEW ans2, KeyInv(peer, inbox, ans), NEW q \in APeers,
         NEW box \in Box, Replies(peer, ans, peer', ans2, q, box),
         inbox' \in {inbox, Relayed("ans", box, inbox), [inbox EXCEPT !["ans"] = <<>>]}
  PROVE  /\ Sound(peer', inbox', ans2)
         /\ \A r \in Peers : Effect(peer, peer', r)
<1>1. /\ q \in Peers /\ peer \in [Peers -> PeerState] /\ inbox \in Mailboxes /\ "ans" \in Nodes
      /\ q \notin OPeers
  BY SessionAssumption DEF Peers, TypeOK, Mailboxes, Nodes
<1>2. /\ peer' \in [Peers -> PeerState] /\ \A r \in Peers \ {q} : peer'[r] = peer[r]
      /\ peer'[q].epk = peer[q].epk /\ peer'[q].remote = peer[q].remote
      /\ peer'[q].secret = peer[q].secret /\ peer'[q].pc = peer[q].pc
      /\ peer'[q].used = peer[q].used /\ peer'[q].stage \in {"idle", peer[q].stage}
  BY DEF Replies, PeersTyped
<1>4. \A r \in Peers : Effect(peer, peer', r)
  BY <1>1, <1>2 DEF Effect
<1>6. ASSUME NEW in2, Adds(inbox, in2, "off", box)
      PROVE  KeyInv(peer', in2, ans2)
  BY <1>1, <1>6, KeysOfAnswerSent
<1>7. Sound(peer', inbox, ans2)
  BY <1>1, <1>2, <1>6 DEF Sound, PeersTyped, Adds
<1>8. CASE inbox' = Relayed("ans", box, inbox)
  <2>1. inbox' \in Mailboxes /\ Adds(inbox, inbox', "off", box)
    BY <1>1, <1>8 DEF Relayed, Mailboxes, Adds, Other, Nodes
  <2> QED
    BY <1>2, <1>4, <1>6, <2>1 DEF Sound, PeersTyped
<1>9. CASE inbox' = inbox
  BY <1>4, <1>7, <1>9
<1>10. CASE inbox' = [inbox EXCEPT !["ans"] = <<>>]
  <2>1. MailKept(inbox', inbox)
    BY <1>1, <1>10, MailShortened DEF KeyInv
  <2> QED
    BY <1>4, <1>7, <2>1, SoundMail
<1> QED
  BY <1>8, <1>9, <1>10

LEMMA AnswerGatheredHandled ==
  ASSUME TypeOK, NEW ans, KeyInv(peer, inbox, ans), NEW q \in APeers, ans[q] = <<>>,
         AnswerGathered(q)
  PROVE  Handled(ans)
<1> DEFINE eph == AnswerKeying(q)
           key == IF eph THEN peer[q].epk ELSE None
           box == [kind |-> "answer", src |-> q, key |-> key, to |-> peer[q].remote]
<1>1. /\ q \in Peers /\ peer \in [Peers -> PeerState] /\ peer[q] \in PeerState
      /\ CurTyped(cur) /\ recon \in Sweeps
  BY DEF Peers, TypeOK, CurTyped, Sweeps
<1>2. key \in Peers \cup {None} /\ eph \in BOOLEAN /\ box \in Box
  <2>1. key \in Peers \cup {None} /\ eph \in BOOLEAN /\ peer[q].remote \in Peers \cup {None}
    BY <1>1 DEF PeerState, AnswerKeying
  <2> HIDE DEF key
  <2> QED
    BY <1>1, <2>1 DEF Box
<1>3. /\ peer[q].stage = "answering"
      /\ peer' = [peer EXCEPT ![q].stage = "idle", ![q].fs = eph, ![q].by = "none"]
      /\ inbox' \in {inbox, Relayed("ans", box, inbox), [inbox EXCEPT !["ans"] = <<>>]}
      /\ UNCHANGED <<cur, recon>>
  BY DEF AnswerGathered, Relayed
<1>4. box.kind = "answer" /\ box.src = q
      /\ (box.key # None => box.key = peer[q].epk /\ AnswersUnder(peer, ans, q))
  BY <1>3 DEF AnswersUnder, AnswerKeying
<1> HIDE DEF eph, box
<1>5. /\ peer' \in [Peers -> PeerState] /\ \A r \in Peers \ {q} : peer'[r] = peer[r]
      /\ peer'[q].epk = peer[q].epk /\ peer'[q].remote = peer[q].remote
      /\ peer'[q].secret = peer[q].secret /\ peer'[q].pc = peer[q].pc
      /\ peer'[q].used = peer[q].used /\ peer'[q].stage = "idle"
  BY <1>1, <1>2, <1>3 DEF PeerState
<1>6. Replies(peer, ans, peer', ans, q, box)
  BY <1>4, <1>5 DEF AnswersUnder, Replies, PeersTyped
<1>7. Sound(peer', inbox', ans) /\ \A r \in Peers : Effect(peer, peer', r)
  BY <1>2, <1>3, <1>6, AnswerSent
<1> QED
  BY <1>1, <1>3, <1>7 DEF Handled, CurKept

\* A link or a time limit of one connection: neither its keys nor its binding.
LEMMA AsideHandled ==
  ASSUME TypeOK, NEW ans, KeyInv(peer, inbox, ans), NEW p \in Peers,
         Hello(p) \/ LinkCut(p) \/ EndFails(p) \/ IceFails(p) \/ Stale(p)
  PROVE  Handled(ans)
<1>1. /\ peer \in [Peers -> PeerState] /\ peer[p] \in PeerState /\ CurTyped(cur)
      /\ recon \in Sweeps /\ Sound(peer, inbox, ans)
  BY DEF TypeOK, CurTyped, Sweeps, Sound, PeersTyped, Mailboxes
<1>2. UNCHANGED <<inbox, cur, recon>>
  BY DEF Hello, LinkCut, EndFails, IceFails, Stale, Keeps
<1>3. /\ peer' \in [Peers -> PeerState] /\ \A r \in Peers \ {p} : peer'[r] = peer[r]
      /\ SameKeys(peer, peer', p) /\ peer'[p].pc \in {peer[p].pc, "failed"}
  <2>1. CASE Hello(p)
    BY <1>1, <2>1 DEF Hello, PeerState, SameKeys
  <2>2. CASE peer' = [peer EXCEPT ![p].pc = "failed"]
    BY <1>1, <2>2 DEF PeerState, SameKeys
  <2>3. CASE Stale(p)
    BY <1>1, <2>3 DEF Stale, PeerState, SameKeys
  <2> QED
    BY <2>1, <2>2, <2>3 DEF LinkCut, EndFails, IceFails
<1>4. Sound(peer', inbox, ans)
  BY <1>1, <1>3, AsideSound
<1>5. \A r \in Peers : Effect(peer, peer', r)
  BY <1>3 DEF Effect, SameKeys
<1> QED
  BY <1>1, <1>2, <1>4, <1>5 DEF Handled, CurKept

-----------------------------------------------------------------------------
(* Session: every action.                                                   *)

EnvTyped ==
  /\ sig \in [Nodes -> {"up", "down", "broken"}] /\ reg \subseteq Nodes
  /\ known \in [Nodes -> BOOLEAN] /\ trusts \subseteq Nodes /\ mode \in Modes
  /\ opened \in [Nodes -> Nat] /\ late \in 0..MaxLate /\ cuts \in 0..MaxCuts

LEMMA Typing ==
  ASSUME TypeOK
  PROVE  /\ EnvTyped /\ CurTyped(cur) /\ recon \in Sweeps /\ inbox \in Mailboxes
         /\ peer \in [Peers -> PeerState] /\ \A p \in Peers : peer[p] \in PeerState
BY DEF TypeOK, EnvTyped, CurTyped, Sweeps, Mailboxes

\* What every step but LinkUp does.
Stepped(ans) ==
  /\ Handled(ans) /\ EnvTyped'
  /\ mode' = mode /\ trusts \ Fickle \subseteq trusts'

LEMMA PresenceFrames ==
  ASSUME NEW frames \in {<<[kind |-> "join"]>>} \cup {<<[kind |-> "leave"], [kind |-> "join"]>>}
  PROVE  frames \in Seq(Presence)
<1> DEFINE join == [kind |-> "join"]
           leave == [kind |-> "leave"]
<1>1. join \in Presence /\ leave \in Presence
  BY DEF Presence
<1>2. <<join>> \in Seq(Presence) /\ <<leave, join>> \in Seq(Presence)
  <2> HIDE DEF join, leave
  <2> QED
    BY <1>1
<1> QED
  BY <1>2

LEMMA ConnectMail ==
  ASSUME TypeOK, NEW ans, KeyInv(peer, inbox, ans), NEW n \in Nodes, Connect(n)
  PROVE  \E in : /\ MailKept(in, inbox)
                 /\ \/ TryConnectAt(n, "run", in)
                    \/ inbox' = in /\ UNCHANGED <<cur, recon, peer>>
<1>1. PICK frames \in {<<[kind |-> "join"]>>} \cup {<<[kind |-> "leave"], [kind |-> "join"]>>} :
        IF known'[n] THEN TryConnectAt(n, "run", Notify(n, frames, inbox))
        ELSE inbox' = Notify(n, frames, inbox) /\ UNCHANGED <<cur, recon, peer>>
  BY DEF Connect
<1>2. frames \in Seq(Presence)
  BY PresenceFrames
<1>3. MailKept(Notify(n, frames, inbox), inbox)
  BY <1>2, Typing, MailPresence DEF KeyInv
<1> QED
  BY <1>1, <1>3

LEMMA ConnectSteps ==
  ASSUME TypeOK, NEW ans \in [Peers -> Seq(BOOLEAN)], KeyInv(peer, inbox, ans),
         NEW n \in Nodes, Connect(n)
  PROVE  Stepped(ans)
<1>1. PICK in : /\ MailKept(in, inbox)
                /\ \/ TryConnectAt(n, "run", in)
                   \/ inbox' = in /\ UNCHANGED <<cur, recon, peer>>
  BY ConnectMail
<1>2. Handled(ans)
  <2>1. CASE TryConnectAt(n, "run", in)
    BY <2>1, <1>1, TryConnectAtHandled
  <2>2. CASE inbox' = in /\ UNCHANGED <<cur, recon, peer>>
    BY <2>2, <1>1, Typing, PeersAlone DEF CurTyped
  <2> QED
    BY <1>1, <2>1, <2>2
<1>3. EnvTyped' /\ mode' = mode /\ trusts' = trusts
  BY Typing DEF Connect, EnvTyped, Other, Nodes
<1> QED
  BY <1>2, <1>3 DEF Stepped

LEMMA AcceptSteps ==
  ASSUME TypeOK, NEW ans \in [Peers -> Seq(BOOLEAN)], KeyInv(peer, inbox, ans),
         NEW n \in Nodes, Accept(n)
  PROVE  Stepped(ans)
<1>1. MailKept(inbox, inbox)
  BY Typing, MailSame DEF KeyInv
<1>2. Handled(ans)
  <2>1. CASE TryConnectAt(n, "user", inbox)
    BY <2>1, <1>1, TryConnectAtHandled
  <2>2. CASE UNCHANGED <<inbox, cur, recon, peer>>
    BY <2>2, <1>1, Typing, PeersAlone DEF CurTyped
  <2> QED
    BY <2>1, <2>2 DEF Accept
<1>3. EnvTyped' /\ mode' = mode /\ trusts \subseteq trusts'
  BY Typing DEF Accept, EnvTyped, signaling, rest
<1> QED
  BY <1>2, <1>3 DEF Stepped

LEMMA ReconcileSteps ==
  ASSUME TypeOK, NEW ans \in [Peers -> Seq(BOOLEAN)], KeyInv(peer, inbox, ans), Reconcile
  PROVE  Stepped(ans)
<1>1. MailKept(inbox, inbox)
  BY Typing, MailSame DEF KeyInv
<1>2. Handled(ans)
  BY <1>1, TryConnectHandled DEF Reconcile
<1>3. EnvTyped' /\ mode' = mode /\ trusts' = trusts
  BY Typing DEF Reconcile, EnvTyped, signaling, rest
<1> QED
  BY <1>2, <1>3 DEF Stepped

LEMMA PumpSteps ==
  ASSUME TypeOK, NEW ans \in [Peers -> Seq(BOOLEAN)], KeyInv(peer, inbox, ans),
         NEW n \in Nodes, Pump(n)
  PROVE  Stepped(ans)
<1>1. ASSUME inbox[n] # <<>>
      PROVE  MailKept(Rest(n), inbox)
  BY <1>1, Typing, MailShortened DEF Rest, KeyInv
<1>2. CASE PeerJoin(n)
  <2>1. Handled(ans)
    BY <1>1, <1>2, TryConnectAtHandled DEF PeerJoin, Takes
  <2>2. EnvTyped' /\ mode' = mode /\ trusts' = trusts
    BY <1>2, Typing DEF PeerJoin, EnvTyped, rest
  <2> QED
    BY <2>1, <2>2 DEF Stepped
<1>3. CASE PeerLeave(n)
  <2>1. Handled(ans)
    <3>1. CurTyped(cur') /\ \A m \in Nodes : cur'[m] \in {None, cur[m]}
      BY <1>3, Typing DEF PeerLeave, CurTyped
    <3> QED
      BY <1>1, <1>3, <3>1, Typing, PeersAlone DEF PeerLeave, Takes
  <2>2. EnvTyped' /\ mode' = mode /\ trusts' = trusts
    BY <1>3, Typing DEF PeerLeave, EnvTyped, rest
  <2> QED
    BY <2>1, <2>2 DEF Stepped
<1>4. CASE FromPeer(n)
  <2>1. Handled(ans) /\ sig' \in [Nodes -> {"up", "down", "broken"}]
    BY <1>4, FromPeerHandled
  <2>2. EnvTyped' /\ mode' = mode /\ trusts' = trusts
    BY <1>4, <2>1, Typing DEF FromPeer, EnvTyped, rest
  <2> QED
    BY <2>1, <2>2 DEF Stepped
<1> QED
  BY <1>2, <1>3, <1>4 DEF Pump

\* Forgetting a key, a socket lost, a socket the server drops, the sweep begun.
LEMMA AwayMail ==
  ASSUME TypeOK, NEW ans, KeyInv(peer, inbox, ans), NEW n \in Nodes,
         Forget(n) \/ Blip(n) \/ ServerNotices(n) \/ StartSweep
  PROVE  MailKept(inbox', inbox) /\ UNCHANGED <<cur, peer>>
<1>1. UNCHANGED <<cur, peer>>
  BY DEF Forget, Blip, ServerNotices, StartSweep
<1>2. MailKept(inbox', inbox)
  <2>1. Frames(inbox) /\ inbox \in Mailboxes
    BY Typing DEF KeyInv
  <2>2. CASE UNCHANGED inbox
    BY <2>1, <2>2, MailSame
  <2>3. CASE Blip(n)
    <3>1. PICK k \in 0..Len(inbox[n]) : inbox' = [inbox EXCEPT ![n] = SubSeq(@, 1, k)]
      BY <2>3 DEF Blip
    <3> QED
      BY <2>1, <3>1, MailShortened
  <2>4. CASE ServerNotices(n)
    <3>1. <<[kind |-> "leave"]>> \in Seq(Presence)
      <4>1. [kind |-> "leave"] \in Presence
        BY DEF Presence
      <4> QED
        BY <4>1
    <3> QED
      BY <2>1, <2>4, <3>1, MailPresence DEF ServerNotices
  <2> QED
    BY <2>2, <2>3, <2>4 DEF Forget, StartSweep
<1> QED
  BY <1>1, <1>2

LEMMA AwaySteps ==
  ASSUME TypeOK, NEW ans, KeyInv(peer, inbox, ans), NEW n \in Nodes,
         Forget(n) \/ Blip(n) \/ ServerNotices(n) \/ StartSweep
  PROVE  Stepped(ans)
<1>1. MailKept(inbox', inbox) /\ UNCHANGED <<cur, peer>>
  BY AwayMail
<1>2. recon' \in {recon, "on"}
  BY DEF Forget, Blip, ServerNotices, StartSweep
<1>3. Handled(ans)
  BY <1>1, <1>2, Typing, PeersAlone DEF CurTyped, Sweeps
<1>4. EnvTyped' /\ mode' = mode /\ trusts \ Fickle \subseteq trusts'
  BY Typing DEF Forget, Blip, ServerNotices, StartSweep, EnvTyped, signaling, rest
<1> QED
  BY <1>3, <1>4 DEF Stepped

\* A timer, gathering done, a hello, a link lost or a time limit.
LEMMA PeerSteps ==
  ASSUME TypeOK, NEW ans \in [Peers -> Seq(BOOLEAN)], KeyInv(peer, inbox, ans), NEW p \in Peers,
         \/ p \in OPeers /\ (OfferTimer(p) \/ OfferGathered(p) \/ Stale(p))
         \/ p \in APeers /\ ans[p] = <<>> /\ AnswerGathered(p)
         \/ Hello(p) \/ LinkCut(p) \/ EndFails(p) \/ IceFails(p)
  PROVE  Stepped(ans)
<1>1. Handled(ans)
  <2>1. CASE p \in OPeers /\ OfferTimer(p)
    BY <2>1, OfferTimerHandled
  <2>2. CASE p \in OPeers /\ OfferGathered(p)
    BY <2>2, OfferGatheredHandled
  <2>3. CASE p \in APeers /\ ans[p] = <<>> /\ AnswerGathered(p)
    BY <2>3, AnswerGatheredHandled
  <2>4. CASE Hello(p) \/ LinkCut(p) \/ EndFails(p) \/ IceFails(p) \/ Stale(p)
    BY <2>4, AsideHandled
  <2> QED
    BY <2>1, <2>2, <2>3, <2>4
<1>2. UNCHANGED <<sig, reg, known, trusts, mode, opened>>
  BY DEF OfferTimer, OfferGathered, AnswerGathered, Hello, LinkCut, EndFails, IceFails, Stale,
         Keeps, signaling, rest
<1>3. late' \in 0..MaxLate /\ cuts' \in 0..MaxCuts
  <2>1. late \in 0..MaxLate /\ cuts \in 0..MaxCuts /\ MaxLate \in Nat /\ MaxCuts \in Nat
    BY Typing, SessionAssumption DEF EnvTyped
  <2> QED
    BY <2>1 DEF OfferTimer, OfferGathered, AnswerGathered, Hello, LinkCut, EndFails, IceFails,
                Stale, Overdue, rest
<1> QED
  BY <1>1, <1>2, <1>3, Typing DEF Stepped, EnvTyped

\* What Handled leaves of the invariant.
LEMMA CoreKept ==
  ASSUME TypeOK, TrustInv, RequireInv, LinkInv, BothTrust, NEW ans, Stepped(ans)
  PROVE  TypeOK' /\ KeyInv(peer', inbox', ans) /\ TrustInv' /\ RequireInv' /\ LinkInv' /\ BothTrust'
<1>1. /\ \A r \in Peers : Effect(peer, peer', r)
      /\ mode' = mode /\ trusts \ Fickle \subseteq trusts' /\ Fickle' = Fickle /\ Require' = Require
      /\ Sound(peer', inbox', ans)
  BY DEF Stepped, Handled, Fickle, Require
<1>2. TypeOK'
  BY DEF TypeOK, Stepped, Handled, EnvTyped, CurTyped, Sweeps, Sound, PeersTyped, Mailboxes
<1>3. TrustInv'
  BY <1>1 DEF TrustInv, Effect
<1>4. RequireInv'
  BY <1>1 DEF RequireInv, Effect
<1>5. LinkInv'
  BY <1>1 DEF LinkInv, Effect
<1>6. BothTrust'
  BY <1>1 DEF BothTrust, Effect
<1> QED
  BY <1>1, <1>2, <1>3, <1>4, <1>5, <1>6 DEF Sound

\* ICE and DTLS bring a link up.
LEMMA LinkUpKept ==
  ASSUME TypeOK, NEW ans, Core(ans), NEW p \in OPeers, NEW q \in APeers, LinkUp(p, q)
  PROVE  TypeOK' /\ KeyInv(peer', inbox', ans) /\ TrustInv' /\ RequireInv' /\ LinkInv' /\ BothTrust'
<1>1. /\ p \in Peers /\ q \in Peers /\ p # q /\ NodeOf(p) = "off" /\ NodeOf(q) = "ans"
      /\ None \notin Peers
  BY SessionAssumption DEF Peers, NodeOf
<1>2. /\ peer[p].remote = q /\ peer[q].remote = p /\ peer[p].pc = "new" /\ peer[q].pc = "new"
      /\ peer' = [peer EXCEPT ![p].pc = "connected", ![q].pc = "connected"]
      /\ UNCHANGED <<sig, reg, known, inbox, trusts, cur, recon, mode, late, opened, cuts>>
  BY DEF LinkUp, Matched, Keeps, signaling, rest
<1>3. /\ peer \in [Peers -> PeerState] /\ peer[p] \in PeerState /\ peer[q] \in PeerState
  BY <1>1, Typing
<1>4. /\ peer' \in [Peers -> PeerState]
      /\ \A r \in Peers : SameKeys(peer, peer', r)
      /\ \A r \in Peers \ {p, q} : peer'[r] = peer[r]
  <2>1. /\ [peer[p] EXCEPT !.pc = "connected"] \in PeerState
        /\ [peer[q] EXCEPT !.pc = "connected"] \in PeerState
    BY <1>3 DEF PeerState
  <2>2. peer' = [peer EXCEPT ![p] = [peer[p] EXCEPT !.pc = "connected"],
                             ![q] = [peer[q] EXCEPT !.pc = "connected"]]
    BY <1>1, <1>2, <1>3
  <2>3. /\ peer' \in [Peers -> PeerState] /\ \A r \in Peers \ {p, q} : peer'[r] = peer[r]
        /\ peer'[p] = [peer[p] EXCEPT !.pc = "connected"]
        /\ peer'[q] = [peer[q] EXCEPT !.pc = "connected"]
    BY <1>1, <1>3, <2>1, <2>2
  <2>4. SameKeys(peer, peer', p) /\ SameKeys(peer, peer', q)
    BY <1>2, <1>3, <2>3 DEF SameKeys, PeerState
  <2> QED
    BY <2>3, <2>4 DEF SameKeys
<1>5. KeyInv(peer', inbox', ans)
  <2>1. KeyInv(peer, inbox, ans)
    BY DEF Core
  <2>2. KeyInv(peer', inbox, ans)
    BY <1>4, <2>1, KeysAside
  <2> QED
    BY <1>2, <2>2
<1>6. TypeOK'
  BY <1>2, <1>4 DEF TypeOK
<1>7. Fickle' = Fickle /\ Require' = Require /\ trusts' = trusts
  BY <1>2 DEF Fickle, Require
<1>8. TrustInv' /\ RequireInv'
  BY <1>4, <1>7 DEF Core, TrustInv, RequireInv, SameKeys
<1>9. LinkInv'
  BY <1>1, <1>2, <1>4 DEF Core, LinkInv, SameKeys
<1>10. BothTrust'
  <2>1. {"off", "ans"} \subseteq trusts \cup Fickle
    BY <1>1, <1>2 DEF Core, TrustInv
  <2> QED
    BY <1>7, <2>1 DEF BothTrust, Nodes
<1> QED
  BY <1>5, <1>6, <1>8, <1>9, <1>10

LEMMA InitCore ==
  ASSUME Init
  PROVE  TypeOK /\ Core(NoAnswers)
<1>1. /\ inbox = [n \in Nodes |-> <<>>] /\ peer = [p \in Peers |-> [Born EXCEPT !.pc = "closed"]]
      /\ trusts = Trusting /\ mode \in Modes
  BY DEF Init
<1>2. /\ peer \in [Peers -> PeerState]
      /\ \A p \in Peers : /\ peer[p].pc = "closed" /\ peer[p].remote = None /\ peer[p].epk = None
                          /\ peer[p].stage = "idle" /\ peer[p].used = FALSE
  <2> DEFINE c == [Born EXCEPT !.pc = "closed"]
  <2>1. /\ c \in PeerState /\ c.pc = "closed" /\ c.remote = None /\ c.epk = None
        /\ c.stage = "idle" /\ c.used = FALSE
    BY DEF Born, PeerState
  <2>2. peer = [p \in Peers |-> c]
    BY <1>1
  <2> HIDE DEF c
  <2> QED
    BY <2>1, <2>2
<1>3. TypeOK
  <2>1. inbox \in [Nodes -> Seq(Presence \cup Box)] /\ trusts \subseteq Nodes
    BY <1>1, SessionAssumption
  <2>2. late \in 0..MaxLate /\ cuts \in 0..MaxCuts /\ opened \in [Nodes -> Nat]
    BY SessionAssumption DEF Init
  <2>3. cur \in [Nodes -> Peers \cup {None}] /\ \A n \in Nodes : cur[n] \in PeersOf(n) \cup {None}
    BY DEF Init
  <2>4. /\ sig \in [Nodes -> {"up", "down", "broken"}] /\ reg \subseteq Nodes
        /\ known \in [Nodes -> BOOLEAN] /\ recon \in {"off", "on", "dead"}
    BY DEF Init
  <2> QED
    BY <1>1, <1>2, <2>1, <2>2, <2>3, <2>4 DEF TypeOK
<1>4. \A r \in OPeers \cup APeers : r \in Peers /\ NoAnswers[r] = <<>>
  BY DEF Peers, NoAnswers
<1>5. /\ Frames(inbox) /\ Roles(peer) /\ Unmade(peer, inbox) /\ OneOffer(peer, inbox)
      /\ Answered(peer, inbox)
  <2>1. DOMAIN inbox["ans"] = {} /\ DOMAIN inbox["off"] = {}
    BY <1>1 DEF Nodes
  <2>2. Frames(inbox) /\ OneOffer(peer, inbox) /\ Answered(peer, inbox)
    BY <2>1 DEF Frames, OneOffer, Answered
  <2>3. Roles(peer) /\ Unmade(peer, inbox)
    BY <1>2, <1>4 DEF Roles, Unmade
  <2> QED
    BY <2>2, <2>3
<1>6. Answering(peer, inbox, NoAnswers) /\ Bound(peer, inbox)
  BY <1>2, <1>4 DEF Answering, AnswersUnder, Bound
<1>7. TrustInv /\ RequireInv /\ LinkInv /\ BothTrust
  BY <1>2 DEF TrustInv, RequireInv, LinkInv, BothTrust
<1> QED
  BY <1>3, <1>5, <1>6, <1>7 DEF Core, KeyInv

LEMMA NextSteps ==
  ASSUME TypeOK, KeyInv(peer, inbox, NoAnswers), Next
  PROVE  Stepped(NoAnswers) \/ \E p \in OPeers, q \in APeers : LinkUp(p, q)
<1>1. NoAnswers \in [Peers -> Seq(BOOLEAN)] /\ \A p \in Peers : NoAnswers[p] = <<>>
  BY DEF NoAnswers
<1>2. OPeers \subseteq Peers /\ APeers \subseteq Peers /\ "off" \in Nodes
  BY DEF Peers, Nodes
<1>3. ASSUME NEW n \in Nodes,
             Connect(n) \/ Accept(n) \/ Forget(n) \/ Pump(n) \/ Blip(n) \/ ServerNotices(n)
      PROVE  Stepped(NoAnswers)
  BY <1>1, <1>3, ConnectSteps, AcceptSteps, PumpSteps, AwaySteps
<1>4. CASE StartSweep \/ Reconcile
  BY <1>1, <1>2, <1>4, ReconcileSteps, AwaySteps
<1>5. ASSUME NEW p \in OPeers, OfferTimer(p) \/ OfferGathered(p) \/ Stale(p)
      PROVE  Stepped(NoAnswers)
  BY <1>1, <1>2, <1>5, PeerSteps
<1>6. ASSUME NEW p \in APeers, AnswerGathered(p)
      PROVE  Stepped(NoAnswers)
  BY <1>1, <1>2, <1>6, PeerSteps
<1>7. ASSUME NEW p \in Peers, Hello(p) \/ LinkCut(p) \/ EndFails(p) \/ IceFails(p)
      PROVE  Stepped(NoAnswers)
  BY <1>1, <1>7, PeerSteps
<1> QED
  BY <1>3, <1>4, <1>5, <1>6, <1>7 DEF Next

\* The type invariant, the keys, the trust and the links of Session.
THEOREM SessionInvariant == Spec => []SessionInv
<1>1. Init => SessionInv
  BY InitCore DEF SessionInv
<1>2. SessionInv /\ [Next]_vars => SessionInv'
  <2> SUFFICES ASSUME SessionInv, [Next]_vars
               PROVE  SessionInv'
    OBVIOUS
  <2>1. TypeOK /\ Core(NoAnswers) /\ KeyInv(peer, inbox, NoAnswers)
    BY DEF SessionInv, Core
  <2>2. NoAnswers' = NoAnswers
    BY DEF NoAnswers
  <2>3. CASE Stepped(NoAnswers)
    BY <2>1, <2>2, <2>3, CoreKept DEF SessionInv, Core
  <2>4. CASE \E p \in OPeers, q \in APeers : LinkUp(p, q)
    BY <2>1, <2>2, <2>4, LinkUpKept DEF SessionInv, Core
  <2>5. CASE UNCHANGED vars
    BY <2>1, <2>2, <2>5
       DEF vars, SessionInv, Core, TypeOK, TrustInv, RequireInv, LinkInv, BothTrust, Fickle, Require
  <2> QED
    BY <2>1, <2>3, <2>4, <2>5, NextSteps
<1> QED
  BY <1>1, <1>2, PTL DEF Spec

\* If the answer to a session came under ephemeral keys, so did the offer, and they
\* are the keys of the two ends.
LEMMA KeysAgreeFollows ==
  ASSUME NEW ans, KeyInv(peer, inbox, ans)
  PROVE  KeysAgree
<1> SUFFICES ASSUME NEW p \in OPeers, NEW q \in APeers,
                    peer[p].pc = "connected", peer[p].remote = q, peer[q].remote = p,
                    peer[p].secret
             PROVE  peer[q].secret /\ peer[p].epk = q /\ peer[q].epk = p
  BY DEF KeysAgree
<1>1. peer[p].epk = q /\ Sealed(peer, inbox, p, q)
  BY DEF KeyInv, Bound
<1> QED
  BY <1>1 DEF Sealed

\* Whatever mixture of attempts, losses and late frames: the keys of a session are
\* those of its two ends.
THEOREM KeysAlwaysAgree == Spec => []KeysAgree
<1>1. SessionInv => KeysAgree
  BY KeysAgreeFollows DEF SessionInv, Core
<1> QED
  BY <1>1, SessionInvariant, PTL

LEMMA RequireFollows ==
  ASSUME RequireInv, LinkInv
  PROVE  RequireHonoured
BY DEF RequireInv, LinkInv, RequireHonoured

\* A node that requires forward secrecy never holds a session without it.
THEOREM RequirementHonoured == Spec => []RequireHonoured
<1>1. SessionInv => RequireHonoured
  BY RequireFollows DEF SessionInv, Core
<1> QED
  BY <1>1, SessionInvariant, PTL

\* What a step does to the YawPeers a node holds.
LEMMA OpenLinkStep ==
  ASSUME NEW ans, Stepped(ans) \/ \E p \in OPeers, q \in APeers : LinkUp(p, q)
  PROVE  CurKept
BY DEF Stepped, Handled, CurKept, LinkUp, Keeps

\* An open link's YawPeer is replaced by no other.
THEOREM OpenLinkKept == Spec => OpenLinkSettled
<1>1. SessionInv /\ [Next]_vars =>
        [\A n \in Nodes :
           cur[n] # None /\ cur'[n] \notin {None, cur[n]} => peer[cur[n]].pc # "connected"]_vars
  BY NextSteps, OpenLinkStep DEF SessionInv, Core, CurKept
<1> QED
  BY <1>1, SessionInvariant, PTL DEF Spec, OpenLinkSettled

-----------------------------------------------------------------------------
(* BrowserSession: what a page does otherwise.                              *)

LEMMA MailSent ==
  ASSUME NEW in \in Mailboxes, Frames(in), NEW n \in Nodes, NEW p \in PeersOf(n)
  PROVE  MailKept(SendTo(n, Ekey(p), in), in)
BY MailEkey, MailSame DEF SendTo

\* Peer._doOffer of an attempt that waits for its keys
LEMMA PageDoOfferSound ==
  ASSUME NEW st, NEW in, NEW ans, Sound(st, in, ans), NEW p \in OPeers,
         NoOffer(in, p), Unbound(st, p), st[p].stage = "keying",
         NEW st2, st2 = PageDoOffer(p, st)
  PROVE  /\ Sound(st2, in, ans)
         /\ \A r \in Peers \ {p} : st2[r] = st[r]
         /\ st2[p].remote = st[p].remote /\ st2[p].secret = st[p].secret
         /\ st2[p].pc = st[p].pc
<1>1. p \in Peers /\ st \in [Peers -> PeerState] /\ st[p] \in PeerState
  BY DEF Peers, Sound, PeersTyped
<1>2. /\ st2 \in [Peers -> PeerState] /\ \A r \in Peers \ {p} : st2[r] = st[r]
      /\ st2[p].epk = st[p].epk /\ st2[p].remote = st[p].remote
      /\ st2[p].secret = st[p].secret /\ st2[p].stage = "gathering"
      /\ st2[p].pc = st[p].pc
  BY <1>1 DEF PeerState, PageDoOffer, Offered
<1>3. \A r \in Peers \ {p} : SameKeys(st, st2, r)
  BY <1>2 DEF SameKeys
<1>4. KeyInv(st2, in, ans)
  BY <1>2, <1>3, KeysOfAttempt DEF Sound
<1> QED
  BY <1>2, <1>4 DEF Sound, PeersTyped

\* Node._tryConnect
LEMMA PageTryConnectHandled ==
  ASSUME TypeOK, NEW ans \in [Peers -> Seq(BOOLEAN)], KeyInv(peer, inbox, ans),
         NEW in, MailKept(in, inbox), NEW n \in Nodes, PageTryConnect(n, in), UNCHANGED recon
  PROVE  Handled(ans)
<1>1. recon \in Sweeps /\ CurTyped(cur)
  BY Typing
<1>2. CASE inbox' = in /\ UNCHANGED <<cur, peer>>
  BY <1>1, <1>2, PeersAlone DEF CurTyped
<1>3. CASE /\ ~(cur["off"] # None /\ Settled(cur["off"]))
           /\ \E p \in OPeers :
                Free(p) /\ cur' = [cur EXCEPT !["off"] = p] /\ PageStartOffer(p, in)
  <2>1. PICK p \in OPeers :
          Free(p) /\ cur' = [cur EXCEPT !["off"] = p] /\ PageStartOffer(p, in)
    BY <1>3
  <2>2. "off" \in Nodes /\ p \in PeersOf("off") /\ p \in Peers
    BY DEF Nodes, PeersOf, Peers
  <2> DEFINE st == WithNew("off", p)
  <2>3. /\ PeersTyped(st) /\ st[p] = Born
        /\ \A r \in Peers \ {p} : Left(peer, st, r)
        /\ KeyInv(st, inbox, ans)
        /\ NoOffer(inbox, p) /\ Unbound(st, p)
        /\ cur["off"] # p
    BY <2>1, <2>2, NewPeer
  <2>4. /\ peer' = [st EXCEPT ![p].sent = TRUE, ![p].stage = "keying", ![p].timer = TRUE]
        /\ inbox' = SendTo("off", Ekey(p), in)
    BY <2>1 DEF PageStartOffer
  <2>5. cur["off"] = None \/ peer[cur["off"]].pc # "connected"
    BY <1>3 DEF Settled
  <2>6. (\A r \in Peers \ {p} : Left(peer, WithNew("off", p), r)) /\ st = WithNew("off", p)
    BY <2>3
  <2> HIDE DEF st
  <2>7. Sound(st, in, ans) /\ NoOffer(in, p)
    <3>1. Sound(st, inbox, ans)
      BY <2>3, Typing DEF Sound
    <3> QED
      BY <2>3, <3>1, SoundMail
  <2>8. /\ peer' \in [Peers -> PeerState] /\ \A r \in Peers \ {p} : peer'[r] = st[r]
        /\ peer'[p].epk = None /\ peer'[p].remote = None /\ peer'[p].secret = st[p].secret
        /\ peer'[p].stage = "keying" /\ peer'[p].pc = "new"
    <3>1. st \in [Peers -> PeerState] /\ st[p] \in PeerState
      BY <2>2, <2>3 DEF PeersTyped
    <3> QED
      BY <2>2, <2>3, <2>4, <3>1, BornFacts DEF PeerState
  <2>9. \A r \in Peers \ {p} : SameKeys(st, peer', r)
    BY <2>8 DEF SameKeys
  <2>10. KeyInv(peer', in, ans)
    <3>1. /\ st[p].stage = "idle" /\ st[p].epk = None /\ st[p].remote = None /\ st[p].pc = "new"
      BY <2>3, BornFacts
    <3> QED
      BY <2>3, <2>7, <2>8, <2>9, <3>1, KeysOfAttempt DEF Sound
  <2>11. Sound(peer', inbox', ans)
    <3>1. Sound(peer', in, ans) /\ Frames(in) /\ in \in Mailboxes
      BY <2>7, <2>8, <2>10 DEF Sound, PeersTyped, KeyInv
    <3>2. MailKept(inbox', in)
      BY <2>2, <2>4, <3>1, MailSent
    <3> QED
      BY <3>1, <3>2, SoundMail
  <2>12. (\A r \in Peers : Effect(peer, peer', r)) /\ CurTyped(cur') /\ CurKept
    BY <2>1, <2>2, <2>3, <2>5, <2>6, <2>8, NewPeerEffect
  <2> QED
    BY <1>1, <2>11, <2>12 DEF Handled
<1> QED
  BY <1>2, <1>3 DEF PageTryConnect

\* Peer._onEkey
LEMMA PageOnEkeySound ==
  ASSUME NEW ans, NEW in, NEW st, Sound(st, in, ans), NEW n \in Nodes, NEW p \in PeersOf(n),
         NEW box, box.src \in PeersOf(Other(n)), PageOnEkey(n, p, st, in, box)
  PROVE  /\ Sound(peer', inbox', ans)
         /\ \A r \in Peers \ {p} : peer'[r] = st[r]
         /\ Effect(st, peer', p)
<1> DEFINE held == Holding(st, p, box.src)
<1>1. p \in Peers /\ in \in Mailboxes /\ Frames(in)
  BY DEF PeersOf, Peers, Sound, KeyInv
<1>2. CASE peer' = st /\ inbox' = in
  BY <1>2 DEF Effect
<1>3. ASSUME st[p].epk = None
      PROVE  /\ Sound(held, in, ans)
             /\ \A r \in Peers \ {p} : held[r] = st[r]
             /\ held[p].remote = st[p].remote /\ held[p].secret = st[p].secret
             /\ held[p].pc = st[p].pc /\ held[p].stage = st[p].stage
  BY <1>3, EkeyHeld
<1> HIDE DEF held
<1>4. CASE /\ st[p].epk = None
           /\ peer' = (IF st[p].stage = "keying" THEN PageDoOffer(p, held) ELSE held)
           /\ inbox' = (IF st[p].sent THEN in ELSE SendTo(n, Ekey(p), in))
  <2>1. MailKept(inbox', in)
    BY <1>1, <1>4, MailSent, MailSame
  <2>2. CASE st[p].stage = "keying"
    <3>1. p \in OPeers
      BY <2>2, <1>1 DEF Sound, KeyInv, Roles, Peers
    <3>2. NoOffer(in, p) /\ Unbound(held, p) /\ held[p].stage = "keying"
      BY <1>3, <1>4, <2>2, <3>1 DEF Sound, KeyInv, Unmade
    <3>3. /\ Sound(peer', in, ans)
          /\ \A r \in Peers \ {p} : peer'[r] = held[r]
          /\ peer'[p].remote = held[p].remote /\ peer'[p].secret = held[p].secret
          /\ peer'[p].pc = held[p].pc
      BY <1>3, <1>4, <2>2, <3>1, <3>2, PageDoOfferSound
    <3> QED
      BY <1>3, <1>4, <2>1, <2>2, <3>3, SoundMail DEF Effect
  <2>3. CASE st[p].stage # "keying"
    BY <1>3, <1>4, <2>1, <2>3, SoundMail DEF Effect
  <2> QED
    BY <2>2, <2>3
<1> QED
  BY <1>2, <1>4 DEF PageOnEkey, held, Holding

\* Peer._onBox, an offer
LEMMA PageOnOfferSound ==
  ASSUME TypeOK, NEW st, answers \in [Peers -> Seq(BOOLEAN)], Sound(st, inbox, answers),
         NEW p \in APeers, Page["ans"],
         inbox["ans"] # <<>>, NEW box, box = Head(inbox["ans"]), box.kind = "offer",
         Opens(st, p, box), st[p].pc \in {"new", "connected"},
         NEW in, in = [inbox EXCEPT !["ans"] = Tail(@)], PageOnOffer(p, st, box), inbox' = in
  PROVE  /\ Sound(peer', inbox', answers')
         /\ \A r \in Peers \ {p} : peer'[r] = st[r] /\ answers'[r] = answers[r]
         /\ answers' \in [Peers -> Seq(BOOLEAN)]
         /\ "ans" \in trusts => Effect(st, peer', p)
<1>1. /\ p \in Peers /\ "ans" \in Nodes /\ NodeOf(p) = "ans" /\ p \notin OPeers
      /\ st \in [Peers -> PeerState] /\ st[p] \in PeerState
      /\ inbox \in Mailboxes /\ Frames(inbox) /\ KeyInv(st, inbox, answers)
  BY SessionAssumption DEF NodeOf, Nodes, Peers, Sound, PeersTyped, KeyInv
<1>2. /\ MailKept(in, inbox) /\ box.src \in Peers
      /\ in["ans"] = Tail(inbox["ans"]) /\ in["off"] = inbox["off"]
  <2>1. MailKept(in, inbox) /\ box.src \in PeersOf(Other("ans"))
    BY <1>1, HeadOfMail DEF Boxes
  <2>2. in["ans"] = Tail(inbox["ans"]) /\ in["off"] = inbox["off"]
    BY <1>1 DEF Mailboxes, Nodes
  <2> QED
    BY <2>1, <2>2 DEF PeersOf, Other, Peers
<1>3. CASE peer' = st /\ UNCHANGED answers
  BY <1>2, <1>3, SoundMail DEF Effect
<1>4. CASE /\ peer' = [st EXCEPT ![p].pc = "new", ![p].stage = "answering", ![p].used = FALSE,
                                 ![p].remote = box.src, ![p].secret = (box.key # None)]
           /\ answers' = [answers EXCEPT ![p] = Append(@, box.key # None)]
  <2> DEFINE secret == (box.key # None)
             c == [st[p] EXCEPT !.pc = "new", !.stage = "answering", !.used = FALSE,
                                !.remote = box.src, !.secret = secret]
  <2>0. secret \in BOOLEAN
    OBVIOUS
  <2>1. /\ c \in PeerState /\ c.epk = st[p].epk /\ c.stage = "answering" /\ c.used = FALSE
        /\ c.pc = "new" /\ c.remote = box.src /\ c.secret = secret
    <3> HIDE DEF secret
    <3> QED
      BY <1>1, <1>2, <2>0 DEF PeerState
  <2>2. peer' = [st EXCEPT ![p] = c]
    BY <1>1, <1>4
  <2>3. answers' = [answers EXCEPT ![p] = Append(@, secret)]
    BY <1>4
  <2> HIDE DEF c
  <2>4. /\ peer' \in [Peers -> PeerState] /\ peer'[p] = c
        /\ \A r \in Peers \ {p} : peer'[r] = st[r]
    BY <1>1, <2>1, <2>2
  <2>5. /\ answers[p] \in Seq(BOOLEAN) /\ answers' \in [Peers -> Seq(BOOLEAN)]
        /\ answers'[p] = Append(answers[p], secret)
        /\ \A r \in Peers \ {p} : answers'[r] = answers[r]
    <3> HIDE DEF secret
    <3> QED
      BY <1>1, <2>0, <2>3
  <2>6. \A r \in Peers \ {p} : SameKeys(st, peer', r) /\ answers'[r] = answers[r]
    BY <2>4, <2>5 DEF SameKeys
  <2>7. AnswersUnder(peer', answers', p) => AnswersUnder(st, answers, p) \/ box.key # None
    <3>1. ASSUME NEW k \in DOMAIN answers'[p], answers'[p][k]
          PROVE  (\E j \in DOMAIN answers[p] : answers[p][j]) \/ secret
      <4> HIDE DEF secret
      <4>1. CASE k = Len(answers[p]) + 1
        BY <3>1, <4>1, <2>0, <2>5
      <4>2. CASE k # Len(answers[p]) + 1
        <5>1. k \in DOMAIN answers[p] /\ answers'[p][k] = answers[p][k]
          BY <4>2, <2>0, <2>5
        <5> QED
          BY <3>1, <5>1
      <4> QED
        BY <4>1, <4>2
    <3> QED
      BY <2>1, <2>4, <3>1 DEF AnswersUnder
  <2>8. /\ Alive(st, p)
        /\ peer'[p].epk = st[p].epk /\ peer'[p].stage = "answering"
        /\ \/ peer'[p].remote = st[p].remote /\ peer'[p].secret = st[p].secret
           \/ peer'[p].remote = box.src /\ peer'[p].secret = (box.key # None)
    BY <2>1, <2>4 DEF Alive
  <2>9. KeyInv(peer', in, answers')
    <3>1. TakesOffer(st, answers, peer', answers', p, box)
      BY <2>6, <2>7, <2>8 DEF TakesOffer
    <3> QED
      BY <1>1, <1>2, <3>1, KeysOfOffer
  <2>10. Sound(peer', inbox', answers')
    BY <1>2, <2>4, <2>9 DEF Sound, PeersTyped, MailKept
  <2>11. "ans" \in trusts => Effect(st, peer', p)
    <3>1. ~Require["ans"]
      BY SessionAssumption, Typing, <1>1 DEF EnvTyped, Require, Page
    <3> QED
      BY <1>1, <2>1, <2>4, <3>1 DEF Effect
  <2> QED
    BY <2>4, <2>5, <2>10, <2>11
<1> QED
  BY <1>3, <1>4 DEF PageOnOffer

\* Peer._onBox, an answer
LEMMA PageOnAnswerSound ==
  ASSUME TypeOK, NEW ans, NEW st, Sound(st, inbox, ans), NEW p \in OPeers, Page["off"],
         inbox["off"] # <<>>, NEW box, box = Head(inbox["off"]), box.kind = "answer",
         Opens(st, p, box),
         NEW in, in = [inbox EXCEPT !["off"] = Tail(@)], PageOnAnswer(p, st, box), inbox' = in
  PROVE  /\ Sound(peer', inbox', ans)
         /\ \A r \in Peers \ {p} : peer'[r] = st[r]
         /\ "off" \in trusts => Effect(st, peer', p)
<1>1. /\ p \in Peers /\ "off" \in Nodes /\ NodeOf(p) = "off"
      /\ st \in [Peers -> PeerState] /\ st[p] \in PeerState
      /\ inbox \in Mailboxes /\ Frames(inbox) /\ MailKept(in, inbox)
  BY HeadOfMail DEF NodeOf, Nodes, Peers, Sound, PeersTyped, KeyInv, Boxes
<1>2. CASE Expects(st[p]) /\ peer' = Taking(st, p, box)
  <2>1. /\ Sound(peer', inbox, ans)
        /\ \A r \in Peers \ {p} : peer'[r] = st[r]
        /\ peer'[p].secret = (box.key # None) /\ peer'[p].remote # None
        /\ peer'[p].pc = st[p].pc /\ peer'[p].stage = st[p].stage
    BY <1>2, AnswerTaken
  <2>2. ~Require["off"]
    BY SessionAssumption, Typing, <1>1 DEF EnvTyped, Require, Page
  <2>3. "off" \in trusts => Effect(st, peer', p)
    BY <1>1, <1>2, <2>1, <2>2 DEF Effect
  <2> QED
    BY <1>1, <2>1, <2>3, SoundMail
<1>3. CASE peer' = [st EXCEPT ![p].fs = (box.key # None)]
  <2>1. (box.key # None) \in BOOLEAN
    OBVIOUS
  <2>2. /\ Sound(peer', inbox, ans)
        /\ \A r \in Peers \ {p} : peer'[r] = st[r]
        /\ Effect(st, peer', p)
    BY <1>1, <1>3, <2>1, FsSet
  <2> QED
    BY <1>1, <2>2, SoundMail
<1>4. (Expects(st[p]) /\ PageOnAnswer(p, st, box)) => peer' = Taking(st, p, box)
  BY <1>1 DEF PageOnAnswer, Taking
<1> QED
  BY <1>2, <1>3, <1>4 DEF PageOnAnswer

\* Peer._onBox
LEMMA PageOnBoxSound ==
  ASSUME PageTypeOK, NEW st, Sound(st, inbox, answers), NEW n \in Nodes, n \in trusts, Page[n],
         NEW p \in PeersOf(n), st[p].pc \in {"new", "connected"},
         Arrives(n, {"ekey", "offer", "answer"}), PageOnBox(n, p, st, Rest(n), Head(inbox[n]))
  PROVE  /\ Sound(peer', inbox', answers') /\ answers' \in [Peers -> Seq(BOOLEAN)]
         /\ \A r \in Peers \ {p} : peer'[r] = st[r]
         /\ answers' = answers \/ n = "ans"
         /\ Effect(st, peer', p)
<1> DEFINE box == Head(inbox[n])
           in == Rest(n)
<1>1. /\ p \in Peers /\ inbox \in Mailboxes /\ Frames(inbox) /\ TypeOK
      /\ inbox[n] # <<>> /\ box.kind \in Boxes /\ answers \in [Peers -> Seq(BOOLEAN)]
  BY DEF PeersOf, Peers, Sound, KeyInv, Arrives, Boxes, PageTypeOK
<1>2. /\ box.src \in PeersOf(Other(n)) /\ MailKept(in, inbox)
      /\ box.kind = "offer" => n = "ans"
      /\ box.kind = "answer" => n = "off"
  BY <1>1, HeadOfMail DEF Rest
<1>3. Sound(st, in, answers)
  BY <1>2, SoundMail
<1>4. CASE peer' = st /\ inbox' = in /\ UNCHANGED answers
  BY <1>1, <1>3, <1>4 DEF Effect
<1>5. CASE box.kind = "ekey" /\ PageOnEkey(n, p, st, in, box) /\ UNCHANGED answers
  <2> HIDE DEF box, in
  <2> QED
    BY <1>1, <1>2, <1>3, <1>5, PageOnEkeySound
<1>6. CASE Opens(st, p, box) /\ box.kind = "offer" /\ PageOnOffer(p, st, box) /\ inbox' = in
  <2>1. n = "ans" /\ p \in APeers
    BY <1>2, <1>6 DEF PeersOf
  <2> QED
    <3>1. /\ PageOnOffer(p, st, Head(inbox["ans"])) /\ inbox' = Rest("ans")
          /\ Opens(st, p, Head(inbox["ans"])) /\ Head(inbox["ans"]).kind = "offer"
          /\ inbox["ans"] # <<>> /\ "ans" \in trusts /\ Page["ans"]
      BY <1>1, <1>6, <2>1
    <3>2. /\ Sound(peer', inbox', answers')
          /\ \A r \in Peers \ {p} : peer'[r] = st[r] /\ answers'[r] = answers[r]
          /\ answers' \in [Peers -> Seq(BOOLEAN)]
          /\ "ans" \in trusts => Effect(st, peer', p)
      <4> HIDE DEF box, in
      <4> QED
        BY <1>1, <2>1, <3>1, PageOnOfferSound DEF Rest
    <3> QED
      BY <2>1, <3>1, <3>2
<1>7. CASE /\ Opens(st, p, box) /\ box.kind = "answer" /\ PageOnAnswer(p, st, box) /\ inbox' = in
           /\ UNCHANGED answers
  <2>1. n = "off" /\ p \in OPeers
    BY <1>2, <1>7 DEF PeersOf
  <2> QED
    <3>1. /\ PageOnAnswer(p, st, Head(inbox["off"])) /\ inbox' = Rest("off")
          /\ Opens(st, p, Head(inbox["off"])) /\ Head(inbox["off"]).kind = "answer"
          /\ inbox["off"] # <<>> /\ "off" \in trusts /\ Page["off"] /\ answers' = answers
      BY <1>1, <1>7, <2>1
    <3>2. /\ Sound(peer', inbox', answers)
          /\ \A r \in Peers \ {p} : peer'[r] = st[r]
          /\ "off" \in trusts => Effect(st, peer', p)
      <4> HIDE DEF box, in
      <4> QED
        BY <1>1, <2>1, <3>1, PageOnAnswerSound DEF Rest
    <3> QED
      BY <1>1, <3>1, <3>2
<1>8. \/ peer' = st /\ inbox' = in /\ UNCHANGED answers
      \/ box.kind = "ekey" /\ PageOnEkey(n, p, st, in, box) /\ UNCHANGED answers
      \/ Opens(st, p, box) /\ box.kind = "offer" /\ PageOnOffer(p, st, box) /\ inbox' = in
      \/ /\ Opens(st, p, box) /\ box.kind = "answer" /\ PageOnAnswer(p, st, box) /\ inbox' = in
         /\ UNCHANGED answers
  BY DEF PageOnBox
<1> HIDE DEF box, in
<1> QED
  BY <1>4, <1>5, <1>6, <1>7, <1>8

\* Node._onFrom
LEMMA PageFromHandled ==
  ASSUME PageTypeOK, KeyInv(peer, inbox, answers), NEW n \in Nodes, Page[n], PageFrom(n)
  PROVE  /\ Handled(answers') /\ answers' \in [Peers -> Seq(BOOLEAN)]
         /\ answers' = answers \/ n = "ans"
<1>1. /\ TypeOK /\ answers \in [Peers -> Seq(BOOLEAN)]
      /\ inbox \in Mailboxes /\ Frames(inbox) /\ CurTyped(cur) /\ peer \in [Peers -> PeerState]
      /\ recon' \in Sweeps /\ inbox[n] # <<>> /\ Head(inbox[n]).kind \in Boxes
      /\ Sound(peer, inbox, answers)
  BY DEF PageTypeOK, TypeOK, Mailboxes, KeyInv, CurTyped, Sweeps, PageFrom, Arrives, Boxes,
         Sound, PeersTyped
<1>2. MailKept(Rest(n), inbox)
  BY <1>1, HeadOfMail DEF Rest
<1>3. CASE ~Admits(n)
  <2>1. inbox' = Rest(n) /\ UNCHANGED <<cur, peer, answers>>
    BY <1>3 DEF PageFrom
  <2>2. Handled(answers)
    BY <1>1, <1>2, <2>1, PeersAlone DEF CurTyped
  <2> QED
    BY <1>1, <2>1, <2>2
<1>4. CASE Admits(n) /\ Usable(n)
  <2>1. /\ cur[n] # None /\ peer[cur[n]].pc \in {"new", "connected"} /\ cur' = cur
        /\ PageOnBox(n, cur[n], peer, Rest(n), Head(inbox[n]))
    BY <1>1, <1>4 DEF PageFrom, Usable, CurTyped
  <2>2. cur[n] \in PeersOf(n) /\ cur[n] \in Peers /\ n \in trusts
    BY <1>1, <1>4, <2>1 DEF CurTyped, PeersOf, Peers, Admits
  <2>3. /\ Sound(peer', inbox', answers') /\ answers' \in [Peers -> Seq(BOOLEAN)]
        /\ \A r \in Peers \ {cur[n]} : peer'[r] = peer[r]
        /\ answers' = answers \/ n = "ans"
        /\ Effect(peer, peer', cur[n])
    BY <1>1, <2>1, <2>2, PageOnBoxSound DEF PageFrom
  <2>4. \A r \in Peers : Effect(peer, peer', r)
    BY <1>1, <2>3, LeftEffect DEF Left
  <2> QED
    BY <1>1, <2>1, <2>3, <2>4 DEF Handled, CurKept
<1>5. CASE Admits(n) /\ ~Usable(n)
  <2>1. PICK p \in PeersOf(n) :
          /\ Free(p) /\ cur' = [cur EXCEPT ![n] = p]
          /\ PageOnBox(n, p, WithNew(n, p), Rest(n), Head(inbox[n]))
    BY <1>5 DEF PageFrom
  <2>2. p \in Peers /\ n \in trusts
    BY <1>5 DEF PeersOf, Peers, Admits
  <2>3. /\ PeersTyped(WithNew(n, p)) /\ WithNew(n, p)[p] = Born
        /\ \A r \in Peers \ {p} : Left(peer, WithNew(n, p), r)
        /\ KeyInv(WithNew(n, p), inbox, answers)
        /\ cur[n] # p
    BY <1>1, <2>1, NewPeer
  <2>4. Sound(WithNew(n, p), inbox, answers) /\ WithNew(n, p)[p].pc \in {"new", "connected"}
    BY <1>1, <2>3, BornFacts DEF Sound
  <2>5. /\ Sound(peer', inbox', answers') /\ answers' \in [Peers -> Seq(BOOLEAN)]
        /\ \A r \in Peers \ {p} : peer'[r] = WithNew(n, p)[r]
        /\ answers' = answers \/ n = "ans"
        /\ Effect(WithNew(n, p), peer', p)
    BY <2>1, <2>2, <2>4, PageOnBoxSound DEF PageFrom
  <2>6. Effect(peer, peer', p)
    <3>1. NodeOf(p) = n
      BY SessionAssumption DEF NodeOf, PeersOf, Nodes, Peers
    <3>2. WithNew(n, p)[p].pc = "new" /\ WithNew(n, p)[p].remote = None
          /\ WithNew(n, p)[p].stage = "idle"
      BY <2>3, BornFacts
    <3> QED
      BY <2>2, <2>5, <3>1, <3>2 DEF Effect
  <2>7. \A r \in Peers : Effect(peer, peer', r)
    <3> SUFFICES ASSUME NEW r \in Peers \ {p}
                 PROVE  Effect(peer, peer', r)
      BY <2>6
    <3>1. Left(peer, peer', r)
      BY <2>3, <2>5 DEF Left
    <3> QED
      BY <1>1, <3>1, LeftEffect
  <2>8. CurTyped(cur') /\ CurKept
    BY <1>1, <1>5, <2>1, <2>2 DEF CurTyped, CurKept, Usable
  <2> QED
    BY <1>1, <2>5, <2>7, <2>8 DEF Handled
<1> QED
  BY <1>3, <1>4, <1>5

\* The time-out of Peer.startOffer
LEMMA PageOfferTimerHandled ==
  ASSUME TypeOK, NEW ans \in [Peers -> Seq(BOOLEAN)], KeyInv(peer, inbox, ans),
         NEW p \in OPeers, PageOfferTimer(p)
  PROVE  Handled(ans)
<1> DEFINE st == [peer EXCEPT ![p].timer = FALSE]
<1>1. /\ p \in Peers /\ peer \in [Peers -> PeerState] /\ inbox \in Mailboxes /\ CurTyped(cur)
      /\ Sound(peer, inbox, ans) /\ recon \in Sweeps
  BY DEF Peers, TypeOK, Mailboxes, CurTyped, Sound, PeersTyped, Sweeps
<1>2. /\ st \in [Peers -> PeerState] /\ \A r \in Peers \ {p} : st[r] = peer[r]
      /\ SameKeys(peer, st, p) /\ st[p].pc = peer[p].pc
  <2>1. peer[p] \in PeerState
    BY <1>1
  <2> QED
    BY <1>1, <2>1 DEF PeerState, SameKeys
<1>3. /\ peer' = IF peer[p].stage = "keying" THEN PageDoOffer(p, st) ELSE st
      /\ UNCHANGED <<inbox, cur, recon>>
  BY DEF PageOfferTimer
<1> HIDE DEF st
<1>4. Sound(st, inbox, ans)
  BY <1>1, <1>2, AsideSound
<1>5. CASE peer[p].stage = "keying"
  <2>1. NoOffer(inbox, p) /\ Unbound(st, p) /\ st[p].stage = "keying"
    BY <1>2, <1>4, <1>5 DEF Sound, KeyInv, Unmade, SameKeys
  <2>2. /\ Sound(peer', inbox, ans)
        /\ \A r \in Peers \ {p} : peer'[r] = st[r]
        /\ peer'[p].remote = st[p].remote /\ peer'[p].secret = st[p].secret
        /\ peer'[p].pc = st[p].pc
    BY <1>3, <1>4, <1>5, <2>1, PageDoOfferSound
  <2>3. \A r \in Peers : Effect(peer, peer', r)
    BY <1>2, <1>5, <2>2 DEF Effect, SameKeys
  <2> QED
    BY <1>1, <1>3, <2>2, <2>3 DEF Handled, CurKept
<1>6. CASE peer[p].stage # "keying"
  <2>1. \A r \in Peers : Effect(peer, peer', r)
    BY <1>2, <1>3, <1>6 DEF Effect, SameKeys
  <2> QED
    BY <1>1, <1>3, <1>4, <1>6, <2>1 DEF Handled, CurKept
<1> QED
  BY <1>5, <1>6

\* The rest of Peer._doOffer
LEMMA PageOfferGatheredHandled ==
  ASSUME TypeOK, NEW ans, KeyInv(peer, inbox, ans), NEW p \in OPeers, PageOfferGathered(p)
  PROVE  Handled(ans)
<1> DEFINE eph == peer[p].epk # None
           key == peer[p].epk
           box == [kind |-> "offer", src |-> p, key |-> key, to |-> None]
           by == peer[p].by
<1>1. /\ p \in Peers /\ peer \in [Peers -> PeerState] /\ peer[p] \in PeerState
      /\ CurTyped(cur) /\ recon \in Sweeps
  BY Typing DEF Peers
<1>2. /\ key \in Peers \cup {None} /\ eph \in BOOLEAN
      /\ by \in {"none", "run", "timer", "reconcile", "user"}
  BY <1>1 DEF PeerState
<1>3. /\ peer[p].stage = "gathering"
      /\ peer' = [peer EXCEPT ![p].stage = "offered", ![p].fs = eph]
      /\ inbox' \in {inbox, Relayed("off", box, inbox)}
      /\ UNCHANGED <<cur, recon>>
  BY DEF PageOfferGathered, SendTo
<1>4. peer' = [peer EXCEPT ![p].stage = "offered", ![p].fs = eph, ![p].by = by]
  <2>1. [peer[p] EXCEPT !.stage = "offered", !.fs = eph]
          = [peer[p] EXCEPT !.stage = "offered", !.fs = eph, !.by = by]
    <3> HIDE DEF eph
    <3> QED
      BY <1>1 DEF PeerState
  <2> QED
    BY <1>1, <1>3, <2>1
<1> HIDE DEF eph, key, by
<1>5. Sound(peer', inbox', ans) /\ \A r \in Peers : Effect(peer, peer', r)
  BY <1>2, <1>3, <1>4, OfferSent
<1> QED
  BY <1>1, <1>3, <1>5 DEF Handled, CurKept

\* What is left when one handler of several is done.
Without(s, k) == SubSeq(s, 1, k - 1) \o SubSeq(s, k + 1, Len(s))

LEMMA OneDone ==
  ASSUME NEW S, NEW s \in Seq(S), NEW k \in DOMAIN s
  PROVE  /\ Without(s, k) \in Seq(S)
         /\ \A j \in DOMAIN Without(s, k) : \E i \in DOMAIN s : Without(s, k)[j] = s[i]
<1> DEFINE t == Without(s, k)
           a == SubSeq(s, 1, k - 1)
           b == SubSeq(s, k + 1, Len(s))
<1>1. k \in 1..Len(s) /\ Len(s) \in Nat
  OBVIOUS
<1>2. a \in Seq(S) /\ \A j \in DOMAIN a : j \in DOMAIN s /\ a[j] = s[j]
  BY <1>1
<1>3. b \in Seq(S) /\ \A j \in DOMAIN b : k + j \in DOMAIN s /\ b[j] = s[k + j]
  BY <1>1
<1>4. t = a \o b
  BY DEF Without
<1> HIDE DEF a, b, t
<1>5. /\ t \in Seq(S)
      /\ \A j \in DOMAIN t : \/ j \in DOMAIN a /\ t[j] = a[j]
                             \/ j - Len(a) \in DOMAIN b /\ t[j] = b[j - Len(a)]
  <2>1. a \in Seq(S) /\ b \in Seq(S)
    BY <1>2, <1>3
  <2>2. t \in Seq(S) /\ Len(t) = Len(a) + Len(b)
    BY <1>4, <2>1, ConcatProperties
  <2>3. /\ DOMAIN t = 1..(Len(a) + Len(b)) /\ DOMAIN a = 1..Len(a) /\ DOMAIN b = 1..Len(b)
        /\ Len(a) \in Nat /\ Len(b) \in Nat
    BY <2>1, <2>2
  <2> SUFFICES ASSUME NEW j \in DOMAIN t
               PROVE  \/ j \in DOMAIN a /\ t[j] = a[j]
                      \/ j - Len(a) \in DOMAIN b /\ t[j] = b[j - Len(a)]
    BY <2>2
  <2>4. t[j] = IF j <= Len(a) THEN a[j] ELSE b[j - Len(a)]
    BY <1>4, <2>1, <2>3, ConcatProperties
  <2>5. CASE j <= Len(a)
    BY <2>3, <2>4, <2>5
  <2>6. CASE ~(j <= Len(a))
    BY <2>3, <2>4, <2>6
  <2> QED
    BY <2>5, <2>6
<1>6. t \in Seq(S) /\ \A j \in DOMAIN t : \E i \in DOMAIN s : t[j] = s[i]
  BY <1>2, <1>3, <1>5
<1> QED
  BY <1>6 DEF t

\* The rest of Peer's handler of an offer
LEMMA PageAnswerGatheredHandled ==
  ASSUME PageTypeOK, KeyInv(peer, inbox, answers), NEW q \in APeers, PageAnswerGathered(q)
  PROVE  Handled(answers') /\ answers' \in [Peers -> Seq(BOOLEAN)]
<1>1. /\ q \in Peers /\ peer \in [Peers -> PeerState] /\ peer[q] \in PeerState /\ TypeOK
      /\ CurTyped(cur) /\ recon \in Sweeps /\ answers \in [Peers -> Seq(BOOLEAN)]
  BY Typing DEF Peers, PageTypeOK
<1>2. PICK k \in DOMAIN answers[q] :
        LET eph == answers[q][k]
            box == [kind |-> "answer", src |-> q, key |-> IF eph THEN peer[q].epk ELSE None,
                    to |-> peer[q].remote]
            left == SubSeq(answers[q], 1, k - 1) \o SubSeq(answers[q], k + 1, Len(answers[q]))
        IN /\ answers' = [answers EXCEPT ![q] = left]
           /\ peer' = [peer EXCEPT ![q].fs = eph,
                                   ![q].stage = IF left = <<>> THEN "idle" ELSE @]
           /\ UNCHANGED <<signaling, trusts, cur, recon, rest>>
           /\ inbox' = SendTo("ans", box, inbox)
  BY DEF PageAnswerGathered
<1> DEFINE eph == answers[q][k]
           key == IF eph THEN peer[q].epk ELSE None
           box == [kind |-> "answer", src |-> q, key |-> key, to |-> peer[q].remote]
           left == Without(answers[q], k)
           stage == IF left = <<>> THEN "idle" ELSE peer[q].stage
<1>3. /\ answers[q] \in Seq(BOOLEAN) /\ eph \in BOOLEAN
      /\ peer[q].stage = "answering"
      /\ eph => AnswersUnder(peer, answers, q)
  <2>1. answers[q] \in Seq(BOOLEAN)
    BY <1>1
  <2>2. answers[q] # <<>> /\ eph \in BOOLEAN
    BY <2>1
  <2> QED
    BY <2>1, <2>2 DEF KeyInv, Answering, AnswersUnder
<1>4. /\ left \in Seq(BOOLEAN)
      /\ \A j \in DOMAIN left : \E i \in DOMAIN answers[q] : left[j] = answers[q][i]
  <2>1. answers[q] \in Seq(BOOLEAN) /\ k \in DOMAIN answers[q]
    BY <1>3
  <2> QED
    BY <2>1, OneDone
<1>5. /\ answers' = [answers EXCEPT ![q] = left]
      /\ peer' = [peer EXCEPT ![q].fs = eph, ![q].stage = stage]
      /\ inbox' \in {inbox, Relayed("ans", box, inbox)}
      /\ UNCHANGED <<cur, recon>>
  BY <1>1, <1>2 DEF SendTo, Without
<1>6. box \in Box /\ box.kind = "answer" /\ box.src = q
      /\ (box.key # None => box.key = peer[q].epk /\ AnswersUnder(peer, answers, q))
  <2>1. key \in Peers \cup {None} /\ peer[q].remote \in Peers \cup {None}
    BY <1>1, <1>3 DEF PeerState
  <2>2. key # None => key = peer[q].epk /\ AnswersUnder(peer, answers, q)
    BY <1>3
  <2> HIDE DEF key
  <2> QED
    BY <1>1, <2>1, <2>2 DEF Box
<1>7. stage \in {"idle", "answering"} /\ (left # <<>> => stage = "answering")
  BY <1>3
<1> HIDE DEF eph, box, left, stage
<1>8. /\ answers' \in [Peers -> Seq(BOOLEAN)] /\ answers'[q] = left
      /\ \A r \in Peers \ {q} : answers'[r] = answers[r]
  BY <1>1, <1>4, <1>5
<1>9. /\ peer' \in [Peers -> PeerState] /\ \A r \in Peers \ {q} : peer'[r] = peer[r]
      /\ peer'[q].epk = peer[q].epk /\ peer'[q].remote = peer[q].remote
      /\ peer'[q].secret = peer[q].secret /\ peer'[q].pc = peer[q].pc
      /\ peer'[q].used = peer[q].used /\ peer'[q].stage = stage
  BY <1>1, <1>3, <1>5, <1>7 DEF PeerState
<1>10. AnswersUnder(peer', answers', q) => AnswersUnder(peer, answers, q)
  BY <1>3, <1>4, <1>8, <1>9 DEF AnswersUnder
<1>11. Replies(peer, answers, peer', answers', q, box)
  BY <1>3, <1>6, <1>7, <1>8, <1>9, <1>10 DEF Replies, PeersTyped
<1>12. Sound(peer', inbox', answers') /\ \A r \in Peers : Effect(peer, peer', r)
  BY <1>1, <1>5, <1>6, <1>11, AnswerSent
<1> QED
  BY <1>1, <1>5, <1>8, <1>12 DEF Handled, CurKept

-----------------------------------------------------------------------------
(* BrowserSession: every action.                                            *)

\* What every step but LinkUp does, whichever kind of node takes it.
PageStepped ==
  /\ Stepped(answers') /\ answers' \in [Peers -> Seq(BOOLEAN)]
  /\ Page["ans"] \/ answers' = answers

\* Node.start's first `joined`, or Node._onReconnect: the frames it brings.
LEMMA PageConnectMail ==
  ASSUME TypeOK, NEW ans, KeyInv(peer, inbox, ans), NEW n \in Nodes, PageConnect(n)
  PROVE  \E in : /\ MailKept(in, inbox)
                 /\ \/ PageTryConnect(n, in)
                    \/ inbox' = in /\ UNCHANGED <<cur, peer>>
<1>1. PICK frames \in {<<[kind |-> "join"]>>} \cup {<<[kind |-> "leave"], [kind |-> "join"]>>} :
        IF known'[n] THEN PageTryConnect(n, Notify(n, frames, inbox))
        ELSE inbox' = Notify(n, frames, inbox) /\ UNCHANGED <<cur, peer>>
  BY DEF PageConnect
<1>2. frames \in Seq(Presence)
  BY PresenceFrames
<1>3. MailKept(Notify(n, frames, inbox), inbox)
  BY <1>2, Typing, MailPresence DEF KeyInv
<1> QED
  BY <1>1, <1>3

LEMMA PageConnectSteps ==
  ASSUME PageTypeOK, KeyInv(peer, inbox, answers), NEW n \in Nodes, PageConnect(n)
  PROVE  PageStepped
<1>0. TypeOK /\ answers \in [Peers -> Seq(BOOLEAN)] /\ answers' = answers
  BY DEF PageTypeOK, PageConnect
<1>1. PICK in : /\ MailKept(in, inbox)
                /\ \/ PageTryConnect(n, in)
                   \/ inbox' = in /\ UNCHANGED <<cur, peer>>
  BY <1>0, PageConnectMail
<1>2. Handled(answers)
  <2>0. UNCHANGED recon
    BY DEF PageConnect
  <2>1. CASE PageTryConnect(n, in)
    BY <1>0, <1>1, <2>0, <2>1, PageTryConnectHandled
  <2>2. CASE inbox' = in /\ UNCHANGED <<cur, peer>>
    BY <1>0, <1>1, <2>0, <2>2, Typing, PeersAlone DEF CurTyped
  <2> QED
    BY <1>1, <2>1, <2>2
<1>3. EnvTyped' /\ mode' = mode /\ trusts' = trusts
  BY <1>0, Typing DEF PageConnect, EnvTyped, Other, Nodes
<1> QED
  BY <1>0, <1>2, <1>3 DEF PageStepped, Stepped

LEMMA PageAcceptSteps ==
  ASSUME PageTypeOK, KeyInv(peer, inbox, answers), NEW n \in Nodes, PageAccept(n) \/ PageSweep
  PROVE  PageStepped
<1>0. /\ TypeOK /\ answers \in [Peers -> Seq(BOOLEAN)]
      /\ answers' = answers /\ UNCHANGED recon
  BY DEF PageTypeOK, PageAccept, PageSweep
<1>1. MailKept(inbox, inbox)
  BY <1>0, Typing, MailSame DEF KeyInv
<1>2. Handled(answers)
  <2>1. ASSUME NEW m \in Nodes, PageTryConnect(m, inbox)
        PROVE  Handled(answers)
    BY <1>0, <1>1, <2>1, PageTryConnectHandled
  <2>2. CASE UNCHANGED <<inbox, cur, peer>>
    BY <1>0, <1>1, <2>2, Typing, PeersAlone DEF CurTyped
  <2>3. "off" \in Nodes
    BY DEF Nodes
  <2> QED
    BY <2>1, <2>2, <2>3 DEF PageAccept, PageSweep
<1>3. EnvTyped' /\ mode' = mode /\ trusts \subseteq trusts'
  BY <1>0, Typing DEF PageAccept, PageSweep, EnvTyped, signaling, rest
<1> QED
  BY <1>0, <1>2, <1>3 DEF PageStepped, Stepped

LEMMA PageFrameSteps ==
  ASSUME PageTypeOK, KeyInv(peer, inbox, answers), NEW n \in Nodes, Page[n],
         PageJoin(n) \/ PageLeave(n) \/ PageFrom(n)
  PROVE  PageStepped
<1>0. TypeOK /\ answers \in [Peers -> Seq(BOOLEAN)]
  BY DEF PageTypeOK
<1>1. MailKept(Rest(n), inbox)
  BY <1>0, Typing, MailShortened DEF Rest, KeyInv, PageJoin, PageLeave, PageFrom, Arrives
<1>2. CASE PageJoin(n)
  <2>1. Handled(answers) /\ answers' = answers
    BY <1>0, <1>1, <1>2, PageTryConnectHandled DEF PageJoin
  <2>2. EnvTyped' /\ mode' = mode /\ trusts' = trusts
    BY <1>0, <1>2, Typing DEF PageJoin, EnvTyped, rest
  <2> QED
    BY <1>0, <2>1, <2>2 DEF PageStepped, Stepped
<1>3. CASE PageLeave(n)
  <2>1. Handled(answers) /\ answers' = answers
    <3>1. CurTyped(cur') /\ \A m \in Nodes : cur'[m] \in {None, cur[m]}
      BY <1>0, <1>3, Typing DEF PageLeave, CurTyped
    <3>2. inbox' = Rest(n) /\ UNCHANGED <<peer, recon, answers>>
      BY <1>3 DEF PageLeave
    <3>3. recon' \in Sweeps
      BY <1>0, <3>2, Typing
    <3> QED
      BY <1>0, <1>1, <3>1, <3>2, <3>3, PeersAlone
  <2>2. EnvTyped' /\ mode' = mode /\ trusts' = trusts
    BY <1>0, <1>3, Typing DEF PageLeave, EnvTyped, rest
  <2> QED
    BY <1>0, <2>1, <2>2 DEF PageStepped, Stepped
<1>4. CASE PageFrom(n)
  <2>1. /\ Handled(answers') /\ answers' \in [Peers -> Seq(BOOLEAN)]
        /\ answers' = answers \/ n = "ans"
    BY <1>4, PageFromHandled
  <2>2. EnvTyped' /\ mode' = mode /\ trusts' = trusts
    BY <1>0, <1>4, Typing DEF PageFrom, EnvTyped, signaling, rest
  <2> QED
    BY <2>1, <2>2 DEF PageStepped, Stepped
<1> QED
  BY <1>2, <1>3, <1>4

LEMMA PagePeerSteps ==
  ASSUME PageTypeOK, KeyInv(peer, inbox, answers), NEW p \in Peers,
         \/ p \in OPeers /\ (PageOfferTimer(p) \/ PageOfferGathered(p))
         \/ p \in APeers /\ Page["ans"] /\ PageAnswerGathered(p)
  PROVE  PageStepped
<1>0. TypeOK /\ answers \in [Peers -> Seq(BOOLEAN)]
  BY DEF PageTypeOK
<1>1. CASE p \in OPeers /\ (PageOfferTimer(p) \/ PageOfferGathered(p))
  <2>1. Handled(answers) /\ answers' = answers
    BY <1>0, <1>1, PageOfferTimerHandled, PageOfferGatheredHandled
       DEF PageOfferTimer, PageOfferGathered
  <2>2. EnvTyped' /\ mode' = mode /\ trusts' = trusts
    BY <1>0, <1>1, Typing DEF PageOfferTimer, PageOfferGathered, EnvTyped, signaling, rest
  <2> QED
    BY <1>0, <2>1, <2>2 DEF PageStepped, Stepped
<1>2. CASE p \in APeers /\ Page["ans"] /\ PageAnswerGathered(p)
  <2>1. Handled(answers') /\ answers' \in [Peers -> Seq(BOOLEAN)]
    BY <1>2, PageAnswerGatheredHandled
  <2>2. EnvTyped' /\ mode' = mode /\ trusts' = trusts
    BY <1>0, <1>2, Typing DEF PageAnswerGathered, EnvTyped, signaling, rest
  <2> QED
    BY <1>2, <2>1, <2>2 DEF PageStepped, Stepped
<1> QED
  BY <1>1, <1>2

LEMMA PageNextSteps ==
  ASSUME PageInv, PageNext
  PROVE  PageStepped \/ (answers' = answers /\ \E p \in OPeers, q \in APeers : LinkUp(p, q))
<1>1. /\ PageTypeOK /\ TypeOK /\ KeyInv(peer, inbox, answers)
      /\ answers \in [Peers -> Seq(BOOLEAN)]
      /\ ~Page["ans"] => \A q \in APeers : answers[q] = <<>>
  BY DEF PageInv, Core, PageTypeOK, Handlers
<1>2. OPeers \subseteq Peers /\ APeers \subseteq Peers /\ "off" \in Nodes
  BY DEF Peers, Nodes
<1>3. ASSUME Stepped(answers), answers' = answers
      PROVE  PageStepped
  BY <1>1, <1>3 DEF PageStepped
<1>4. ASSUME NEW n \in Nodes, Page[n], PageNode(n)
      PROVE  PageStepped
  <2>1. CASE Forget(n) /\ UNCHANGED answers
    BY <1>1, <1>3, <2>1, AwaySteps
  <2> QED
    BY <1>1, <1>4, <2>1, PageConnectSteps, PageAcceptSteps, PageFrameSteps DEF PageNode
<1>5. ASSUME NEW n \in Nodes, PythonNode(n), UNCHANGED answers
      PROVE  PageStepped
  BY <1>1, <1>3, <1>5, ConnectSteps, AcceptSteps, AwaySteps, PumpSteps DEF PythonNode
<1>6. CASE PageOfferer
  BY <1>1, <1>2, <1>6, PageAcceptSteps, PagePeerSteps DEF PageOfferer
<1>7. CASE PythonOfferer /\ UNCHANGED answers
  BY <1>1, <1>2, <1>3, <1>7, ReconcileSteps, PeerSteps DEF PythonOfferer
<1>8. CASE Page["ans"] /\ \E p \in APeers : PageAnswerGathered(p)
  BY <1>1, <1>2, <1>8, PagePeerSteps
<1>9. CASE ~Page["ans"] /\ (\E p \in APeers : AnswerGathered(p)) /\ UNCHANGED answers
  BY <1>1, <1>2, <1>3, <1>9, PeerSteps
<1>10. CASE Environment /\ UNCHANGED answers
  <2>1. ASSUME NEW n \in Nodes, Blip(n) \/ ServerNotices(n) \/ StartSweep
        PROVE  PageStepped
    BY <1>1, <1>3, <1>10, <2>1, AwaySteps
  <2>2. ASSUME NEW p \in OPeers, Stale(p)
        PROVE  PageStepped
    BY <1>1, <1>2, <1>3, <1>10, <2>2, PeerSteps
  <2>3. ASSUME NEW p \in Peers, Hello(p) \/ LinkCut(p) \/ EndFails(p) \/ IceFails(p)
        PROVE  PageStepped
    BY <1>1, <1>3, <1>10, <2>3, PeerSteps
  <2> QED
    BY <1>2, <1>10, <2>1, <2>2, <2>3 DEF Environment
<1> QED
  BY <1>4, <1>5, <1>6, <1>7, <1>8, <1>9, <1>10 DEF PageNext

\* The same of sessions with pages, and what their handlers under way hold.
THEOREM PageInvariant == PageSpec => []PageInv
<1>1. PageInit => PageInv
  <2> SUFFICES ASSUME PageInit
               PROVE  PageInv
    OBVIOUS
  <2>1. TypeOK /\ Core(NoAnswers) /\ answers = NoAnswers
    BY InitCore DEF PageInit, NoAnswers
  <2>2. answers \in [Peers -> Seq(BOOLEAN)] /\ \A q \in APeers : answers[q] = <<>>
    BY <2>1 DEF NoAnswers, Peers
  <2> QED
    BY <2>1, <2>2 DEF PageInv, PageTypeOK, Handlers
<1>2. PageInv /\ [PageNext]_bvars => PageInv'
  <2> SUFFICES ASSUME PageInv, [PageNext]_bvars
               PROVE  PageInv'
    OBVIOUS
  <2>1. /\ TypeOK /\ Core(answers) /\ KeyInv(peer, inbox, answers)
        /\ answers \in [Peers -> Seq(BOOLEAN)]
        /\ TrustInv /\ RequireInv /\ LinkInv /\ BothTrust /\ Handlers
    BY DEF PageInv, PageTypeOK, Core
  <2>2. CASE PageStepped
    <3>1. TypeOK' /\ KeyInv(peer', inbox', answers') /\ TrustInv' /\ RequireInv' /\ LinkInv'
          /\ BothTrust'
      BY <2>1, <2>2, CoreKept DEF PageStepped
    <3>2. Handlers' /\ answers' \in [Peers -> Seq(BOOLEAN)]
      BY <2>1, <2>2 DEF PageStepped, Stepped, Handlers, Page
    <3> QED
      BY <3>1, <3>2 DEF PageInv, PageTypeOK, Core
  <2>3. CASE answers' = answers /\ \E p \in OPeers, q \in APeers : LinkUp(p, q)
    <3>1. TypeOK' /\ KeyInv(peer', inbox', answers') /\ TrustInv' /\ RequireInv' /\ LinkInv'
          /\ BothTrust'
      BY <2>1, <2>3, LinkUpKept
    <3>2. mode' = mode
      BY <2>3 DEF LinkUp, rest
    <3>3. Handlers' /\ answers' \in [Peers -> Seq(BOOLEAN)]
      BY <2>1, <2>3, <3>2 DEF Handlers, Page
    <3> QED
      BY <3>1, <3>3 DEF PageInv, PageTypeOK, Core
  <2>4. CASE UNCHANGED bvars
    BY <2>1, <2>4
       DEF bvars, vars, PageInv, PageTypeOK, Handlers, Page, Core, TypeOK, TrustInv, RequireInv,
           LinkInv, BothTrust, Fickle, Require
  <2> QED
    BY <2>2, <2>3, <2>4, PageNextSteps
<1> QED
  BY <1>1, <1>2, PTL DEF PageSpec

\* With pages on either side, the keys of a session are those of its two ends.
THEOREM PageKeysAgree == PageSpec => []KeysAgree
<1>1. PageInv => KeysAgree
  BY KeysAgreeFollows DEF PageInv, Core
<1> QED
  BY <1>1, PageInvariant, PTL

\* A Python node that requires forward secrecy has it with a page, too.
THEOREM PageRequirementHonoured == PageSpec => []RequireHonoured
<1>1. PageInv => RequireHonoured
  BY RequireFollows DEF PageInv, Core
<1> QED
  BY <1>1, PageInvariant, PTL

\* A link is up only between nodes that have each accepted the other (and may have
\* forgotten it since).
THEOREM TrustIsMutual == Spec => []BothTrust
<1>1. SessionInv => BothTrust
  BY DEF SessionInv, Core
<1> QED
  BY <1>1, SessionInvariant, PTL

\* The same with pages, whose handlers may end after the user has forgotten a key.
THEOREM PageTrustIsMutual == PageSpec => []BothTrust
<1>1. PageInv => BothTrust
  BY DEF PageInv, Core
<1> QED
  BY <1>1, PageInvariant, PTL

\* What a step does to a node that has forgotten the other.
NothingBegun ==
  \A n \in Nodes \ trusts :
    /\ HalfMade(n)' \subseteq HalfMade(n)
    /\ \A p \in PeersOf(n) \ HalfMade(n) :
         peer[p].pc # "connected" => peer'[p].pc # "connected"

LEMMA ForgottenStep ==
  ASSUME TypeOK, NEW ans, Stepped(ans) \/ \E p \in OPeers, q \in APeers : LinkUp(p, q)
  PROVE  NothingBegun
<1> SUFFICES ASSUME NEW n \in Nodes \ trusts, NEW r \in PeersOf(n)
             PROVE  /\ peer'[r].pc = "new" /\ peer'[r].remote # None =>
                         peer[r].pc = "new" /\ peer[r].remote # None
                    /\ peer'[r].pc = "connected" =>
                         \/ peer[r].pc = "connected"
                         \/ peer[r].pc = "new" /\ peer[r].remote # None
  BY DEF NothingBegun, HalfMade
<1>1. r \in Peers /\ NodeOf(r) = n
  BY SessionAssumption DEF PeersOf, Peers, NodeOf, Nodes
<1>2. CASE Stepped(ans)
  <2>1. Effect(peer, peer', r)
    BY <1>1, <1>2 DEF Stepped, Handled
  <2> QED
    BY <1>1, <2>1 DEF Effect
<1>3. CASE \E p \in OPeers, q \in APeers : LinkUp(p, q)
  <2>1. PICK p \in OPeers, q \in APeers : LinkUp(p, q)
    BY <1>3
  <2>2. /\ peer' = [peer EXCEPT ![p].pc = "connected", ![q].pc = "connected"]
        /\ peer[p].pc = "new" /\ peer[q].pc = "new"
        /\ peer[p].remote = q /\ peer[q].remote = p
    BY <2>1 DEF LinkUp, Matched
  <2>3. p \in Peers /\ q \in Peers /\ p # q /\ p # None /\ q # None
    BY SessionAssumption DEF Peers
  <2>4. peer \in [Peers -> PeerState] /\ peer[p] \in PeerState /\ peer[q] \in PeerState
    BY <2>3, Typing
  <2>5. CASE r \in {p, q}
    <3>1. peer'[r].pc = "connected"
      BY <2>2, <2>3, <2>4, <2>5 DEF PeerState
    <3> QED
      BY <2>2, <2>3, <2>5, <3>1
  <2>6. CASE r \notin {p, q}
    <3>1. peer'[r] = peer[r]
      BY <1>1, <2>2, <2>3, <2>4, <2>6
    <3> QED
      BY <3>1
  <2> QED
    BY <2>5, <2>6
<1> QED
  BY <1>2, <1>3

\* A node that has forgotten the other begins no session with it.
THEOREM ForgottenBeginsNothing == Spec => ForgottenStaysOut
<1>1. SessionInv /\ [Next]_vars => [NothingBegun]_vars
  BY NextSteps, ForgottenStep DEF SessionInv, Core
<1> QED
  BY <1>1, SessionInvariant, PTL DEF Spec, ForgottenStaysOut, NothingBegun

\* Nor does a page, although handlers that gather go on after a key is forgotten.
THEOREM PageForgottenBeginsNothing == PageSpec => ForgottenStaysOut
<1>1. PageInv /\ [PageNext]_bvars => [NothingBegun]_vars
  <2> SUFFICES ASSUME PageInv, [PageNext]_bvars
               PROVE  NothingBegun \/ UNCHANGED vars
    OBVIOUS
  <2>1. TypeOK
    BY DEF PageInv, PageTypeOK
  <2> QED
    BY <2>1, PageNextSteps, ForgottenStep DEF PageStepped, bvars
<1> QED
  BY <1>1, PageInvariant, PTL DEF PageSpec, ForgottenStaysOut, NothingBegun

\* With pages, too, an open link's YawPeer is replaced by no other,
THEOREM PageOpenLinkKept == PageSpec => OpenLinkSettled
<1>1. PageInv /\ [PageNext]_bvars =>
        [\A n \in Nodes :
           cur[n] # None /\ cur'[n] \notin {None, cur[n]} => peer[cur[n]].pc # "connected"]_vars
  BY PageNextSteps, OpenLinkStep DEF PageStepped, CurKept, bvars
<1> QED
  BY <1>1, PageInvariant, PTL DEF PageSpec, OpenLinkSettled

-----------------------------------------------------------------------------
(* Session: what the user of an offerer is told.                            *)

\* The offerer's p was given the description of a connection of the answerer's.
Given(st, p) == st[p].remote \in APeers

\* q answers p's offer under ephemeral keys.
Under(st, p, q) == st[q].stage = "answering" /\ st[q].used /\ st[q].epk = p

AnswerTo(box, p) == box.kind = "answer" /\ box.to = p
AnswerUnder(box, p) == box.kind = "answer" /\ box.key = p
OfferUnder(box, p) == box.kind = "offer" /\ box.src = p /\ box.key # None

\* What is said of a connection is what its description came under.
Told(st, p) ==
  /\ st[p].pc = "connected" \/ st[p].verified => Given(st, p)
  /\ st[p].verified /\ st[p].claim => st[p].secret
  /\ st[p].fs /\ Given(st, p) => st[p].secret
  /\ st[p].stage \in {"keying", "gathering"} => ~Given(st, p)
ToldTrue(st) == \A p \in OPeers : Told(st, p)

\* Nothing under ephemeral keys is on its way to p: it would change what is said.
QuietAns(st, in, p) ==
  /\ \A q \in APeers : ~Under(st, p, q)
  /\ \A k \in DOMAIN in["ans"] : ~OfferUnder(in["ans"][k], p)
NoneUnder(st, in) ==
  \A p \in OPeers : Given(st, p) /\ ~st[p].secret =>
    QuietAns(st, in, p) /\ \A k \in DOMAIN in["off"] : ~AnswerUnder(in["off"][k], p)

\* Of the answers to p's description those under ephemeral keys come first.
KeyedFirst(st, in) ==
  \A p \in OPeers : \A k \in DOMAIN in["off"] : AnswerTo(in["off"][k], p) =>
    /\ st[p].stage = "offered" /\ QuietAns(st, in, p)
    /\ in["off"][k].key = None =>
         \A l \in DOMAIN in["off"] : l > k => ~AnswerUnder(in["off"][l], p)

\* An answerer's pump waits for its own handler of an offer.
OneAtATime(st) ==
  \A q \in APeers :
    /\ st[q].stage = "answering" => st[q].by = "run" /\ \A r \in APeers : st[r].stage = "answering" => r = q
    /\ \A p \in OPeers : Alive(st, q) /\ st[q].remote = p => st[p].stage = "offered"

HonestInv(st, in) == ToldTrue(st) /\ NoneUnder(st, in) /\ KeyedFirst(st, in) /\ OneAtATime(st)

\* What most steps do to a connection of the offerer's, which goes on,
GoesOn(st, st2, p) ==
  /\ st2[p].remote = st[p].remote /\ st2[p].secret = st[p].secret
  /\ st2[p].fs /\ Given(st, p) => st[p].secret
  /\ \/ st2[p].stage = st[p].stage
     \/ st[p].stage # "offered" /\ (st2[p].stage \in {"keying", "gathering"} => ~Given(st, p))
  /\ st2[p].pc = "connected" \/ st2[p].verified => Given(st, p)
  /\ st2[p].verified /\ st2[p].claim => (st[p].verified /\ st[p].claim) \/ (Given(st, p) /\ st[p].fs)

\* or is a new one that nobody refers to,
Begins(st, st2, in, p) ==
  /\ st2[p].remote = None /\ st2[p].pc # "connected" /\ ~st2[p].verified
  /\ \A k \in DOMAIN in["off"] : ~AnswerTo(in["off"][k], p)
  /\ \A q \in APeers : Alive(st, q) => st[q].remote # p

\* and to one of the answerer's.
AnswersOn(st, st2, q) ==
  /\ st2[q].stage = "answering" => st[q].stage = "answering" /\ st2[q].by = st[q].by
  /\ \A p \in OPeers : Under(st2, p, q) => Under(st, p, q)
  /\ Alive(st2, q) /\ st2[q].remote # None => Alive(st, q) /\ st2[q].remote = st[q].remote

Aside(st, st2, in) ==
  /\ \A p \in OPeers : GoesOn(st, st2, p) \/ Begins(st, st2, in, p)
  /\ \A q \in APeers : AnswersOn(st, st2, q)

LEMMA NoneIsNobody == None \notin OPeers /\ None \notin APeers /\ OPeers \cap APeers = {}
BY SessionAssumption DEF Peers

LEMMA HonestAside ==
  ASSUME NEW st, NEW st2, NEW in, HonestInv(st, in), Aside(st, st2, in)
  PROVE  HonestInv(st2, in)
<1>1. ToldTrue(st2)
  <2> SUFFICES ASSUME NEW p \in OPeers PROVE Told(st2, p)
    BY DEF ToldTrue
  <2>1. Told(st, p)
    BY DEF HonestInv, ToldTrue
  <2>2. CASE GoesOn(st, st2, p)
    BY <2>1, <2>2 DEF GoesOn, Told, Given
  <2>3. CASE Begins(st, st2, in, p)
    BY <2>3, NoneIsNobody DEF Begins, Told, Given
  <2> QED
    BY <2>2, <2>3 DEF Aside
<1>2. \A p \in OPeers : QuietAns(st, in, p) => QuietAns(st2, in, p)
  BY DEF Aside, AnswersOn, QuietAns
<1>3. NoneUnder(st2, in)
  <2> SUFFICES ASSUME NEW p \in OPeers, Given(st2, p), ~st2[p].secret
               PROVE  QuietAns(st2, in, p) /\ \A k \in DOMAIN in["off"] : ~AnswerUnder(in["off"][k], p)
    BY DEF NoneUnder
  <2>1. GoesOn(st, st2, p)
    BY NoneIsNobody DEF Aside, Begins, Given
  <2>2. Given(st, p) /\ ~st[p].secret
    BY <2>1 DEF GoesOn, Given
  <2> QED
    BY <1>2, <2>2 DEF HonestInv, NoneUnder
<1>4. KeyedFirst(st2, in)
  <2> SUFFICES ASSUME NEW p \in OPeers, NEW k \in DOMAIN in["off"], AnswerTo(in["off"][k], p)
               PROVE  st2[p].stage = "offered"
    BY <1>2 DEF HonestInv, KeyedFirst
  <2>1. GoesOn(st, st2, p) /\ st[p].stage = "offered"
    BY DEF Aside, Begins, HonestInv, KeyedFirst
  <2> QED
    BY <2>1 DEF GoesOn
<1>5. OneAtATime(st2)
  <2>1. ASSUME NEW q \in APeers, NEW p \in OPeers, Alive(st2, q), st2[q].remote = p
        PROVE  st2[p].stage = "offered"
    <3>1. Alive(st, q) /\ st[q].remote = p
      BY <2>1, NoneIsNobody DEF Aside, AnswersOn
    <3>2. st[p].stage = "offered" /\ GoesOn(st, st2, p)
      BY <3>1 DEF HonestInv, OneAtATime, Aside, Begins
    <3> QED
      BY <3>2 DEF GoesOn
  <2>2. ASSUME NEW q \in APeers, st2[q].stage = "answering"
        PROVE  st2[q].by = "run" /\ \A r \in APeers : st2[r].stage = "answering" => r = q
    BY <2>2 DEF Aside, AnswersOn, HonestInv, OneAtATime
  <2> QED
    BY <2>1, <2>2 DEF OneAtATime
<1> QED
  BY <1>1, <1>3, <1>4, <1>5 DEF HonestInv

\* Frames taken up, lost or added that are no offers and no answers.
LEMMA HonestMail ==
  ASSUME NEW st, NEW in \in Mailboxes, NEW in2, HonestInv(st, in), MailKept(in2, in)
  PROVE  HonestInv(st, in2)
<1>0. DOMAIN in2["off"] \subseteq Nat /\ DOMAIN in2["ans"] \subseteq Nat
  BY DEF MailKept, Mailboxes, Nodes
<1>1. PICK c \in {0, 1} : \A k \in DOMAIN in2["off"] :
        in2["off"][k].kind \in {"offer", "answer"} => k + c \in DOMAIN in["off"] /\ in2["off"][k] = in["off"][k + c]
  BY DEF MailKept, Passes
<1>2. \A p \in OPeers : QuietAns(st, in, p) => QuietAns(st, in2, p)
  BY DEF MailKept, Passes, QuietAns, OfferUnder
<1>3. NoneUnder(st, in2)
  BY <1>1, <1>2 DEF HonestInv, NoneUnder, AnswerUnder
<1>4. KeyedFirst(st, in2)
  <2> SUFFICES ASSUME NEW p \in OPeers, NEW k \in DOMAIN in2["off"], AnswerTo(in2["off"][k], p)
               PROVE  /\ st[p].stage = "offered" /\ QuietAns(st, in2, p)
                      /\ in2["off"][k].key = None =>
                           \A l \in DOMAIN in2["off"] : l > k => ~AnswerUnder(in2["off"][l], p)
    BY DEF KeyedFirst
  <2>1. k + c \in DOMAIN in["off"] /\ in2["off"][k] = in["off"][k + c]
    BY <1>1 DEF AnswerTo
  <2>2. /\ st[p].stage = "offered" /\ QuietAns(st, in2, p)
        /\ in2["off"][k].key = None =>
             \A l \in DOMAIN in["off"] : l > k + c => ~AnswerUnder(in["off"][l], p)
    BY <1>2, <2>1 DEF HonestInv, KeyedFirst
  <2>3. ASSUME in2["off"][k].key = None, NEW l \in DOMAIN in2["off"], l > k, AnswerUnder(in2["off"][l], p)
        PROVE  FALSE
    <3>1. l + c \in DOMAIN in["off"] /\ in2["off"][l] = in["off"][l + c]
      BY <1>1, <2>3 DEF AnswerUnder
    <3>2. l + c > k + c
      BY <1>0, <2>3
    <3> QED
      BY <2>2, <2>3, <3>1, <3>2
  <2> QED
    BY <2>2, <2>3
<1> QED
  BY <1>3, <1>4 DEF HonestInv

\* One connection of the offerer's goes on.
LEMMA HonestOfferer ==
  ASSUME NEW st, NEW st2, NEW in, HonestInv(st, in), NEW p \in OPeers,
         \A r \in Peers \ {p} : st2[r] = st[r], GoesOn(st, st2, p)
  PROVE  HonestInv(st2, in)
<1>1. ASSUME NEW r \in OPeers
      PROVE  GoesOn(st, st2, r)
  <2>1. CASE r = p
    BY <2>1
  <2>2. CASE r # p
    <3>1. st2[r] = st[r]
      BY <2>2 DEF Peers
    <3>2. Told(st, r)
      BY DEF HonestInv, ToldTrue
    <3> QED
      BY <3>1, <3>2 DEF GoesOn, Told
  <2> QED
    BY <2>1, <2>2
<1>2. ASSUME NEW q \in APeers
      PROVE  AnswersOn(st, st2, q)
  <2>1. st2[q] = st[q]
    BY NoneIsNobody DEF Peers
  <2> QED
    BY <2>1 DEF AnswersOn, Under, Alive
<1> QED
  BY <1>1, <1>2, HonestAside DEF Aside

\* One connection of the answerer's goes on.
LEMMA HonestAnswerer ==
  ASSUME NEW st, NEW st2, NEW in, HonestInv(st, in), NEW q \in APeers,
         \A r \in Peers \ {q} : st2[r] = st[r], AnswersOn(st, st2, q)
  PROVE  HonestInv(st2, in)
<1>1. ASSUME NEW r \in OPeers
      PROVE  GoesOn(st, st2, r)
  <2>1. st2[r] = st[r]
    BY NoneIsNobody DEF Peers
  <2>2. Told(st, r)
    BY DEF HonestInv, ToldTrue
  <2> QED
    BY <2>1, <2>2 DEF GoesOn, Told
<1>2. ASSUME NEW r \in APeers
      PROVE  AnswersOn(st, st2, r)
  <2>1. CASE r = q
    BY <2>1
  <2>2. CASE r # q
    <3>1. st2[r] = st[r]
      BY <2>2 DEF Peers
    <3> QED
      BY <3>1 DEF AnswersOn, Under, Alive
  <2> QED
    BY <2>1, <2>2
<1> QED
  BY <1>1, <1>2, HonestAside DEF Aside

\* A connection that closes.
LEMMA LeftAside ==
  ASSUME NEW st, NEW st2, NEW in, HonestInv(st, in), NEW r \in Peers, st[r] \in PeerState,
         Left(st, st2, r)
  PROVE  /\ r \in OPeers => GoesOn(st, st2, r)
         /\ r \in APeers => AnswersOn(st, st2, r)
<1>1. /\ st2[r].stage = st[r].stage /\ st2[r].remote = st[r].remote
      /\ st2[r].secret = st[r].secret /\ st2[r].fs = st[r].fs /\ st2[r].by = st[r].by
      /\ st2[r].verified = st[r].verified /\ st2[r].claim = st[r].claim
      /\ st2[r].used = st[r].used /\ st2[r].epk = st[r].epk
      /\ st2[r].pc \in {st[r].pc, "closed"}
  BY DEF Left, PeerState
<1>2. r \in OPeers => Told(st, r)
  BY DEF HonestInv, ToldTrue
<1> QED
  BY <1>1, <1>2 DEF GoesOn, AnswersOn, Told, Under, Alive

\* Node._new_peer
LEMMA HonestNew ==
  ASSUME TypeOK, KeyInv(peer, inbox, NoAnswers), HonestInv(peer, inbox),
         NEW n \in Nodes, NEW p \in PeersOf(n), Free(p)
  PROVE  HonestInv(WithNew(n, p), inbox)
<1> DEFINE st == WithNew(n, p)
<1>1. p \in Peers /\ NoAnswers \in [Peers -> Seq(BOOLEAN)]
  BY DEF PeersOf, Peers, NoAnswers
<1>2. st[p] = Born /\ \A r \in Peers \ {p} : Left(peer, st, r)
  BY <1>1, NewPeer
<1> HIDE DEF st
<1>3. /\ st[p].pc = "new" /\ st[p].remote = None /\ st[p].stage = "idle"
      /\ st[p].verified = FALSE
  BY <1>2 DEF Born
<1>4. \A r \in Peers \ {p} : /\ r \in OPeers => GoesOn(peer, st, r)
                             /\ r \in APeers => AnswersOn(peer, st, r)
  BY <1>2, Typing, LeftAside
<1>5. p \in OPeers => Begins(peer, st, inbox, p)
  <2>1. ASSUME NEW k \in DOMAIN inbox["off"], AnswerTo(inbox["off"][k], p)
        PROVE  FALSE
    <3>1. inbox["off"] \in Seq(Presence \cup Box)
      BY Typing DEF Mailboxes, Nodes
    <3>2. inbox["off"][k] \in Presence \cup Box
      BY <3>1
    <3>3. inbox["off"][k] \in Box
      BY <2>1, <3>2 DEF AnswerTo, Presence
    <3> QED
      BY <2>1, <3>3 DEF AnswerTo, Free, InFlight, Nodes
  <2>2. \A q \in APeers : Alive(peer, q) => peer[q].remote # p
    BY DEF Free, Alive, Gathers, Peers
  <2> QED
    BY <1>3, <2>1, <2>2 DEF Begins
<1>6. p \in APeers => AnswersOn(peer, st, p)
  BY <1>3 DEF AnswersOn, Under
<1>7. Aside(peer, st, inbox)
  BY <1>4, <1>5, <1>6 DEF Aside, Peers
<1> QED
  BY <1>7, HonestAside DEF st

\* YawPeer._do_offer
LEMMA HonestDoOffer ==
  ASSUME NEW st, PeersTyped(st), NEW in, HonestInv(st, in), NEW p \in OPeers,
         st[p].stage # "offered", ~Given(st, p),
         NEW by \in {"run", "timer", "reconcile", "user"}, DoOffer(p, by, st)
  PROVE  HonestInv(peer', in)
<1>1. p \in Peers /\ st \in [Peers -> PeerState] /\ st[p] \in PeerState /\ Told(st, p)
  BY DEF Peers, PeersTyped, HonestInv, ToldTrue
<1>2. /\ \A r \in Peers \ {p} : peer'[r] = st[r]
      /\ peer'[p].remote = st[p].remote /\ peer'[p].secret = st[p].secret
      /\ peer'[p].fs = st[p].fs /\ peer'[p].verified = st[p].verified
      /\ peer'[p].claim = st[p].claim /\ peer'[p].pc \in {st[p].pc, "closed"}
  BY <1>1 DEF DoOffer, PeerState
<1>3. GoesOn(st, peer', p)
  BY <1>1, <1>2 DEF GoesOn, Told
<1> QED
  BY <1>2, <1>3, HonestOfferer

\* YawPeer.start_offer of a new YawPeer.
LEMMA HonestStartOffer ==
  ASSUME NEW in \in Mailboxes, Frames(in), NEW p \in OPeers,
         PeersTyped(WithNew("off", p)), WithNew("off", p)[p] = Born,
         HonestInv(WithNew("off", p), in),
         NEW by \in {"run", "timer", "reconcile", "user"}, StartOffer(p, by, in)
  PROVE  HonestInv(peer', inbox')
<1> DEFINE st == WithNew("off", p)
<1>1. /\ p \in Peers /\ p \in PeersOf("off") /\ "off" \in Nodes
      /\ st \in [Peers -> PeerState] /\ st[p] \in PeerState
      /\ st[p].stage = "idle" /\ st[p].remote = None /\ st[p].pc = "new" /\ ~st[p].verified
      /\ ~st[p].fs
  BY DEF Peers, PeersOf, Nodes, PeersTyped, Born
<1> HIDE DEF st
<1>2. HonestInv(st, in) /\ ~Given(st, p)
  BY <1>1, NoneIsNobody DEF st, Given
<1>3. MailKept(in, in)
  BY MailSame
<1>4. CASE /\ peer' = [st EXCEPT ![p].sent = TRUE, ![p].stage = "keying", ![p].timer = TRUE]
           /\ inbox' = Relayed("off", Ekey(p), in)
  <2>1. (\A r \in Peers \ {p} : peer'[r] = st[r]) /\ GoesOn(st, peer', p)
    BY <1>1, <1>2, <1>4 DEF PeerState, GoesOn
  <2>2. MailKept(inbox', in)
    BY <1>1, <1>4, MailEkey
  <2> QED
    BY <1>2, <2>1, <2>2, HonestOfferer, HonestMail
<1>5. CASE /\ peer' = [st EXCEPT ![p].sent = TRUE]
           /\ inbox' \in {[in EXCEPT !["off"] = <<>>], in}
  <2>1. (\A r \in Peers \ {p} : peer'[r] = st[r]) /\ GoesOn(st, peer', p)
    BY <1>1, <1>2, <1>5 DEF PeerState, GoesOn
  <2>2. MailKept(inbox', in)
    BY <1>1, <1>3, <1>5, MailShortened
  <2> QED
    BY <1>2, <2>1, <2>2, HonestOfferer, HonestMail
<1>6. CASE DoOffer(p, by, st) /\ inbox' = in
  BY <1>1, <1>2, <1>6, HonestDoOffer DEF PeersTyped
<1> QED
  BY <1>4, <1>5, <1>6 DEF StartOffer, st

\* Node._try_connect
LEMMA HonestTryConnect ==
  ASSUME TypeOK, KeyInv(peer, inbox, NoAnswers), HonestInv(peer, inbox),
         NEW in, MailKept(in, inbox), NEW n \in Nodes,
         NEW by \in {"run", "timer", "reconcile", "user"}, TryConnectAt(n, by, in)
  PROVE  HonestInv(peer', inbox')
<1>1. inbox \in Mailboxes /\ in \in Mailboxes /\ Frames(in) /\ HonestInv(peer, in)
  BY Typing, HonestMail DEF MailKept
<1>2. CASE inbox' = in /\ UNCHANGED peer
  BY <1>1, <1>2
<1>3. CASE \E p \in OPeers : Free(p) /\ StartOffer(p, by, in)
  <2>1. PICK p \in OPeers : Free(p) /\ StartOffer(p, by, in)
    BY <1>3
  <2>2. "off" \in Nodes /\ p \in PeersOf("off") /\ NoAnswers \in [Peers -> Seq(BOOLEAN)]
    BY DEF Nodes, PeersOf, NoAnswers
  <2>3. PeersTyped(WithNew("off", p)) /\ WithNew("off", p)[p] = Born
    BY <2>1, <2>2, NewPeer
  <2>4. HonestInv(WithNew("off", p), in)
    BY <1>1, <2>1, <2>2, HonestNew, HonestMail
  <2> QED
    BY <1>1, <2>1, <2>3, <2>4, HonestStartOffer
<1> QED
  BY <1>2, <1>3 DEF TryConnectAt, TryConnect

\* The first verified ekey is held.
LEMMA HonestHeld ==
  ASSUME NEW in, NEW st, Sound(st, in, NoAnswers), HonestInv(st, in), NEW p \in Peers,
         st[p].epk = None, NEW src \in Peers, NEW held, held = Holding(st, p, src)
  PROVE  PeersTyped(held) /\ HonestInv(held, in) /\ held[p].stage = st[p].stage
<1>1. st \in [Peers -> PeerState] /\ st[p] \in PeerState
  BY DEF Sound, PeersTyped
<1>2. /\ \A r \in Peers \ {p} : held[r] = st[r]
      /\ held \in [Peers -> PeerState]
      /\ held[p].stage = st[p].stage /\ held[p].remote = st[p].remote
      /\ held[p].secret = st[p].secret /\ held[p].fs = st[p].fs /\ held[p].by = st[p].by
      /\ held[p].verified = st[p].verified /\ held[p].claim = st[p].claim
      /\ held[p].used = st[p].used /\ held[p].pc = st[p].pc
  BY <1>1 DEF PeerState, Holding
<1>3. CASE p \in OPeers
  <2>1. Told(st, p)
    BY <1>3 DEF HonestInv, ToldTrue
  <2>2. GoesOn(st, held, p)
    BY <1>2, <2>1 DEF GoesOn, Told
  <2> QED
    BY <1>2, <1>3, <2>2, HonestOfferer DEF PeersTyped
<1>4. CASE p \in APeers
  <2>1. ~(st[p].stage = "answering" /\ st[p].used)
    BY <1>4 DEF Sound, KeyInv, Answering, AnswersUnder
  <2>2. AnswersOn(st, held, p)
    BY <1>2, <2>1 DEF AnswersOn, Under, Alive
  <2> QED
    BY <1>2, <1>4, <2>2, HonestAnswerer DEF PeersTyped
<1> QED
  BY <1>3, <1>4 DEF Peers

\* YawPeer._on_ekey
LEMMA HonestOnEkey ==
  ASSUME NEW in, NEW st, Sound(st, in, NoAnswers), HonestInv(st, in),
         NEW n \in Nodes, NEW p \in PeersOf(n),
         NEW box, box.src \in PeersOf(Other(n)), OnEkey(n, p, st, in, box)
  PROVE  HonestInv(peer', inbox')
<1> DEFINE held == Holding(st, p, box.src)
<1>1. /\ p \in Peers /\ box.src \in Peers /\ in \in Mailboxes /\ Frames(in) /\ MailKept(in, in)
  BY MailSame DEF PeersOf, Peers, Sound, KeyInv
<1>2. CASE peer' = st /\ inbox' = in
  BY <1>2
<1>3. ASSUME st[p].epk = None
      PROVE  PeersTyped(held) /\ HonestInv(held, in) /\ held[p].stage = st[p].stage
  BY <1>1, <1>3, HonestHeld
<1> HIDE DEF held
<1>4. CASE st[p].epk = None /\ peer' = held /\ inbox' = [in EXCEPT ![n] = <<>>]
  <2>1. MailKept(inbox', in)
    BY <1>1, <1>4, MailShortened
  <2> QED
    BY <1>1, <1>3, <1>4, <2>1, HonestMail
<1>5. CASE /\ st[p].epk = None
           /\ inbox' = (IF st[p].sent THEN in ELSE Relayed(n, Ekey(p), in))
           /\ IF st[p].stage = "keying" THEN DoOffer(p, "run", held) ELSE peer' = held
  <2>1. MailKept(inbox', in)
    BY <1>1, <1>5, MailEkey
  <2>2. HonestInv(peer', in)
    <3>1. CASE st[p].stage = "keying"
      <4>1. p \in OPeers
        BY <3>1, <1>1 DEF Sound, KeyInv, Roles, Peers
      <4>2. held[p].stage = "keying" /\ ~Given(held, p)
        BY <1>3, <1>5, <3>1, <4>1 DEF HonestInv, ToldTrue, Told
      <4> QED
        BY <1>3, <1>5, <3>1, <4>1, <4>2, HonestDoOffer
    <3>2. CASE st[p].stage # "keying"
      BY <1>3, <1>5, <3>2
    <3> QED
      BY <3>1, <3>2
  <2> QED
    BY <1>1, <2>1, <2>2, HonestMail
<1> QED
  BY <1>2, <1>4, <1>5 DEF OnEkey, held, Holding

\* YawPeer.on_box, an offer, when no handler of an offer is under way
LEMMA HonestOnOffer ==
  ASSUME NEW st, Sound(st, inbox, NoAnswers), HonestInv(st, inbox), NEW q \in APeers,
         \A r \in APeers : st[r].stage # "answering",
         inbox["ans"] # <<>>, NEW box, box = Head(inbox["ans"]), box.kind = "offer",
         Opens(st, q, box), st[q].pc \in {"new", "connected"},
         NEW in, in = [inbox EXCEPT !["ans"] = Tail(@)], OnOffer(q, st, in, box)
  PROVE  HonestInv(peer', inbox')
<1>1. /\ q \in Peers /\ "ans" \in Nodes /\ inbox \in Mailboxes /\ Frames(inbox)
      /\ st \in [Peers -> PeerState] /\ st[q] \in PeerState
  BY DEF Peers, Nodes, Sound, KeyInv, PeersTyped
<1>2. /\ MailKept(in, inbox) /\ 1 \in DOMAIN inbox["ans"] /\ box = inbox["ans"][1]
      /\ box.src \in PeersOf(Other("ans"))
  BY <1>1, HeadOfMail DEF Boxes
<1>3. HonestInv(st, in) /\ inbox' = in /\ in["off"] = inbox["off"]
  BY <1>1, <1>2, HonestMail DEF OnOffer, Mailboxes, Nodes
<1>4. CASE peer' = [st EXCEPT ![q].pc = "closed"]
  <2>1. (\A r \in Peers \ {q} : peer'[r] = st[r]) /\ Left(st, peer', q)
    BY <1>1, <1>4 DEF Left
  <2> QED
    BY <1>1, <1>3, <2>1, LeftAside, HonestAnswerer
<1>5. CASE peer' = [st EXCEPT
             ![q].stage = "answering", ![q].by = "run", ![q].used = (box.key # None),
             ![q].remote = IF @ = None THEN box.src ELSE @,
             ![q].secret = IF st[q].remote = None THEN box.key # None ELSE @]
  <2>1. /\ \A r \in Peers \ {q} : peer'[r] = st[r]
        /\ peer'[q].epk = st[q].epk /\ peer'[q].stage = "answering" /\ peer'[q].by = "run"
        /\ peer'[q].used = (box.key # None)
        /\ peer'[q].remote \in {st[q].remote, box.src}
    BY <1>1, <1>5 DEF PeerState
  <2>2. /\ \A r \in OPeers : peer'[r] = st[r]
        /\ \A r \in APeers \ {q} : peer'[r] = st[r]
    BY <2>1, NoneIsNobody DEF Peers
  <2>3. box.src \in OPeers /\ st[box.src].stage = "offered"
    BY <1>2 DEF Sound, KeyInv, OneOffer, PeersOf, Other
  <2>4. \A p \in OPeers : QuietAns(st, inbox, p) => QuietAns(peer', in, p)
    <3> SUFFICES ASSUME NEW p \in OPeers, QuietAns(st, inbox, p)
                 PROVE  QuietAns(peer', in, p)
      OBVIOUS
    <3>1. \A k \in DOMAIN in["ans"] : ~OfferUnder(in["ans"][k], p)
      BY <1>2 DEF QuietAns, MailKept, Passes, OfferUnder
    <3>2. ~Under(peer', p, q)
      <4>1. ASSUME Under(peer', p, q)
            PROVE  OfferUnder(box, p)
        <5>1. box.key # None /\ st[q].epk = p
          BY <4>1, <2>1 DEF Under
        <5> QED
          BY <5>1 DEF Opens, OfferUnder
      <4> QED
        BY <4>1, <1>2 DEF QuietAns
    <3>3. \A r \in APeers \ {q} : ~Under(peer', p, r)
      BY <2>2 DEF QuietAns, Under
    <3> QED
      BY <3>1, <3>2, <3>3 DEF QuietAns
  <2>5. ToldTrue(peer')
    BY <1>3, <2>2 DEF HonestInv, ToldTrue, Told, Given
  <2>6. NoneUnder(peer', in)
    BY <1>3, <2>2, <2>4 DEF HonestInv, NoneUnder, Given
  <2>7. KeyedFirst(peer', in)
    BY <1>3, <2>2, <2>4 DEF HonestInv, KeyedFirst
  <2>8. OneAtATime(peer')
    <3>1. ASSUME NEW r \in APeers, peer'[r].stage = "answering"
          PROVE  peer'[r].by = "run" /\ \A s \in APeers : peer'[s].stage = "answering" => s = r
      BY <3>1, <2>1, <2>2
    <3>2. ASSUME NEW r \in APeers, NEW p \in OPeers, Alive(peer', r), peer'[r].remote = p
          PROVE  peer'[p].stage = "offered"
      <4>1. CASE r = q
        <5>1. Alive(st, q)
          BY DEF Alive
        <5> QED
          BY <3>2, <4>1, <5>1, <2>1, <2>2, <2>3 DEF HonestInv, OneAtATime
      <4>2. CASE r # q
        BY <3>2, <4>2, <2>2 DEF HonestInv, OneAtATime, Alive
      <4> QED
        BY <4>1, <4>2
    <3> QED
      BY <3>1, <3>2 DEF OneAtATime
  <2> QED
    BY <1>3, <2>5, <2>6, <2>7, <2>8 DEF HonestInv
<1> QED
  BY <1>4, <1>5 DEF OnOffer

\* An answer is taken up, as both kinds of offerer do: the first one binds p.
LEMMA HonestAnswerTaken ==
  ASSUME NEW st, Sound(st, inbox, NoAnswers), HonestInv(st, inbox), NEW p \in OPeers,
         inbox["off"] # <<>>, NEW box, box = Head(inbox["off"]), box.kind = "answer",
         NEW in, in = [inbox EXCEPT !["off"] = Tail(@)],
         Expects(st[p]), NEW st2, st2 = Taking(st, p, box)
  PROVE  HonestInv(st2, in)
<1>1. /\ p \in Peers /\ "off" \in Nodes /\ inbox \in Mailboxes /\ Frames(inbox)
      /\ st \in [Peers -> PeerState] /\ st[p] \in PeerState /\ Told(st, p)
  BY DEF Peers, Nodes, Sound, KeyInv, PeersTyped, HonestInv, ToldTrue
<1>2. /\ MailKept(in, inbox) /\ 1 \in DOMAIN inbox["off"] /\ box = inbox["off"][1]
      /\ box.src \in APeers
  BY <1>1, HeadOfMail DEF Boxes, PeersOf, Other
<1>3. /\ in["ans"] = inbox["ans"]
      /\ \A k \in DOMAIN in["off"] : /\ k + 1 \in DOMAIN inbox["off"] /\ k + 1 > 1
                                     /\ in["off"][k] = inbox["off"][k + 1]
  <2>1. inbox["off"] \in Seq(Presence \cup Box)
    BY <1>1 DEF Mailboxes
  <2>2. in["ans"] = inbox["ans"] /\ in["off"] = Tail(inbox["off"])
    BY <1>1 DEF Mailboxes, Nodes
  <2>3. \A k \in DOMAIN Tail(inbox["off"]) :
          /\ k \in Nat /\ k >= 1 /\ k + 1 \in DOMAIN inbox["off"]
          /\ Tail(inbox["off"])[k] = inbox["off"][k + 1]
    BY <2>1, HeadTailProperties
  <2>4. \A k \in Nat : k >= 1 => k + 1 > 1
    OBVIOUS
  <2> QED
    BY <2>2, <2>3, <2>4
<1>4. HonestInv(st, in)
  BY <1>1, <1>2, HonestMail
<1>5. /\ \A r \in Peers \ {p} : st2[r] = st[r]
      /\ st2[p].pc = st[p].pc /\ st2[p].verified = st[p].verified
      /\ st2[p].stage = st[p].stage
      /\ st2[p].remote = Answerer(p, box)
      /\ st2[p].secret = (box.key # None) /\ st2[p].fs = (box.key # None)
  BY <1>1 DEF Taking, PeerState
<1>6. /\ \A r \in OPeers \ {p} : st2[r] = st[r]
      /\ \A r \in APeers : st2[r] = st[r]
      /\ \A r \in OPeers : st2[r].stage = st[r].stage
  BY <1>5, NoneIsNobody DEF Peers
<1>7. /\ ~Given(st, p) /\ st[p].pc # "connected" /\ ~st[p].verified
      /\ (Given(st2, p) => AnswerTo(box, p))
  BY <1>1, <1>5, NoneIsNobody DEF Told, Given, Expects, Answerer, AnswerTo
<1>8. Told(st2, p)
  BY <1>2, <1>5, <1>7 DEF Told, HonestInv, KeyedFirst
<1>9. /\ \A r \in OPeers : QuietAns(st, inbox, r) => QuietAns(st2, in, r)
      /\ \A r \in OPeers : QuietAns(st, in, r) => QuietAns(st2, in, r)
  BY <1>3, <1>6 DEF QuietAns, Under
<1>10. NoneUnder(st2, in)
  <2> SUFFICES ASSUME NEW r \in OPeers, Given(st2, r), ~st2[r].secret
               PROVE  /\ QuietAns(st2, in, r)
                      /\ \A k \in DOMAIN in["off"] : ~AnswerUnder(in["off"][k], r)
    BY DEF NoneUnder
  <2>1. CASE r = p
    <3>1. AnswerTo(box, p) /\ box.key = None
      BY <2>1, <1>5, <1>7
    <3>2. /\ QuietAns(st, inbox, p)
          /\ \A l \in DOMAIN inbox["off"] : l > 1 => ~AnswerUnder(inbox["off"][l], p)
      BY <3>1, <1>2 DEF HonestInv, KeyedFirst
    <3> QED
      BY <2>1, <3>2, <1>3, <1>9
  <2>2. CASE r # p
    BY <2>2, <1>4, <1>6, <1>9 DEF HonestInv, NoneUnder, Given
  <2> QED
    BY <2>1, <2>2
<1>11. ToldTrue(st2)
  BY <1>4, <1>6, <1>8 DEF HonestInv, ToldTrue, Told, Given
<1>12. KeyedFirst(st2, in)
  BY <1>4, <1>6, <1>9 DEF HonestInv, KeyedFirst
<1>13. OneAtATime(st2)
  <2>1. \A q \in APeers : Alive(st2, q) = Alive(st, q)
    BY <1>6 DEF Alive
  <2>2. ASSUME NEW q \in APeers, st2[q].stage = "answering"
        PROVE  st2[q].by = "run" /\ \A r \in APeers : st2[r].stage = "answering" => r = q
    BY <1>4, <1>6, <2>2 DEF HonestInv, OneAtATime
  <2>3. ASSUME NEW q \in APeers, NEW r \in OPeers, Alive(st2, q), st2[q].remote = r
        PROVE  st2[r].stage = "offered"
    BY <1>4, <1>6, <2>1, <2>3 DEF HonestInv, OneAtATime
  <2> QED
    BY <2>2, <2>3 DEF OneAtATime
<1> QED
  BY <1>10, <1>11, <1>12, <1>13 DEF HonestInv

\* A later one only changes what is said, to what is true already.
LEMMA HonestAnswerIdle ==
  ASSUME NEW st, Sound(st, inbox, NoAnswers), HonestInv(st, inbox), NEW p \in OPeers,
         inbox["off"] # <<>>, NEW box, box = Head(inbox["off"]), box.kind = "answer",
         Opens(st, p, box), NEW st2, st2 = [st EXCEPT ![p].fs = (box.key # None)]
  PROVE  HonestInv(st2, inbox)
<1>1. /\ p \in Peers /\ "off" \in Nodes /\ inbox \in Mailboxes /\ Frames(inbox)
      /\ st \in [Peers -> PeerState] /\ st[p] \in PeerState /\ Told(st, p)
  BY DEF Peers, Nodes, Sound, KeyInv, PeersTyped, HonestInv, ToldTrue
<1>2. 1 \in DOMAIN inbox["off"] /\ box = inbox["off"][1]
  BY <1>1, HeadOfMail DEF Boxes
<1>3. /\ \A r \in Peers \ {p} : st2[r] = st[r]
      /\ st2[p].pc = st[p].pc /\ st2[p].verified = st[p].verified
      /\ st2[p].stage = st[p].stage /\ st2[p].claim = st[p].claim
      /\ st2[p].remote = st[p].remote /\ st2[p].secret = st[p].secret
      /\ st2[p].fs = (box.key # None)
  BY <1>1 DEF PeerState
<1>4. ASSUME Given(st, p), box.key # None
      PROVE  st[p].secret
  <2>1. AnswerUnder(box, p)
    BY <1>4 DEF Opens, AnswerUnder
  <2> QED
    BY <1>2, <1>4, <2>1 DEF HonestInv, NoneUnder
<1>5. GoesOn(st, st2, p)
  BY <1>1, <1>3, <1>4 DEF GoesOn, Told
<1> QED
  BY <1>3, <1>5, HonestOfferer

\* YawPeer.on_box, an answer
LEMMA HonestOnAnswer ==
  ASSUME NEW st, Sound(st, inbox, NoAnswers), HonestInv(st, inbox), NEW p \in OPeers,
         inbox["off"] # <<>>, NEW box, box = Head(inbox["off"]), box.kind = "answer",
         Opens(st, p, box),
         NEW in, in = [inbox EXCEPT !["off"] = Tail(@)], OnAnswer(p, st, in, box)
  PROVE  HonestInv(peer', inbox')
<1>1. /\ p \in Peers /\ "off" \in Nodes /\ inbox \in Mailboxes /\ Frames(inbox)
      /\ st \in [Peers -> PeerState] /\ st[p] \in PeerState
  BY DEF Peers, Nodes, Sound, KeyInv, PeersTyped
<1>2. MailKept(in, inbox)
  BY <1>1, HeadOfMail DEF Boxes
<1>3. CASE peer' = [st EXCEPT ![p].pc = "closed"] /\ inbox' = in
  <2>1. (\A r \in Peers \ {p} : peer'[r] = st[r]) /\ Left(st, peer', p)
    BY <1>1, <1>3 DEF Left
  <2>2. HonestInv(peer', inbox)
    BY <1>1, <2>1, LeftAside, HonestOfferer
  <2> QED
    BY <1>1, <1>2, <1>3, <2>2, HonestMail
<1>4. CASE Expects(st[p]) /\ peer' = Taking(st, p, box) /\ inbox' = in
  BY <1>4, HonestAnswerTaken
<1>5. CASE peer' = [st EXCEPT ![p].fs = (box.key # None)] /\ PumpFails("off")
  <2>1. MailKept(inbox', inbox)
    BY <1>1, <1>5, MailShortened DEF PumpFails
  <2>2. HonestInv(peer', inbox)
    BY <1>5, HonestAnswerIdle
  <2> QED
    BY <1>1, <2>1, <2>2, HonestMail
<1> QED
  BY <1>3, <1>4, <1>5 DEF OnAnswer, AnswerFs, Taking

\* YawPeer.on_box
LEMMA HonestOnBox ==
  ASSUME NEW st, Sound(st, inbox, NoAnswers), HonestInv(st, inbox),
         NEW n \in Nodes, NEW p \in PeersOf(n), st[p].pc \in {"new", "connected"},
         n = "ans" => \A r \in APeers : st[r].stage # "answering",
         Takes(n, {"ekey", "offer", "answer"}), OnBox(n, p, st, Rest(n), Head(inbox[n]))
  PROVE  HonestInv(peer', inbox')
<1> DEFINE box == Head(inbox[n])
           in == Rest(n)
<1>1. inbox \in Mailboxes /\ Frames(inbox) /\ inbox[n] # <<>> /\ box.kind \in Boxes
  BY DEF Sound, KeyInv, Takes, Boxes
<1>2. /\ box.src \in PeersOf(Other(n)) /\ MailKept(in, inbox)
      /\ box.kind = "offer" => n = "ans"
      /\ box.kind = "answer" => n = "off"
  BY <1>1, HeadOfMail DEF Rest
<1>3. Sound(st, in, NoAnswers) /\ HonestInv(st, in)
  BY <1>1, <1>2, SoundMail, HonestMail
<1>4. CASE peer' = st /\ inbox' = in
  BY <1>3, <1>4
<1>5. CASE OnEkey(n, p, st, in, box)
  <2> HIDE DEF box, in
  <2> QED
    BY <1>2, <1>3, <1>5, HonestOnEkey
<1>6. CASE Opens(st, p, box) /\ box.kind = "offer" /\ OnOffer(p, st, in, box)
  <2>1. n = "ans" /\ p \in APeers
    BY <1>2, <1>6 DEF PeersOf
  <2> QED
    BY <1>1, <1>6, <2>1, HonestOnOffer DEF Rest
<1>7. CASE Opens(st, p, box) /\ box.kind = "answer" /\ OnAnswer(p, st, in, box)
  <2>1. n = "off" /\ p \in OPeers
    BY <1>2, <1>7 DEF PeersOf
  <2> QED
    BY <1>1, <1>7, <2>1, HonestOnAnswer DEF Rest
<1> QED
  BY <1>4, <1>5, <1>6, <1>7 DEF OnBox

\* Node._on_from
LEMMA HonestFromPeer ==
  ASSUME TypeOK, KeyInv(peer, inbox, NoAnswers), HonestInv(peer, inbox),
         NEW n \in Nodes, FromPeer(n)
  PROVE  HonestInv(peer', inbox')
<1>1. /\ inbox \in Mailboxes /\ Frames(inbox) /\ peer \in [Peers -> PeerState] /\ CurTyped(cur)
      /\ inbox[n] # <<>> /\ Head(inbox[n]).kind \in Boxes /\ Sound(peer, inbox, NoAnswers)
  BY Typing DEF KeyInv, FromPeer, Takes, Boxes, Sound, PeersTyped
<1>2. n = "ans" => \A r \in APeers : peer[r].stage # "answering"
  BY DEF FromPeer, Takes, Busy, PeersOf, HonestInv, OneAtATime
<1>3. CASE ~Admits(n)
  <2>1. MailKept(Rest(n), inbox) /\ inbox' = Rest(n) /\ peer' = peer
    BY <1>1, <1>3, HeadOfMail DEF Rest, FromPeer
  <2> QED
    BY <1>1, <2>1, HonestMail
<1>4. CASE Admits(n) /\ Usable(n)
  <2>1. /\ cur[n] \in PeersOf(n) /\ peer[cur[n]].pc \in {"new", "connected"}
        /\ OnBox(n, cur[n], peer, Rest(n), Head(inbox[n]))
    BY <1>1, <1>4 DEF FromPeer, Usable, CurTyped
  <2> QED
    BY <1>1, <1>2, <2>1, HonestOnBox DEF FromPeer
<1>5. CASE Admits(n) /\ ~Usable(n)
  <2>1. PICK p \in PeersOf(n) :
          Free(p) /\ OnBox(n, p, WithNew(n, p), Rest(n), Head(inbox[n]))
    BY <1>5 DEF FromPeer
  <2>2. p \in Peers /\ NoAnswers \in [Peers -> Seq(BOOLEAN)]
    BY DEF PeersOf, Peers, NoAnswers
  <2>3. /\ PeersTyped(WithNew(n, p)) /\ WithNew(n, p)[p] = Born
        /\ \A r \in Peers \ {p} : Left(peer, WithNew(n, p), r)
        /\ KeyInv(WithNew(n, p), inbox, NoAnswers)
    BY <2>1, <2>2, NewPeer
  <2>4. HonestInv(WithNew(n, p), inbox)
    BY <2>1, HonestNew
  <2>5. n = "ans" => \A r \in APeers : WithNew(n, p)[r].stage # "answering"
    <3>1. \A r \in Peers \ {p} : WithNew(n, p)[r].stage = peer[r].stage
      BY <1>1, <2>3 DEF Left, PeerState
    <3> QED
      BY <1>2, <2>3, <3>1, BornFacts DEF Peers
  <2>6. Sound(WithNew(n, p), inbox, NoAnswers) /\ WithNew(n, p)[p].pc \in {"new", "connected"}
    BY <1>1, <2>3, BornFacts DEF Sound
  <2> QED
    BY <2>1, <2>4, <2>5, <2>6, HonestOnBox DEF FromPeer
<1> QED
  BY <1>3, <1>4, <1>5

\* YawPeer._offer_timer
LEMMA HonestOfferTimer ==
  ASSUME TypeOK, HonestInv(peer, inbox), NEW p \in OPeers, OfferTimer(p)
  PROVE  HonestInv(peer', inbox')
<1> DEFINE st == [peer EXCEPT ![p].timer = FALSE]
<1>1. p \in Peers /\ peer \in [Peers -> PeerState] /\ peer[p] \in PeerState /\ Told(peer, p)
  BY Typing DEF Peers, HonestInv, ToldTrue
<1>2. /\ st \in [Peers -> PeerState] /\ \A r \in Peers \ {p} : st[r] = peer[r]
      /\ st[p].stage = peer[p].stage /\ st[p].remote = peer[p].remote /\ st[p].pc = peer[p].pc
      /\ st[p].secret = peer[p].secret /\ st[p].fs = peer[p].fs
      /\ st[p].verified = peer[p].verified /\ st[p].claim = peer[p].claim
  BY <1>1 DEF PeerState
<1>3. IF peer[p].stage = "keying" THEN DoOffer(p, "timer", st) ELSE peer' = st
  BY DEF OfferTimer
<1> HIDE DEF st
<1>4. HonestInv(st, inbox)
  <2>1. GoesOn(peer, st, p)
    BY <1>1, <1>2 DEF GoesOn, Told
  <2> QED
    BY <1>2, <2>1, HonestOfferer
<1>5. HonestInv(peer', inbox)
  <2>1. CASE peer[p].stage = "keying"
    <3>1. ~Given(st, p)
      BY <1>1, <1>2, <2>1 DEF Told, Given
    <3> QED
      BY <1>2, <1>3, <1>4, <2>1, <3>1, HonestDoOffer DEF PeersTyped
  <2>2. CASE peer[p].stage # "keying"
    BY <1>3, <1>4, <2>2
  <2> QED
    BY <2>1, <2>2
<1> QED
  BY <1>5 DEF OfferTimer

\* The offer goes out, or is lost: what both kinds of offerer do.
OfferLeaves(st, st2, p) ==
  /\ \A r \in Peers \ {p} : st2[r] = st[r]
  /\ st2[p].remote = st[p].remote /\ st2[p].secret = st[p].secret
  /\ st2[p].pc = st[p].pc /\ st2[p].verified = st[p].verified
  /\ st2[p].claim = st[p].claim /\ st2[p].stage = "offered"
Sent(in, in2, box) ==
  \/ in2 = in
  \/ in2 = [in EXCEPT !["ans"] = Append(@, box)]
  \/ in2 = [in EXCEPT !["off"] = <<>>]

LEMMA HonestOfferSent ==
  ASSUME TypeOK, KeyInv(peer, inbox, NoAnswers), HonestInv(peer, inbox),
         NEW p \in OPeers, peer[p].stage = "gathering",
         NEW st2, OfferLeaves(peer, st2, p),
         NEW box, box.src = p, NEW in2, Sent(inbox, in2, box)
  PROVE  HonestInv(st2, in2)
<1>1. /\ p \in Peers /\ inbox \in Mailboxes /\ Frames(inbox) /\ "off" \in Nodes /\ "ans" \in Nodes
      /\ Told(peer, p) /\ ~Given(peer, p)
  BY Typing DEF Peers, KeyInv, Nodes, HonestInv, ToldTrue, Told
<1>2. HonestInv(st2, inbox)
  <2>1. GoesOn(peer, st2, p)
    BY <1>1 DEF GoesOn, Told, OfferLeaves
  <2> QED
    BY <2>1, HonestOfferer DEF OfferLeaves
<1>3. CASE in2 = [inbox EXCEPT !["off"] = <<>>]
  BY <1>1, <1>2, <1>3, MailShortened, HonestMail
<1>4. CASE in2 = [inbox EXCEPT !["ans"] = Append(@, box)]
  <2>1. /\ in2["off"] = inbox["off"]
        /\ \A k \in DOMAIN in2["ans"] :
             in2["ans"][k] = box \/ (k \in DOMAIN inbox["ans"] /\ in2["ans"][k] = inbox["ans"][k])
    <3>1. inbox["ans"] \in Seq(Presence \cup Box)
      BY <1>1 DEF Mailboxes
    <3>2. in2["off"] = inbox["off"] /\ in2["ans"] = Append(inbox["ans"], box)
      BY <1>1, <1>4 DEF Mailboxes, Nodes
    <3> QED
      BY <3>1, <3>2
  <2>2. \A x \in OPeers \ {p} : QuietAns(st2, inbox, x) => QuietAns(st2, in2, x)
    BY <2>1 DEF QuietAns, OfferUnder
  <2>3. \A x \in OPeers : Given(st2, x) => x # p
    BY <1>1 DEF Given, OfferLeaves
  <2>4. \A x \in OPeers, k \in DOMAIN inbox["off"] : AnswerTo(inbox["off"][k], x) => x # p
    BY DEF HonestInv, KeyedFirst
  <2>5. NoneUnder(st2, in2)
    BY <1>2, <2>1, <2>2, <2>3 DEF HonestInv, NoneUnder
  <2>6. KeyedFirst(st2, in2)
    BY <1>2, <2>1, <2>2, <2>4 DEF HonestInv, KeyedFirst
  <2> QED
    BY <1>2, <2>5, <2>6 DEF HonestInv
<1> QED
  BY <1>2, <1>3, <1>4 DEF Sent

LEMMA HonestOfferGathered ==
  ASSUME TypeOK, KeyInv(peer, inbox, NoAnswers), HonestInv(peer, inbox),
         NEW p \in OPeers, OfferGathered(p)
  PROVE  HonestInv(peer', inbox')
<1> DEFINE eph == Fs["off"] /\ peer[p].epk # None
           box == [kind |-> "offer", src |-> p, key |-> IF eph THEN peer[p].epk ELSE None,
                   to |-> None]
<1>1. p \in Peers /\ peer \in [Peers -> PeerState] /\ peer[p] \in PeerState
  BY Typing DEF Peers
<1>2. /\ peer[p].stage = "gathering" /\ box.src = p
      /\ peer' = [peer EXCEPT ![p].stage = "offered", ![p].fs = eph, ![p].by = "none"]
      /\ Sent(inbox, inbox', box)
  BY DEF OfferGathered, Sent, Relayed, Other
<1> HIDE DEF eph, box
<1>3. OfferLeaves(peer, peer', p)
  BY <1>1, <1>2 DEF PeerState, OfferLeaves
<1> QED
  BY <1>2, <1>3, HonestOfferSent

\* The answer goes out, or is lost.
LEMMA HonestAnswerGathered ==
  ASSUME TypeOK, KeyInv(peer, inbox, NoAnswers), HonestInv(peer, inbox),
         NEW q \in APeers, AnswerGathered(q)
  PROVE  HonestInv(peer', inbox')
<1> DEFINE key == IF peer[q].used THEN peer[q].epk ELSE None
           box == [kind |-> "answer", src |-> q, key |-> key, to |-> peer[q].remote]
<1>1. /\ q \in Peers /\ peer \in [Peers -> PeerState] /\ peer[q] \in PeerState
      /\ inbox \in Mailboxes /\ Frames(inbox) /\ "off" \in Nodes /\ "ans" \in Nodes
  BY Typing DEF Peers, KeyInv, Nodes
<1>2. /\ peer[q].stage = "answering"
      /\ peer' = [peer EXCEPT ![q].stage = "idle", ![q].fs = peer[q].used, ![q].by = "none"]
      /\ inbox' \in {inbox, Relayed("ans", box, inbox), [inbox EXCEPT !["ans"] = <<>>]}
  BY DEF AnswerGathered, AnswerKeying, Relayed
<1>3. /\ box.to = peer[q].remote
      /\ \A x \in OPeers : AnswerUnder(box, x) => Under(peer, x, q)
  BY <1>2, NoneIsNobody DEF AnswerUnder, Under
<1> HIDE DEF key, box
<1>4. /\ \A r \in Peers \ {q} : peer'[r] = peer[r]
      /\ peer'[q].remote = peer[q].remote /\ peer'[q].pc = peer[q].pc
      /\ peer'[q].stage = "idle"
  BY <1>1, <1>2 DEF PeerState
<1>5. HonestInv(peer', inbox)
  <2>1. AnswersOn(peer, peer', q)
    BY <1>2, <1>4 DEF AnswersOn, Under, Alive
  <2> QED
    BY <1>4, <2>1, HonestAnswerer
<1>6. CASE inbox' = [inbox EXCEPT !["ans"] = <<>>]
  BY <1>1, <1>5, <1>6, MailShortened, HonestMail
<1>7. CASE inbox' = [inbox EXCEPT !["off"] = Append(@, box)]
  <2>1. /\ inbox'["ans"] = inbox["ans"]
        /\ \A k \in DOMAIN inbox'["off"] :
             \/ k \in DOMAIN inbox["off"] /\ inbox'["off"][k] = inbox["off"][k]
             \/ inbox'["off"][k] = box /\ \A l \in DOMAIN inbox'["off"] : ~(l > k)
    <3>1. inbox["off"] \in Seq(Presence \cup Box)
      BY <1>1 DEF Mailboxes
    <3>2. inbox'["ans"] = inbox["ans"] /\ inbox'["off"] = Append(inbox["off"], box)
      BY <1>1, <1>7 DEF Mailboxes, Nodes
    <3>3. DOMAIN Append(inbox["off"], box) = 1 .. Len(inbox["off"]) + 1
      BY <3>1, AppendProperties
    <3> QED
      BY <3>1, <3>2, <3>3
  <2>2. /\ \A r \in OPeers : peer'[r] = peer[r]
        /\ \A r \in APeers : peer'[r].stage # "answering"
    <3>1. \A r \in APeers : peer[r].stage = "answering" => r = q
      BY <1>2 DEF HonestInv, OneAtATime
    <3> QED
      BY <1>4, <3>1, NoneIsNobody DEF Peers
  <2>3. \A x \in OPeers : QuietAns(peer, inbox, x) => ~AnswerUnder(box, x)
    BY <1>3 DEF QuietAns
  <2>4. \A x \in OPeers : QuietAns(peer', inbox, x) => QuietAns(peer', inbox', x)
    BY <2>1 DEF QuietAns
  <2>5. NoneUnder(peer', inbox')
    <3> SUFFICES ASSUME NEW x \in OPeers, Given(peer', x), ~peer'[x].secret
                 PROVE  /\ QuietAns(peer', inbox', x)
                        /\ \A k \in DOMAIN inbox'["off"] : ~AnswerUnder(inbox'["off"][k], x)
      BY DEF NoneUnder
    <3>1. QuietAns(peer', inbox', x) /\ \A k \in DOMAIN inbox["off"] : ~AnswerUnder(inbox["off"][k], x)
      BY <1>5, <2>4 DEF HonestInv, NoneUnder
    <3>2. ~AnswerUnder(box, x)
      <4>1. Given(peer, x) /\ ~peer[x].secret
        BY <2>2 DEF Given
      <4> QED
        BY <2>3, <4>1 DEF HonestInv, NoneUnder
    <3> QED
      BY <2>1, <3>1, <3>2
  <2>6. KeyedFirst(peer', inbox')
    <3> SUFFICES ASSUME NEW x \in OPeers, NEW k \in DOMAIN inbox'["off"], AnswerTo(inbox'["off"][k], x)
                 PROVE  /\ peer'[x].stage = "offered" /\ QuietAns(peer', inbox', x)
                        /\ inbox'["off"][k].key = None =>
                             \A l \in DOMAIN inbox'["off"] : l > k => ~AnswerUnder(inbox'["off"][l], x)
      BY DEF KeyedFirst
    <3>1. CASE k \in DOMAIN inbox["off"] /\ inbox'["off"][k] = inbox["off"][k]
      <4>1. /\ peer[x].stage = "offered" /\ QuietAns(peer, inbox, x)
            /\ inbox["off"][k].key = None =>
                 \A l \in DOMAIN inbox["off"] : l > k => ~AnswerUnder(inbox["off"][l], x)
        BY <3>1 DEF HonestInv, KeyedFirst
      <4>2. QuietAns(peer', inbox', x)
        BY <1>5, <2>4, <3>1 DEF HonestInv, KeyedFirst
      <4> QED
        BY <2>1, <2>2, <2>3, <3>1, <4>1, <4>2
    <3>2. CASE inbox'["off"][k] = box /\ \A l \in DOMAIN inbox'["off"] : ~(l > k)
      <4>1. peer[q].remote = x
        BY <1>3, <3>2 DEF AnswerTo
      <4>2. Alive(peer, q)
        BY <1>2 DEF Alive
      <4>3. peer'[x].stage = "offered"
        BY <2>2, <4>1, <4>2 DEF HonestInv, OneAtATime
      <4>4. \A j \in DOMAIN inbox["ans"] : ~OfferUnder(inbox["ans"][j], x)
        BY <4>1, <4>2 DEF KeyInv, OneOffer, Unbound, OfferUnder
      <4>5. QuietAns(peer', inbox', x)
        BY <2>1, <2>2, <4>4 DEF QuietAns, Under
      <4> QED
        BY <3>2, <4>3, <4>5
    <3> QED
      BY <2>1, <3>1, <3>2
  <2> QED
    BY <1>5, <2>5, <2>6 DEF HonestInv
<1> QED
  BY <1>2, <1>5, <1>6, <1>7 DEF Relayed, Other

\* A hello, a link lost or a time limit.
LEMMA HonestAlone ==
  ASSUME TypeOK, HonestInv(peer, inbox), NEW p \in Peers,
         Hello(p) \/ LinkCut(p) \/ EndFails(p) \/ IceFails(p) \/ Stale(p)
  PROVE  HonestInv(peer', inbox')
<1>1. peer \in [Peers -> PeerState] /\ peer[p] \in PeerState /\ inbox' = inbox
  BY Typing DEF Hello, LinkCut, EndFails, IceFails, Stale, Keeps
<1>2. /\ \A r \in Peers \ {p} : peer'[r] = peer[r]
      /\ peer'[p].stage = peer[p].stage /\ peer'[p].remote = peer[p].remote
      /\ peer'[p].secret = peer[p].secret /\ peer'[p].fs = peer[p].fs
      /\ peer'[p].by = peer[p].by /\ peer'[p].used = peer[p].used /\ peer'[p].epk = peer[p].epk
      /\ \/ /\ peer[p].pc = "connected" /\ peer'[p].pc = "connected"
            /\ peer'[p].claim = peer[p].fs
         \/ /\ peer'[p].pc \in {peer[p].pc, "failed"}
            /\ peer'[p].verified = peer[p].verified /\ peer'[p].claim = peer[p].claim
  <2>1. CASE Hello(p)
    BY <1>1, <2>1 DEF Hello, PeerState
  <2>2. CASE peer' = [peer EXCEPT ![p].pc = "failed"]
    BY <1>1, <2>2 DEF PeerState
  <2>3. CASE Stale(p)
    BY <1>1, <2>3 DEF Stale, PeerState
  <2> QED
    BY <2>1, <2>2, <2>3 DEF LinkCut, EndFails, IceFails
<1>3. CASE p \in OPeers
  <2>1. Told(peer, p)
    BY <1>3 DEF HonestInv, ToldTrue
  <2>2. GoesOn(peer, peer', p)
    BY <1>2, <2>1 DEF GoesOn, Told
  <2> QED
    BY <1>1, <1>2, <1>3, <2>2, HonestOfferer
<1>4. CASE p \in APeers
  <2>1. AnswersOn(peer, peer', p)
    BY <1>2 DEF AnswersOn, Under, Alive
  <2> QED
    BY <1>1, <1>2, <1>4, <2>1, HonestAnswerer
<1> QED
  BY <1>3, <1>4 DEF Peers

\* ICE and DTLS bring a link up.
LEMMA HonestLinkUp ==
  ASSUME TypeOK, HonestInv(peer, inbox), NEW p \in OPeers, NEW q \in APeers, LinkUp(p, q)
  PROVE  HonestInv(peer', inbox')
<1>1. /\ p \in Peers /\ q \in Peers /\ p # q /\ peer \in [Peers -> PeerState]
      /\ peer[p] \in PeerState /\ peer[q] \in PeerState
  BY Typing, NoneIsNobody DEF Peers
<1>2. /\ peer[p].remote = q /\ peer[q].pc = "new" /\ inbox' = inbox
      /\ peer' = [peer EXCEPT ![p].pc = "connected", ![q].pc = "connected"]
  BY DEF LinkUp, Matched, Keeps
<1>3. /\ \A r \in Peers \ {p, q} : peer'[r] = peer[r]
      /\ \A r \in {p, q} : /\ peer'[r].stage = peer[r].stage /\ peer'[r].remote = peer[r].remote
                           /\ peer'[r].secret = peer[r].secret /\ peer'[r].fs = peer[r].fs
                           /\ peer'[r].by = peer[r].by /\ peer'[r].used = peer[r].used
                           /\ peer'[r].epk = peer[r].epk /\ peer'[r].claim = peer[r].claim
                           /\ peer'[r].verified = peer[r].verified
  <2>1. \A r \in Peers \ {p, q} : peer'[r] = peer[r]
    BY <1>1, <1>2
  <2>2. /\ peer'[p] = [peer[p] EXCEPT !.pc = "connected"]
        /\ peer'[q] = [peer[q] EXCEPT !.pc = "connected"]
    BY <1>1, <1>2
  <2> QED
    BY <1>1, <2>1, <2>2 DEF PeerState
<1>4. ASSUME NEW r \in OPeers
      PROVE  GoesOn(peer, peer', r)
  <2>1. Told(peer, r)
    BY DEF HonestInv, ToldTrue
  <2>2. CASE r = p
    BY <1>2, <1>3, <2>1, <2>2 DEF GoesOn, Told, Given
  <2>3. CASE r # p
    <3>1. peer'[r] = peer[r]
      BY <1>3, <2>3, NoneIsNobody DEF Peers
    <3> QED
      BY <2>1, <3>1 DEF GoesOn, Told
  <2> QED
    BY <2>2, <2>3
<1>5. ASSUME NEW r \in APeers
      PROVE  AnswersOn(peer, peer', r)
  <2>1. CASE r = q
    BY <1>2, <1>3, <2>1 DEF AnswersOn, Under, Alive
  <2>2. CASE r # q
    <3>1. peer'[r] = peer[r]
      BY <1>3, <2>2, NoneIsNobody DEF Peers
    <3> QED
      BY <3>1 DEF AnswersOn, Under, Alive
  <2> QED
    BY <2>1, <2>2
<1> QED
  BY <1>2, <1>4, <1>5, HonestAside DEF Aside

LEMMA HonestPump ==
  ASSUME TypeOK, KeyInv(peer, inbox, NoAnswers), HonestInv(peer, inbox),
         NEW n \in Nodes, Pump(n)
  PROVE  HonestInv(peer', inbox')
<1>1. ASSUME inbox[n] # <<>>
      PROVE  MailKept(Rest(n), inbox)
  BY <1>1, Typing, MailShortened DEF Rest, KeyInv
<1>2. CASE PeerJoin(n)
  BY <1>1, <1>2, HonestTryConnect DEF PeerJoin, Takes
<1>3. CASE PeerLeave(n)
  BY <1>1, <1>3, Typing, HonestMail DEF PeerLeave, Takes
<1>4. CASE FromPeer(n)
  BY <1>4, HonestFromPeer
<1> QED
  BY <1>2, <1>3, <1>4 DEF Pump

LEMMA HonestNode ==
  ASSUME TypeOK, KeyInv(peer, inbox, NoAnswers), HonestInv(peer, inbox), NEW n \in Nodes,
         \/ Connect(n) \/ Accept(n) \/ Reconcile
         \/ Forget(n) \/ Blip(n) \/ ServerNotices(n) \/ StartSweep
  PROVE  HonestInv(peer', inbox')
<1>1. inbox \in Mailboxes /\ MailKept(inbox, inbox) /\ "off" \in Nodes
  BY Typing, MailSame DEF KeyInv, Nodes
<1>2. CASE Connect(n)
  <2>1. PICK in : /\ MailKept(in, inbox)
                  /\ \/ TryConnectAt(n, "run", in)
                     \/ inbox' = in /\ UNCHANGED <<cur, recon, peer>>
    BY <1>2, ConnectMail
  <2>2. CASE TryConnectAt(n, "run", in)
    BY <2>1, <2>2, HonestTryConnect
  <2>3. CASE inbox' = in /\ UNCHANGED peer
    BY <1>1, <2>1, <2>3, HonestMail
  <2> QED
    BY <2>1, <2>2, <2>3
<1>3. CASE Accept(n)
  <2>1. CASE TryConnectAt(n, "user", inbox)
    BY <1>1, <2>1, HonestTryConnect
  <2>2. CASE UNCHANGED <<inbox, peer>>
    BY <2>2
  <2> QED
    BY <1>3, <2>1, <2>2 DEF Accept
<1>4. CASE Reconcile
  <2>1. TryConnectAt("off", "reconcile", inbox)
    BY <1>4 DEF Reconcile, TryConnectAt
  <2> QED
    BY <1>1, <2>1, HonestTryConnect
<1>5. CASE Forget(n) \/ Blip(n) \/ ServerNotices(n) \/ StartSweep
  BY <1>1, <1>5, AwayMail, HonestMail
<1> QED
  BY <1>2, <1>3, <1>4, <1>5

LEMMA HonestInit ==
  ASSUME Init
  PROVE  HonestInv(peer, inbox)
<1>1. /\ inbox = [n \in Nodes |-> <<>>] /\ peer = [p \in Peers |-> [Born EXCEPT !.pc = "closed"]]
  BY DEF Init
<1>2. \A p \in Peers : /\ peer[p].pc = "closed" /\ peer[p].remote = None /\ ~peer[p].verified
                       /\ peer[p].stage = "idle" /\ ~peer[p].fs
  BY <1>1 DEF Born
<1>3. \A p \in OPeers \cup APeers : p \in Peers
  BY DEF Peers
<1>4. DOMAIN inbox["off"] = {}
  BY <1>1 DEF Nodes
<1>5. \A p \in OPeers : ~Given(peer, p)
  BY <1>2, <1>3, NoneIsNobody DEF Given
<1> QED
  BY <1>2, <1>3, <1>4, <1>5
     DEF HonestInv, ToldTrue, Told, NoneUnder, KeyedFirst, OneAtATime, Alive

LEMMA HonestStep ==
  ASSUME SessionInv, HonestInv(peer, inbox), Next
  PROVE  HonestInv(peer', inbox')
<1>1. TypeOK /\ KeyInv(peer, inbox, NoAnswers) /\ OPeers \subseteq Peers /\ "off" \in Nodes
  BY DEF SessionInv, Core, Peers, Nodes
<1>2. ASSUME NEW n \in Nodes,
             Connect(n) \/ Accept(n) \/ Forget(n) \/ Pump(n) \/ Blip(n) \/ ServerNotices(n)
      PROVE  HonestInv(peer', inbox')
  BY <1>1, <1>2, HonestNode, HonestPump
<1>3. CASE StartSweep \/ Reconcile
  BY <1>1, <1>3, HonestNode
<1>4. ASSUME NEW p \in OPeers, OfferTimer(p) \/ OfferGathered(p) \/ Stale(p)
      PROVE  HonestInv(peer', inbox')
  BY <1>1, <1>4, HonestOfferTimer, HonestOfferGathered, HonestAlone
<1>5. ASSUME NEW q \in APeers, AnswerGathered(q)
      PROVE  HonestInv(peer', inbox')
  BY <1>1, <1>5, HonestAnswerGathered
<1>6. ASSUME NEW p \in OPeers, NEW q \in APeers, LinkUp(p, q)
      PROVE  HonestInv(peer', inbox')
  BY <1>1, <1>6, HonestLinkUp
<1>7. ASSUME NEW p \in Peers, Hello(p) \/ LinkCut(p) \/ EndFails(p) \/ IceFails(p)
      PROVE  HonestInv(peer', inbox')
  BY <1>1, <1>7, HonestAlone
<1> QED
  BY <1>2, <1>3, <1>4, <1>5, <1>6, <1>7 DEF Next

\* Whatever is lost, late or mixed up: the user of an offerer is told "forward-secret"
\* only of a session whose answer came under ephemeral keys.  (YawPeer.session_fs is
\* what the last box set it to; the inbox keeps such boxes in an order that suits.)
THEOREM OffererToldTrue == Spec => []OffererHonest
<1>1. Init => HonestInv(peer, inbox)
  BY HonestInit
<1>2. SessionInv /\ HonestInv(peer, inbox) /\ [Next]_vars => HonestInv(peer, inbox)'
  <2> SUFFICES ASSUME SessionInv, HonestInv(peer, inbox), [Next]_vars
               PROVE  HonestInv(peer, inbox)'
    OBVIOUS
  <2>1. HonestInv(peer, inbox)' <=> HonestInv(peer', inbox')
    BY DEF HonestInv, ToldTrue, NoneUnder, KeyedFirst, OneAtATime, Told, Given, QuietAns, Under,
           Alive
  <2>2. CASE UNCHANGED vars
    BY <2>1, <2>2 DEF vars
  <2> QED
    BY <2>1, <2>2, HonestStep
<1>3. HonestInv(peer, inbox) => OffererHonest
  BY DEF HonestInv, ToldTrue, Told, OffererHonest
<1> QED
  BY <1>1, <1>2, <1>3, SessionInvariant, PTL DEF Spec

-----------------------------------------------------------------------------
(* BrowserSession: the same of an offerer that is a page, whose answerer is *)
(* not: it answers one offer at a time.                                     *)

\* Node._tryConnect
LEMMA PageHonestTryConnect ==
  ASSUME TypeOK, KeyInv(peer, inbox, NoAnswers), HonestInv(peer, inbox),
         NEW in, MailKept(in, inbox), NEW n \in Nodes, PageTryConnect(n, in)
  PROVE  HonestInv(peer', inbox')
<1>1. inbox \in Mailboxes /\ in \in Mailboxes /\ Frames(in) /\ HonestInv(peer, in)
  BY Typing, HonestMail DEF MailKept
<1>2. CASE inbox' = in /\ UNCHANGED peer
  BY <1>1, <1>2
<1>3. CASE \E p \in OPeers : Free(p) /\ PageStartOffer(p, in)
  <2>1. PICK p \in OPeers : Free(p) /\ PageStartOffer(p, in)
    BY <1>3
  <2>2. /\ "off" \in Nodes /\ p \in PeersOf("off") /\ p \in Peers
        /\ NoAnswers \in [Peers -> Seq(BOOLEAN)]
    BY DEF Nodes, PeersOf, Peers, NoAnswers
  <2> DEFINE st == WithNew("off", p)
  <2>3. /\ st \in [Peers -> PeerState] /\ st[p] \in PeerState
        /\ st[p].stage = "idle" /\ st[p].remote = None /\ st[p].pc = "new"
        /\ ~st[p].verified /\ ~st[p].fs
    <3>1. PeersTyped(st) /\ st[p] = Born
      BY <2>1, <2>2, NewPeer
    <3> QED
      BY <2>2, <3>1 DEF PeersTyped, Born
  <2>4. HonestInv(st, in)
    BY <1>1, <2>1, <2>2, HonestNew, HonestMail
  <2>5. /\ peer' = [st EXCEPT ![p].sent = TRUE, ![p].stage = "keying", ![p].timer = TRUE]
        /\ inbox' = SendTo("off", Ekey(p), in)
    BY <2>1 DEF PageStartOffer
  <2> HIDE DEF st
  <2>6. (\A r \in Peers \ {p} : peer'[r] = st[r]) /\ GoesOn(st, peer', p)
    BY <2>2, <2>3, <2>5, NoneIsNobody DEF PeerState, GoesOn, Given
  <2>7. MailKept(inbox', in)
    BY <1>1, <2>2, <2>5, MailSent
  <2>8. HonestInv(peer', in)
    BY <2>4, <2>6, HonestOfferer
  <2> QED
    BY <1>1, <2>7, <2>8, HonestMail
<1> QED
  BY <1>2, <1>3 DEF PageTryConnect

\* Peer._doOffer
LEMMA PageHonestDoOffer ==
  ASSUME NEW st, PeersTyped(st), NEW in, HonestInv(st, in), NEW p \in OPeers,
         st[p].stage = "keying", NEW st2, st2 = PageDoOffer(p, st)
  PROVE  HonestInv(st2, in)
<1>1. /\ p \in Peers /\ st \in [Peers -> PeerState] /\ st[p] \in PeerState /\ Told(st, p)
      /\ ~Given(st, p)
  BY DEF Peers, PeersTyped, HonestInv, ToldTrue, Told
<1>2. /\ \A r \in Peers \ {p} : st2[r] = st[r]
      /\ st2[p].remote = st[p].remote /\ st2[p].secret = st[p].secret
      /\ st2[p].fs = st[p].fs /\ st2[p].verified = st[p].verified
      /\ st2[p].claim = st[p].claim /\ st2[p].pc = st[p].pc
  BY <1>1 DEF PageDoOffer, PeerState, Offered
<1>3. GoesOn(st, st2, p)
  BY <1>1, <1>2 DEF GoesOn, Told
<1> QED
  BY <1>2, <1>3, HonestOfferer

\* Peer._onEkey
LEMMA PageHonestOnEkey ==
  ASSUME NEW in, NEW st, Sound(st, in, NoAnswers), HonestInv(st, in), NEW p \in OPeers,
         NEW box, box.src \in APeers, PageOnEkey("off", p, st, in, box)
  PROVE  HonestInv(peer', inbox')
<1> DEFINE held == Holding(st, p, box.src)
<1>1. /\ p \in Peers /\ p \in PeersOf("off") /\ "off" \in Nodes /\ box.src \in Peers
      /\ in \in Mailboxes /\ Frames(in)
  BY DEF PeersOf, Nodes, Peers, Sound, KeyInv
<1>2. CASE peer' = st /\ inbox' = in
  BY <1>2
<1>3. ASSUME st[p].epk = None
      PROVE  PeersTyped(held) /\ HonestInv(held, in) /\ held[p].stage = st[p].stage
  BY <1>1, <1>3, HonestHeld
<1> HIDE DEF held
<1>4. CASE /\ st[p].epk = None
           /\ peer' = (IF st[p].stage = "keying" THEN PageDoOffer(p, held) ELSE held)
           /\ inbox' = (IF st[p].sent THEN in ELSE SendTo("off", Ekey(p), in))
  <2>1. MailKept(inbox', in)
    BY <1>1, <1>4, MailSent, MailSame
  <2>2. HonestInv(peer', in)
    <3>1. CASE st[p].stage = "keying"
      BY <1>3, <1>4, <3>1, PageHonestDoOffer
    <3>2. CASE st[p].stage # "keying"
      BY <1>3, <1>4, <3>2
    <3> QED
      BY <3>1, <3>2
  <2> QED
    BY <1>1, <2>1, <2>2, HonestMail
<1> QED
  BY <1>2, <1>4 DEF PageOnEkey, held, Holding

\* Peer._onBox of an offerer
LEMMA PageHonestOnBox ==
  ASSUME NEW st, Sound(st, inbox, NoAnswers), HonestInv(st, inbox),
         NEW p \in OPeers, Arrives("off", {"ekey", "offer", "answer"}),
         PageOnBox("off", p, st, Rest("off"), Head(inbox["off"]))
  PROVE  HonestInv(peer', inbox')
<1> DEFINE box == Head(inbox["off"])
           in == Rest("off")
<1>1. /\ inbox \in Mailboxes /\ Frames(inbox) /\ inbox["off"] # <<>> /\ box.kind \in Boxes
      /\ "off" \in Nodes
  BY DEF Sound, KeyInv, Arrives, Boxes, Nodes
<1>2. box.src \in APeers /\ MailKept(in, inbox) /\ box.kind # "offer"
  BY <1>1, HeadOfMail DEF Rest, PeersOf, Other
<1>3. Sound(st, in, NoAnswers) /\ HonestInv(st, in)
  BY <1>1, <1>2, SoundMail, HonestMail
<1>4. CASE peer' = st /\ inbox' = in
  BY <1>3, <1>4
<1>5. CASE PageOnEkey("off", p, st, in, box)
  <2> HIDE DEF box, in
  <2> QED
    BY <1>2, <1>3, <1>5, PageHonestOnEkey
<1>6. CASE Opens(st, p, box) /\ box.kind = "answer" /\ PageOnAnswer(p, st, box) /\ inbox' = in
  <2>1. CASE Expects(st[p]) /\ peer' = Taking(st, p, box)
    BY <1>1, <1>6, <2>1, HonestAnswerTaken DEF Rest
  <2>2. CASE peer' = [st EXCEPT ![p].fs = (box.key # None)]
    <3>1. HonestInv(peer', inbox)
      BY <1>1, <1>6, <2>2, HonestAnswerIdle
    <3> QED
      BY <1>1, <1>2, <1>6, <3>1, HonestMail
  <2>3. (Expects(st[p]) /\ PageOnAnswer(p, st, box)) => peer' = Taking(st, p, box)
    <3>1. p \in Peers /\ st \in [Peers -> PeerState]
      BY DEF Peers, Sound, PeersTyped
    <3> QED
      BY <3>1 DEF PageOnAnswer, Taking
  <2> QED
    BY <1>6, <2>1, <2>2, <2>3 DEF PageOnAnswer
<1> QED
  BY <1>2, <1>4, <1>5, <1>6 DEF PageOnBox

\* Node._onFrom of an offerer
LEMMA PageHonestFrom ==
  ASSUME TypeOK, KeyInv(peer, inbox, NoAnswers), HonestInv(peer, inbox), PageFrom("off")
  PROVE  HonestInv(peer', inbox')
<1>1. /\ inbox \in Mailboxes /\ Frames(inbox) /\ peer \in [Peers -> PeerState] /\ CurTyped(cur)
      /\ inbox["off"] # <<>> /\ Head(inbox["off"]).kind \in Boxes
      /\ Sound(peer, inbox, NoAnswers) /\ "off" \in Nodes /\ PeersOf("off") = OPeers
  BY Typing DEF KeyInv, PageFrom, Arrives, Boxes, Sound, PeersTyped, Nodes, PeersOf
<1>2. CASE ~Admits("off")
  <2>1. MailKept(Rest("off"), inbox) /\ inbox' = Rest("off") /\ peer' = peer
    BY <1>1, <1>2, HeadOfMail DEF Rest, PageFrom
  <2> QED
    BY <1>1, <2>1, HonestMail
<1>3. CASE Admits("off") /\ Usable("off")
  <2>1. /\ cur["off"] \in OPeers
        /\ PageOnBox("off", cur["off"], peer, Rest("off"), Head(inbox["off"]))
    BY <1>1, <1>3 DEF PageFrom, Usable, CurTyped
  <2> QED
    BY <1>1, <2>1, PageHonestOnBox DEF PageFrom
<1>4. CASE Admits("off") /\ ~Usable("off")
  <2>1. PICK p \in OPeers :
          Free(p) /\ PageOnBox("off", p, WithNew("off", p), Rest("off"), Head(inbox["off"]))
    BY <1>1, <1>4 DEF PageFrom
  <2>2. p \in PeersOf("off") /\ NoAnswers \in [Peers -> Seq(BOOLEAN)]
    BY <1>1 DEF NoAnswers
  <2>3. PeersTyped(WithNew("off", p)) /\ KeyInv(WithNew("off", p), inbox, NoAnswers)
    BY <1>1, <2>1, <2>2, NewPeer
  <2>4. HonestInv(WithNew("off", p), inbox)
    BY <1>1, <2>1, <2>2, HonestNew
  <2>5. Sound(WithNew("off", p), inbox, NoAnswers)
    BY <1>1, <2>3 DEF Sound
  <2> QED
    BY <2>1, <2>4, <2>5, PageHonestOnBox DEF PageFrom
<1> QED
  BY <1>2, <1>3, <1>4

\* The time-out of Peer.startOffer
LEMMA PageHonestTimer ==
  ASSUME TypeOK, HonestInv(peer, inbox), NEW p \in OPeers, PageOfferTimer(p)
  PROVE  HonestInv(peer', inbox')
<1> DEFINE st == [peer EXCEPT ![p].timer = FALSE]
<1>1. p \in Peers /\ peer \in [Peers -> PeerState] /\ peer[p] \in PeerState /\ Told(peer, p)
  BY Typing DEF Peers, HonestInv, ToldTrue
<1>2. /\ st \in [Peers -> PeerState] /\ \A r \in Peers \ {p} : st[r] = peer[r]
      /\ st[p].stage = peer[p].stage /\ st[p].remote = peer[p].remote /\ st[p].pc = peer[p].pc
      /\ st[p].secret = peer[p].secret /\ st[p].fs = peer[p].fs
      /\ st[p].verified = peer[p].verified /\ st[p].claim = peer[p].claim
  BY <1>1 DEF PeerState
<1>3. /\ peer' = (IF peer[p].stage = "keying" THEN PageDoOffer(p, st) ELSE st)
      /\ inbox' = inbox
  BY DEF PageOfferTimer
<1> HIDE DEF st
<1>4. HonestInv(st, inbox)
  <2>1. GoesOn(peer, st, p)
    BY <1>1, <1>2 DEF GoesOn, Told
  <2> QED
    BY <1>2, <2>1, HonestOfferer
<1>5. CASE peer[p].stage = "keying"
  BY <1>2, <1>3, <1>4, <1>5, PageHonestDoOffer DEF PeersTyped
<1>6. CASE peer[p].stage # "keying"
  BY <1>3, <1>4, <1>6
<1> QED
  BY <1>5, <1>6

\* The rest of Peer._doOffer
LEMMA PageHonestGathered ==
  ASSUME TypeOK, KeyInv(peer, inbox, NoAnswers), HonestInv(peer, inbox),
         NEW p \in OPeers, PageOfferGathered(p)
  PROVE  HonestInv(peer', inbox')
<1> DEFINE eph == peer[p].epk # None
           box == [kind |-> "offer", src |-> p, key |-> peer[p].epk, to |-> None]
<1>1. p \in Peers /\ peer \in [Peers -> PeerState] /\ peer[p] \in PeerState
  BY Typing DEF Peers
<1>2. /\ peer[p].stage = "gathering" /\ box.src = p
      /\ peer' = [peer EXCEPT ![p].stage = "offered", ![p].fs = eph]
      /\ Sent(inbox, inbox', box)
  BY DEF PageOfferGathered, Sent, SendTo, Relayed, Other
<1> HIDE DEF eph, box
<1>3. OfferLeaves(peer, peer', p)
  BY <1>1, <1>2 DEF PeerState, OfferLeaves
<1> QED
  BY <1>2, <1>3, HonestOfferSent

\* A page that offers
LEMMA PageHonestNode ==
  ASSUME TypeOK, KeyInv(peer, inbox, NoAnswers), HonestInv(peer, inbox),
         PageNode("off") \/ PageOfferer
  PROVE  HonestInv(peer', inbox')
<1>1. inbox \in Mailboxes /\ MailKept(inbox, inbox) /\ "off" \in Nodes
  BY Typing, MailSame DEF KeyInv, Nodes
<1>2. ASSUME inbox["off"] # <<>>
      PROVE  MailKept(Rest("off"), inbox)
  BY <1>1, <1>2, MailShortened DEF Rest, KeyInv
<1>3. CASE PageConnect("off")
  <2>1. PICK in : /\ MailKept(in, inbox)
                  /\ \/ PageTryConnect("off", in)
                     \/ inbox' = in /\ UNCHANGED <<cur, peer>>
    BY <1>1, <1>3, PageConnectMail
  <2>2. CASE PageTryConnect("off", in)
    BY <1>1, <2>1, <2>2, PageHonestTryConnect
  <2>3. CASE inbox' = in /\ UNCHANGED peer
    BY <1>1, <2>1, <2>3, HonestMail
  <2> QED
    BY <2>1, <2>2, <2>3
<1>4. CASE PageAccept("off") \/ PageSweep
  <2>1. CASE PageTryConnect("off", inbox)
    BY <1>1, <2>1, PageHonestTryConnect
  <2>2. CASE UNCHANGED <<inbox, cur, peer>>
    BY <2>2
  <2> QED
    BY <1>4, <2>1, <2>2 DEF PageAccept, PageSweep
<1>5. CASE Forget("off")
  BY <1>1, <1>5, HonestNode
<1>6. CASE PageJoin("off")
  BY <1>1, <1>2, <1>6, PageHonestTryConnect DEF PageJoin, Arrives
<1>7. CASE PageLeave("off")
  BY <1>1, <1>2, <1>7, HonestMail DEF PageLeave, Arrives
<1>8. CASE PageFrom("off")
  BY <1>8, PageHonestFrom
<1>9. ASSUME NEW p \in OPeers, PageOfferTimer(p) \/ PageOfferGathered(p)
      PROVE  HonestInv(peer', inbox')
  BY <1>9, PageHonestTimer, PageHonestGathered
<1> QED
  BY <1>3, <1>4, <1>5, <1>6, <1>7, <1>8, <1>9 DEF PageNode, PageOfferer

LEMMA PageHonestStep ==
  ASSUME PageInv, HonestInv(peer, inbox), PageNext, ~Page["ans"]
  PROVE  HonestInv(peer', inbox')
<1>1. TypeOK /\ OPeers \subseteq Peers /\ "off" \in Nodes
  BY DEF PageInv, PageTypeOK, Peers, Nodes
<1>2. KeyInv(peer, inbox, NoAnswers)
  <2>1. KeyInv(peer, inbox, answers) /\ \A q \in APeers : answers[q] = <<>>
    BY DEF PageInv, Core, Handlers
  <2>2. \A q \in APeers : NoAnswers[q] = <<>>
    BY DEF NoAnswers, Peers
  <2> QED
    BY <2>1, <2>2 DEF KeyInv, Answering, AnswersUnder
<1>3. ASSUME NEW n \in Nodes, PythonNode(n)
      PROVE  HonestInv(peer', inbox')
  BY <1>1, <1>2, <1>3, HonestNode, HonestPump DEF PythonNode
<1>4. CASE PageOfferer \/ \E n \in Nodes : Page[n] /\ PageNode(n)
  BY <1>1, <1>2, <1>4, PageHonestNode DEF Nodes
<1>5. CASE PythonOfferer
  BY <1>1, <1>2, <1>5, HonestNode, HonestOfferTimer, HonestOfferGathered DEF PythonOfferer
<1>6. ASSUME NEW q \in APeers, AnswerGathered(q)
      PROVE  HonestInv(peer', inbox')
  BY <1>1, <1>2, <1>6, HonestAnswerGathered
<1>7. CASE Environment
  <2>1. ASSUME NEW n \in Nodes, Blip(n) \/ ServerNotices(n) \/ StartSweep
        PROVE  HonestInv(peer', inbox')
    BY <1>1, <1>2, <2>1, HonestNode
  <2>2. ASSUME NEW p \in OPeers, NEW q \in APeers, LinkUp(p, q)
        PROVE  HonestInv(peer', inbox')
    BY <1>1, <2>2, HonestLinkUp
  <2>3. ASSUME NEW p \in Peers, Hello(p) \/ LinkCut(p) \/ EndFails(p) \/ IceFails(p) \/ Stale(p)
        PROVE  HonestInv(peer', inbox')
    BY <1>1, <2>3, HonestAlone
  <2> QED
    BY <1>1, <1>7, <2>1, <2>2, <2>3 DEF Environment
<1> QED
  BY <1>3, <1>4, <1>5, <1>6, <1>7 DEF PageNext

\* The same of an offerer that is a page, towards a Python node.
THEOREM PageOffererToldTrue == PageSpec => [](~Page["ans"] => OffererHonest)
<1> DEFINE IInv == ~Page["ans"] => HonestInv(peer, inbox)
<1>1. PageInit => IInv
  BY HonestInit DEF PageInit
<1>2. PageInv /\ IInv /\ [PageNext]_bvars => IInv'
  <2> SUFFICES ASSUME PageInv, IInv, [PageNext]_bvars, ~Page["ans"]'
               PROVE  HonestInv(peer, inbox)'
    OBVIOUS
  <2>1. HonestInv(peer, inbox)' <=> HonestInv(peer', inbox')
    BY DEF HonestInv, ToldTrue, NoneUnder, KeyedFirst, OneAtATime, Told, Given, QuietAns, Under,
           Alive
  <2>2. CASE UNCHANGED bvars
    BY <2>1, <2>2 DEF bvars, vars, Page
  <2>3. CASE PageNext
    <3>1. mode' = mode
      BY <2>3, PageNextSteps DEF PageStepped, Stepped, LinkUp, rest
    <3>2. ~Page["ans"]
      BY <3>1 DEF Page
    <3> QED
      BY <2>1, <2>3, <3>2, PageHonestStep
  <2> QED
    BY <2>2, <2>3
<1>3. IInv => (~Page["ans"] => OffererHonest)
  BY DEF HonestInv, ToldTrue, Told, OffererHonest
<1> QED
  BY <1>1, <1>2, <1>3, PageInvariant, PTL DEF PageSpec
=============================================================================

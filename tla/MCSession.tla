------------------------------ MODULE MCSession ------------------------------
(* Instances of Session for TLC. *)
EXTENDS Session, TLC

\* Who may lose a socket and open another.
Lasting == [n \in Nodes |-> 1]
OfferersLossy == [n \in Nodes |-> IF n = "off" THEN 2 ELSE 1]

Settings(sockets, fickle) ==
  [fs : [Nodes -> BOOLEAN], require : [Nodes -> BOOLEAN],
   page : {[n \in Nodes |-> FALSE]}, sockets : {sockets}, fickle : {fickle}]

\* Two 2.1 nodes; a 2.1 answerer that insists, with either kind of offerer;
\* two that insist.
BothNew(s) == {m \in s : \A n \in Nodes : m.fs[n] /\ ~m.require[n]}
AnswererInsists(s) == {m \in s : m.fs["ans"] /\ m.require["ans"] /\ ~m.require["off"]}
BothInsist(s) == {m \in s : \A n \in Nodes : m.fs[n] /\ m.require[n]}

\* Modes: an offerer that loses its socket, or an answerer that forgets.
LossyOrFickle ==
  LET lossy == Settings(OfferersLossy, {})
  IN BothNew(lossy) \cup AnswererInsists(lossy) \cup BothNew(Settings(Lasting, {"ans"}))
LossyNew == BothNew(Settings(OfferersLossy, {}))
FickleNew == BothNew(Settings(Lasting, {"ans"}))
TwoInsist == BothInsist(Settings(Lasting, {}))

Symmetry == Permutations(OPeers) \cup Permutations(APeers)
=============================================================================

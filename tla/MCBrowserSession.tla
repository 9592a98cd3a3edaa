-------------------------- MODULE MCBrowserSession --------------------------
(* Instances of BrowserSession for TLC. *)
EXTENDS BrowserSession

Lasting == [n \in Nodes |-> 1]
OfferersLossy == [n \in Nodes |-> IF n = "off" THEN 2 ELSE 1]

Setting(fs, page, sockets, fickle) ==
  [fs |-> fs, require |-> [n \in Nodes |-> FALSE], page |-> page,
   sockets |-> sockets, fickle |-> fickle]

\* Two Python nodes, any mixture of 2.0 and 2.1; the answerer's user forgets.
Pythons ==
  {Setting(fs, [n \in Nodes |-> FALSE], Lasting, {"ans"}) : fs \in [Nodes -> BOOLEAN]}

\* A page that offers to a Python node or to a page, a Python node that offers
\* to a page; all of them 2.1.
Pages(sockets, fickle) ==
  {Setting([n \in Nodes |-> TRUE], page, sockets, fickle) :
     page \in {p \in [Nodes -> BOOLEAN] : p["off"] \/ p["ans"]}}

\* Modes: the offerer of a pair with a page loses its socket, or the answerer's
\* user forgets.
AnyPair == Pythons \cup Pages(OfferersLossy, {}) \cup Pages(Lasting, {"ans"})
=============================================================================

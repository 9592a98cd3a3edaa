-------------------------------- MODULE Roster --------------------------------
(***************************************************************************)
(* A Python node in a room of several others: how Signaling.peers          *)
(* (cli/yaw2/signaling.py) follows the room, and how the tasks of Node     *)
(* (cli/yaw2/peer.py) that offer to its members share it.  What happens    *)
(* between two nodes is Session's; here a link is made or not.             *)
(*                                                                         *)
(* The tasks: `start`, the pump (_on_join, _on_reconnect) and `sweep`      *)
(* (_reconcile).  Each suspends in _try_connect while its offer gathers,   *)
(* which without forward secrecy it does at once.  The node has the        *)
(* smallest id, trusts all and offers to all.                              *)
(***************************************************************************)
EXTENDS Naturals, Sequences, FiniteSets

CONSTANTS
  Others,     \* the ids of the others
  None,       \* no id
  MaxMoves,   \* bound: joins and leaves of the others
  MaxFaults   \* bound: sockets and links lost

ASSUME RosterAssumption ==
  None \notin Others /\ IsFiniteSet(Others) /\ {MaxMoves, MaxFaults} \subseteq Nat

VARIABLES
  room,    \* who is in the room, as the server has it
  sock,    \* the node's socket: "up" or "down"
  inbox,   \* frames the pump has not taken yet
  known,   \* Signaling.peers
  first,   \* the set object that start iterates over
  same,    \* is it still the one of Signaling.peers?
  size,    \* how many it held when the iteration began
  seen,    \* what the iteration has yielded
  task,    \* of each task, what it is at
  link,    \* of each other, what node.peers has: nobody ("none"), a YawPeer that
           \* may come up ("fresh"), that is dead or past RETRY_AFTER ("stale"),
           \* whose channel is open ("open"), whose hello has come as well ("up"),
           \* or that is dead and still `verified` ("lost")
  offered, \* whose offers are on their way
  moves, faults

vars == <<room, sock, inbox, known, first, same, size, seen, task, link, offered, moves, faults>>
signaling == <<room, sock, inbox, known, first, same>>
iteration == <<size, seen>>
bounds == <<moves, faults>>

Tasks == {"start", "pump", "sweep"}
Frame == [kind : {"join", "leave"}, id : Others]
TaskState == [at : {"off", "on", "over", "dead"}, todo : SUBSET Others, offers : Others \cup {None}]
LinkState == {"none", "fresh", "stale", "open", "up", "lost"}

TypeOK ==
  /\ {room, known, first, seen, offered} \subseteq SUBSET Others
  /\ sock \in {"up", "down"} /\ inbox \in Seq(Frame) /\ same \in BOOLEAN
  /\ size \in 0..Cardinality(Others)
  /\ task \in [Tasks -> TaskState]
  /\ link \in [Others -> LinkState]
  /\ moves \in 0..MaxMoves /\ faults \in 0..MaxFaults

\* connect has returned; start is about to iterate over the set it returned.
Init ==
  /\ room \in SUBSET Others /\ sock = "up" /\ inbox = <<>>
  /\ known = room /\ first = room /\ same = TRUE
  /\ size = Cardinality(room) /\ seen = {}
  /\ task = [t \in Tasks |-> [at |-> IF t = "sweep" THEN "off" ELSE "on",
                              todo |-> {}, offers |-> None]]
  /\ link = [p \in Others |-> "none"] /\ offered = {}
  /\ moves = 0 /\ faults = 0

\* An exception that nobody catches ends start, and with it the program.
Runs == task["start"].at # "dead"
Ready(t) == Runs /\ task[t].at = "on" /\ task[t].offers = None

-----------------------------------------------------------------------------
(* The tasks. *)

\* _try_connect for p by task t, with `left` still to be tried.  The new peer is
\* in node.peers before the offer gathers.  One that was ever verified is left
\* alone until a peer-leave pops it: nothing sets `verified` back.
TryConnect_Once(t, p, left) ==   \* mutant: a peer that did not connect is not replaced
  LET starts == link[p] = "none"
  IN /\ task' = [task EXCEPT ![t].todo = left, ![t].offers = IF starts THEN p ELSE None]
     /\ link' = IF starts THEN [link EXCEPT ![p] = "fresh"] ELSE link
     /\ offered' = IF starts THEN offered \ {p} ELSE offered
TryConnect(t, p, left) ==
  LET starts == link[p] \in {"none", "stale"}
  IN /\ task' = [task EXCEPT ![t].todo = left, ![t].offers = IF starts THEN p ELSE None]
     /\ link' = IF starts THEN [link EXCEPT ![p] = "fresh"] ELSE link
     /\ offered' = IF starts THEN offered \ {p} ELSE offered

\* An offer has gathered and is sent; on a lost socket that raises.  The pump
\* catches it and goes on to dial, or from _on_reconnect to what the old socket
\* still holds; start and sweep end.
Gathered(t) ==
  LET p == task[t].offers
  IN /\ Runs /\ p # None
     /\ IF sock = "up"
        THEN /\ task' = [task EXCEPT ![t].offers = None]
             /\ offered' = offered \cup ({p} \cap room)
             /\ UNCHANGED inbox
        ELSE /\ task' = [task EXCEPT ![t] = [at |-> IF t = "pump" THEN "on" ELSE "dead",
                                             todo |-> {}, offers |-> None]]
             /\ inbox' \in IF t = "pump" THEN {inbox, <<>>} ELSE {inbox}
             /\ UNCHANGED offered
     /\ UNCHANGED <<room, sock, known, first, same, iteration, link, bounds>>

\* `for pid in present`: the iterator looks at the size of the live set first.
StartRaises ==
  /\ Ready("start") /\ Cardinality(first) # size
  /\ task' = [task EXCEPT !["start"].at = "dead"]
  /\ UNCHANGED <<signaling, iteration, link, offered, bounds>>

StartNext(p) ==
  /\ Ready("start") /\ Cardinality(first) = size /\ p \in first \ seen
  /\ seen' = seen \cup {p}
  /\ TryConnect("start", p, {})
  /\ UNCHANGED <<signaling, size, bounds>>

StartEnds ==
  /\ Ready("start") /\ Cardinality(first) = size /\ first \subseteq seen
  /\ task' = [task EXCEPT !["start"].at = "over", !["sweep"].at = "on"]
  /\ UNCHANGED <<signaling, iteration, link, offered, bounds>>

\* _reconcile wakes up and copies the set.
SweepBegins ==
  /\ Ready("sweep") /\ task["sweep"].todo = {} /\ known # {}
  /\ task' = [task EXCEPT !["sweep"].todo = known]
  /\ UNCHANGED <<signaling, iteration, link, offered, bounds>>

\* The next id of the copy, or of the set _on_reconnect was given.
Visit(t, p) ==
  /\ Ready(t) /\ p \in task[t].todo
  /\ TryConnect(t, p, task[t].todo \ {p})
  /\ UNCHANGED <<signaling, iteration, bounds>>

\* The set that start iterates over changes with Signaling.peers while it is it.
Holds(members) == known' = members /\ first' = IF same THEN members ELSE first

PumpReads(kind, p) ==
  /\ Ready("pump") /\ task["pump"].todo = {} /\ inbox # <<>>
  /\ Head(inbox) = [kind |-> kind, id |-> p] /\ inbox' = Tail(inbox)
  /\ UNCHANGED <<room, sock, same, iteration, bounds>>

PeerJoin(p) ==
  PumpReads("join", p) /\ Holds(known \cup {p}) /\ TryConnect("pump", p, {})

PeerLeave(p) ==
  /\ PumpReads("leave", p) /\ Holds(known \ {p})
  /\ link' = [link EXCEPT ![p] = "none"] /\ offered' = offered \ {p}
  /\ UNCHANGED task

\* The pump has met the end of its socket, and connect and _on_reconnect follow;
\* `joined` brings a new set.
Reconnect_Adds ==   \* mutant: who left meanwhile stays
  /\ Ready("pump") /\ sock = "down" /\ inbox = <<>>
  /\ sock' = "up" /\ known' = known \cup room /\ same' = FALSE
  /\ task' = [task EXCEPT !["pump"].todo = room]
  /\ UNCHANGED <<room, inbox, first, iteration, link, offered, bounds>>
Reconnect ==
  /\ Ready("pump") /\ sock = "down" /\ inbox = <<>>
  /\ sock' = "up" /\ known' = room /\ same' = FALSE
  /\ task' = [task EXCEPT !["pump"].todo = room]
  /\ UNCHANGED <<room, inbox, first, iteration, link, offered, bounds>>

-----------------------------------------------------------------------------
(* The room, the network and time. *)

Moves(kind, p) ==
  /\ moves < MaxMoves /\ moves' = moves + 1
  /\ room' = IF kind = "join" THEN room \cup {p} ELSE room \ {p}
  /\ inbox' = IF sock = "up" THEN Append(inbox, [kind |-> kind, id |-> p]) ELSE inbox
  /\ UNCHANGED <<sock, known, first, same, iteration, task, link, offered, faults>>
Comes(p) == p \notin room /\ Moves("join", p)
Goes(p) == p \in room /\ Moves("leave", p)

Fault == faults < MaxFaults /\ faults' = faults + 1 /\ UNCHANGED moves

\* Frames that have arrived are still read; those on their way are lost.
SocketLost ==
  /\ sock = "up" /\ Fault /\ sock' = "down"
  /\ \E arrived \in 0..Len(inbox) : inbox' = SubSeq(inbox, 1, arrived)
  /\ UNCHANGED <<room, known, first, same, iteration, task, link, offered>>

LinkUp(p) ==
  /\ p \in offered \cap room /\ link[p] \in {"fresh", "stale"}
  /\ link' = [link EXCEPT ![p] = "open"] /\ offered' = offered \ {p}
  /\ UNCHANGED <<signaling, iteration, task, bounds>>

\* The hello of the other end, over the channel.
Hello(p) ==
  /\ link[p] = "open" /\ link' = [link EXCEPT ![p] = "up"]
  /\ UNCHANGED <<signaling, iteration, task, offered, bounds>>

LinkLost(p) ==
  /\ link[p] \in {"open", "up"} /\ Fault
  /\ link' = [link EXCEPT ![p] = IF @ = "up" THEN "lost" ELSE "stale"]
  /\ UNCHANGED <<signaling, iteration, task, offered>>

\* RETRY_AFTER passes; gathering takes less.
Overdue(p) ==
  /\ link[p] = "fresh" /\ \A t \in Tasks : task[t].offers # p
  /\ link' = [link EXCEPT ![p] = "stale"]
  /\ UNCHANGED <<signaling, iteration, task, offered, bounds>>

Start == StartRaises \/ (\E p \in Others : StartNext(p)) \/ StartEnds
Pump == Reconnect \/ \E p \in Others : PeerJoin(p) \/ PeerLeave(p) \/ Visit("pump", p)
Sweep == SweepBegins \/ \E p \in Others : Visit("sweep", p)

Next ==
  \/ Start \/ Pump \/ Sweep \/ \E t \in Tasks : Gathered(t)
  \/ SocketLost
  \/ \E p \in Others : Comes(p) \/ Goes(p) \/ LinkUp(p) \/ Hello(p) \/ LinkLost(p) \/ Overdue(p)

Spec == Init /\ [][Next]_vars

\* The event loop runs every task, time passes, and an offer that is made again
\* and again is answered in the end.
FairSpec ==
  /\ Spec /\ WF_vars(Start) /\ WF_vars(Pump) /\ WF_vars(Sweep)
  /\ \A t \in Tasks : WF_vars(Gathered(t))
  /\ \A p \in Others : WF_vars(Overdue(p)) /\ WF_vars(Hello(p)) /\ SF_vars(LinkUp(p))

-----------------------------------------------------------------------------
(* Properties. *)

\* Through joins, leaves and lost sockets, a pump that has read all frames has
\* the room as it is.
RosterExact == TypeOK /\ (sock = "up" /\ inbox = <<>> => known = room)

Stays(p) == <>[](p \in room /\ task["sweep"].at = "on" /\ Runs)

\* Whoever stays is offered to until a link is verified, although three tasks
\* offer at once, each may be in the middle of another peer, and a link may be
\* lost before its hello: so long as the program and its sweep have not ended.
\* (A link lost after its hello is not made again: "lost".)
EachLinked == \A p \in Others : Stays(p) => <>[](link[p] \in {"up", "lost"})

-----------------------------------------------------------------------------
(* What the documents say and the code does not do. *)

\* "The offerer also re-offers a link that has failed": who stays has a link
\* that is up in the end.
FailedIsOffered == \A p \in Others : Stays(p) => <>[](link[p] = "up")

\* What the docstring of Node builds on: a node that has joined a room sweeps.
StartSurvives == Runs
=============================================================================

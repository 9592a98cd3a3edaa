----------------------------- MODULE RosterProofs -----------------------------
(***************************************************************************)
(* That Signaling.peers follows the room, for any others and any bounds:   *)
(* what is known differs from the room by the frames not read yet.         *)
(***************************************************************************)
EXTENDS Roster, FiniteSetTheorems, SequenceTheorems, TLAPS

\* No later frame of the inbox is about the same id.
Latest(k) == \A m \in DOMAIN inbox : m > k => inbox[m].id # inbox[k].id

\* While the socket is up, the last frame about an id says whether it is in the
\* room; without one, Signaling.peers does.
FramesTell ==
  sock = "up" =>
    /\ \A k \in DOMAIN inbox : Latest(k) => (inbox[k].kind = "join" <=> inbox[k].id \in room)
    /\ \A p \in Others :
         (\A k \in DOMAIN inbox : inbox[k].id # p) => (p \in known <=> p \in room)

RosterInv == TypeOK /\ FramesTell

USE RosterAssumption

-----------------------------------------------------------------------------
(* Frames. *)

\* A frame that arrives is the latest about its id.
LEMMA FrameArrives ==
  ASSUME RosterInv, NEW p \in Others, NEW kind \in {"join", "leave"}, Moves(kind, p)
  PROVE  inbox' \in Seq(Frame) /\ FramesTell'
<1> DEFINE f == [kind |-> kind, id |-> p]
<1>1. f \in Frame /\ inbox \in Seq(Frame)
  BY DEF Frame, RosterInv, TypeOK
<1>2. CASE sock = "up"
  <2>1. inbox' = Append(inbox, f) /\ sock' = "up" /\ known' = known
    BY <1>2 DEF Moves
  <2>2. /\ Append(inbox, f) \in Seq(Frame) /\ Len(Append(inbox, f)) = Len(inbox) + 1
        /\ \A k \in 1..Len(inbox) : Append(inbox, f)[k] = inbox[k]
        /\ Append(inbox, f)[Len(inbox) + 1] = f
    BY <1>1, AppendProperties
  <2>3. DOMAIN inbox = 1..Len(inbox) /\ DOMAIN inbox' = 1..(Len(inbox) + 1) /\ Len(inbox) \in Nat
    BY <1>1, <2>1, <2>2
  <2>4. room' = IF kind = "join" THEN room \cup {p} ELSE room \ {p}
    BY DEF Moves
  <2> HIDE DEF f
  <2>5. f.kind = kind /\ f.id = p
    BY DEF f
  <2>6. ASSUME NEW k \in DOMAIN inbox', Latest(k)'
        PROVE  inbox'[k].kind = "join" <=> inbox'[k].id \in room'
    <3>1. CASE k = Len(inbox) + 1
      BY <2>1, <2>2, <2>4, <2>5, <3>1
    <3>2. CASE k \in 1..Len(inbox)
      <4>1. inbox'[k] = inbox[k] /\ inbox[k].id # p
        BY <2>1, <2>2, <2>3, <2>5, <2>6, <3>2 DEF Latest
      <4>2. Latest(k)
        BY <2>1, <2>2, <2>3, <2>6, <3>2 DEF Latest
      <4> QED
        BY <1>2, <2>3, <2>4, <3>2, <4>1, <4>2 DEF RosterInv, FramesTell
    <3> QED
      BY <2>3, <3>1, <3>2
  <2>7. ASSUME NEW q \in Others, \A k \in DOMAIN inbox' : inbox'[k].id # q
        PROVE  q \in known' <=> q \in room'
    <3>1. q # p
      BY <2>1, <2>2, <2>3, <2>5, <2>7
    <3>2. \A k \in DOMAIN inbox : inbox[k].id # q
      BY <2>1, <2>2, <2>3, <2>7
    <3> QED
      BY <1>2, <2>1, <2>4, <3>1, <3>2 DEF RosterInv, FramesTell
  <2> QED
    BY <2>1, <2>2, <2>6, <2>7 DEF FramesTell
<1>3. CASE sock # "up"
  BY <1>1, <1>3 DEF Moves, FramesTell
<1> QED
  BY <1>2, <1>3

\* Reading a frame leaves what the rest of the inbox tells.
LEMMA FrameRead ==
  ASSUME RosterInv, NEW p \in Others, NEW kind \in {"join", "leave"}, PumpReads(kind, p),
         known' = IF kind = "join" THEN known \cup {p} ELSE known \ {p}
  PROVE  inbox' \in Seq(Frame) /\ FramesTell'
<1>1. inbox \in Seq(Frame) /\ inbox # <<>>
  BY DEF RosterInv, TypeOK, PumpReads
<1>2. /\ inbox' = Tail(inbox) /\ inbox' \in Seq(Frame) /\ Len(inbox') = Len(inbox) - 1
      /\ \A k \in 1..Len(inbox') : inbox'[k] = inbox[k + 1]
  BY <1>1, HeadTailProperties DEF PumpReads
<1>3. /\ Len(inbox) \in Nat /\ Len(inbox) >= 1
      /\ DOMAIN inbox = 1..Len(inbox) /\ DOMAIN inbox' = 1..(Len(inbox) - 1)
  BY <1>1, <1>2, EmptySeq
<1>4. inbox[1].kind = kind /\ inbox[1].id = p
  BY <1>1 DEF PumpReads
<1>5. ASSUME sock = "up", NEW k \in DOMAIN inbox', Latest(k)'
      PROVE  inbox'[k].kind = "join" <=> inbox'[k].id \in room'
  <2>1. k + 1 \in DOMAIN inbox /\ inbox'[k] = inbox[k + 1]
    BY <1>2, <1>3
  <2>2. ASSUME NEW m \in DOMAIN inbox, m > k + 1
        PROVE  inbox[m].id # inbox[k + 1].id
    <3>1. m - 1 \in DOMAIN inbox' /\ m - 1 > k /\ inbox'[m - 1] = inbox[m]
      BY <1>2, <1>3, <2>2
    <3> QED
      BY <1>5, <2>1, <3>1 DEF Latest
  <2>3. Latest(k + 1)
    BY <2>2 DEF Latest
  <2> QED
    BY <1>5, <2>1, <2>3 DEF RosterInv, FramesTell, PumpReads
<1>6. ASSUME sock = "up", NEW q \in Others, \A k \in DOMAIN inbox' : inbox'[k].id # q
      PROVE  q \in known' <=> q \in room'
  <2>1. \A k \in DOMAIN inbox : k > 1 => inbox[k].id # q
    <3> SUFFICES ASSUME NEW k \in DOMAIN inbox, k > 1 PROVE inbox[k].id # q
      OBVIOUS
    <3>1. k - 1 \in DOMAIN inbox' /\ inbox'[k - 1] = inbox[k]
      BY <1>2, <1>3
    <3> QED
      BY <1>6, <3>1
  <2>2. CASE q = p
    <3>1. Latest(1) /\ 1 \in DOMAIN inbox
      BY <1>3, <1>4, <2>1, <2>2 DEF Latest
    <3>2. kind = "join" <=> p \in room
      BY <1>4, <1>6, <3>1 DEF RosterInv, FramesTell
    <3> QED
      BY <2>2, <3>2 DEF PumpReads
  <2>3. CASE q # p
    <3>1. \A k \in DOMAIN inbox : inbox[k].id # q
      BY <1>3, <1>4, <2>1, <2>3
    <3> QED
      BY <1>6, <2>3, <3>1 DEF RosterInv, FramesTell, PumpReads
  <2> QED
    BY <2>2, <2>3
<1> QED
  BY <1>2, <1>5, <1>6 DEF FramesTell, PumpReads

-----------------------------------------------------------------------------
(* The steps. *)

LEMMA RosterInit == Init => RosterInv
<1> SUFFICES ASSUME Init PROVE RosterInv
  OBVIOUS
<1>1. Cardinality(room) \in 0..Cardinality(Others)
  BY FS_Subset, FS_CardinalityType DEF Init
<1>2. inbox \in Seq(Frame) /\ DOMAIN inbox = {}
  BY DEF Init
<1> QED
  BY <1>1, <1>2 DEF Init, RosterInv, TypeOK, FramesTell, Tasks, TaskState, LinkState

\* What a task does when it tries a peer is well typed.
LEMMA TryTyped ==
  ASSUME TypeOK, NEW t \in Tasks, NEW p \in Others, NEW left \in SUBSET Others,
         TryConnect(t, p, left)
  PROVE  /\ task' \in [Tasks -> TaskState]
         /\ link' \in [Others -> LinkState]
         /\ offered' \subseteq Others
<1>1. PICK offers \in {p, None} : task' = [task EXCEPT ![t].todo = left, ![t].offers = offers]
  BY DEF TryConnect
<1>2. task \in [Tasks -> TaskState] /\ task[t] \in TaskState
  BY DEF TypeOK
<1>3. [task[t] EXCEPT !.todo = left, !.offers = offers] \in TaskState
  BY <1>2 DEF TaskState
<1>4. task' = [task EXCEPT ![t] = [task[t] EXCEPT !.todo = left, !.offers = offers]]
  BY <1>1, <1>2
<1>5. task' \in [Tasks -> TaskState]
  BY <1>2, <1>3, <1>4
<1> QED
  BY <1>5 DEF TypeOK, TryConnect, LinkState

\* The steps that touch neither the inbox nor what it is compared with.
Silent == UNCHANGED <<room, sock, inbox, known>>

LEMMA SilentKeeps == RosterInv /\ Silent /\ TypeOK' => RosterInv'
BY DEF RosterInv, Silent, FramesTell, Latest

LEMMA StartKeeps == RosterInv /\ Start => RosterInv'
<1> SUFFICES ASSUME RosterInv, Start PROVE TypeOK' /\ Silent
  BY SilentKeeps
<1> USE DEF RosterInv, signaling, iteration, bounds, Silent
<1>1. CASE StartRaises
  BY <1>1 DEF StartRaises, TypeOK, Tasks, TaskState
<1>2. ASSUME NEW p \in Others, StartNext(p) PROVE TypeOK' /\ Silent
  <2>1. "start" \in Tasks /\ {} \in SUBSET Others
    BY DEF Tasks
  <2> QED
    BY <1>2, <2>1, TryTyped DEF StartNext, TypeOK
<1>3. CASE StartEnds
  BY <1>3 DEF StartEnds, TypeOK, Tasks, TaskState
<1> QED
  BY <1>1, <1>2, <1>3 DEF Start

LEMMA VisitKeeps ==
  ASSUME RosterInv, NEW t \in Tasks, NEW p \in Others, Visit(t, p)
  PROVE  RosterInv'
<1>1. task[t].todo \ {p} \in SUBSET Others
  BY DEF RosterInv, TypeOK, TaskState
<1>2. Silent /\ UNCHANGED <<first, same, iteration, bounds>>
  BY DEF Visit, Silent, signaling
<1>3. TypeOK'
  BY <1>1, <1>2, TryTyped DEF Visit, RosterInv, TypeOK, Silent, iteration, bounds
<1> QED
  BY <1>2, <1>3, SilentKeeps

LEMMA PumpKeeps == RosterInv /\ Pump => RosterInv'
<1> SUFFICES ASSUME RosterInv, Pump PROVE RosterInv'
  OBVIOUS
<1> USE DEF iteration, bounds
<1>1. CASE Reconnect
  <2>1. TypeOK'
    BY <1>1 DEF Reconnect, RosterInv, TypeOK, Tasks, TaskState
  <2>2. DOMAIN inbox' = {} /\ known' = room'
    BY <1>1 DEF Reconnect
  <2> QED
    BY <2>1, <2>2 DEF RosterInv, FramesTell
<1>2. ASSUME NEW p \in Others, PeerJoin(p) PROVE RosterInv'
  <2>1. inbox' \in Seq(Frame) /\ FramesTell'
    BY <1>2, FrameRead DEF PeerJoin, Holds
  <2>2. TypeOK'
    <3>1. "pump" \in Tasks /\ {} \in SUBSET Others
      BY DEF Tasks
    <3> QED
      BY <1>2, <2>1, <3>1, TryTyped DEF PeerJoin, PumpReads, Holds, RosterInv, TypeOK
  <2> QED
    BY <2>1, <2>2 DEF RosterInv
<1>3. ASSUME NEW p \in Others, PeerLeave(p) PROVE RosterInv'
  <2>1. inbox' \in Seq(Frame) /\ FramesTell'
    BY <1>3, FrameRead DEF PeerLeave, Holds
  <2>2. TypeOK'
    BY <1>3, <2>1 DEF PeerLeave, PumpReads, Holds, RosterInv, TypeOK, LinkState
  <2> QED
    BY <2>1, <2>2 DEF RosterInv
<1>4. ASSUME NEW p \in Others, Visit("pump", p) PROVE RosterInv'
  BY <1>4, VisitKeeps DEF Tasks
<1> QED
  BY <1>1, <1>2, <1>3, <1>4 DEF Pump

LEMMA SweepKeeps == RosterInv /\ Sweep => RosterInv'
<1> SUFFICES ASSUME RosterInv, Sweep PROVE RosterInv'
  OBVIOUS
<1>1. CASE SweepBegins
  <2>1. TypeOK' /\ Silent
    BY <1>1 DEF SweepBegins, RosterInv, TypeOK, Tasks, TaskState, Silent, signaling, iteration, bounds
  <2> QED
    BY <2>1, SilentKeeps
<1>2. ASSUME NEW p \in Others, Visit("sweep", p) PROVE RosterInv'
  BY <1>2, VisitKeeps DEF Tasks
<1> QED
  BY <1>1, <1>2 DEF Sweep

\* An offer that is sent, or a send that raises, with the socket down.
LEMMA GatheredKeeps ==
  ASSUME RosterInv, NEW t \in Tasks, Gathered(t)
  PROVE  RosterInv'
<1> USE DEF Gathered, iteration, bounds
<1>1. CASE sock = "up"
  <2>1. task' = [task EXCEPT ![t].offers = None] /\ task[t] \in TaskState
    BY <1>1 DEF RosterInv, TypeOK
  <2>2. task' = [task EXCEPT ![t] = [task[t] EXCEPT !.offers = None]]
    BY <2>1
  <2>3. [task[t] EXCEPT !.offers = None] \in TaskState
    BY <2>1 DEF TaskState
  <2>4. task' \in [Tasks -> TaskState] /\ Silent
    BY <1>1, <2>2, <2>3 DEF RosterInv, TypeOK, Silent
  <2>5. TypeOK'
    BY <1>1, <2>4 DEF RosterInv, TypeOK, Silent
  <2> QED
    BY <2>4, <2>5, SilentKeeps
<1>2. CASE sock # "up"
  <2>1. task' \in [Tasks -> TaskState]
    <3> DEFINE after == [at |-> IF t = "pump" THEN "on" ELSE "dead", todo |-> {}, offers |-> None]
    <3>1. task' = [task EXCEPT ![t] = after]
      BY <1>2
    <3>2. after \in TaskState
      BY DEF TaskState
    <3>3. task \in [Tasks -> TaskState]
      BY DEF RosterInv, TypeOK
    <3> HIDE DEF after
    <3> QED
      BY <3>1, <3>2, <3>3 DEF Tasks
  <2>2. inbox' \in Seq(Frame)
    <3>1. inbox' \in {inbox, <<>>}
      BY <1>2
    <3>2. inbox \in Seq(Frame) /\ <<>> \in Seq(Frame)
      BY DEF RosterInv, TypeOK
    <3> QED
      BY <3>1, <3>2
  <2>3. TypeOK'
    BY <1>2, <2>1, <2>2 DEF RosterInv, TypeOK
  <2> QED
    BY <1>2, <2>3 DEF RosterInv, FramesTell
<1> QED
  BY <1>1, <1>2

LEMMA WorldKeeps ==
  ASSUME RosterInv,
         SocketLost \/ \E p \in Others : Comes(p) \/ Goes(p) \/ LinkUp(p) \/ Hello(p)
                                    \/ LinkLost(p) \/ Overdue(p)
  PROVE  RosterInv'
<1> USE DEF iteration, bounds
<1>1. CASE SocketLost
  <2>1. PICK arrived \in 0..Len(inbox) : inbox' = SubSeq(inbox, 1, arrived)
    BY <1>1 DEF SocketLost
  <2>2. inbox' \in Seq(Frame)
    <3>1. inbox \in Seq(Frame) /\ \A k \in 1..arrived : inbox[k] \in Frame
      BY DEF RosterInv, TypeOK
    <3> QED
      BY <2>1, <3>1, SubSeqProperties
  <2> QED
    BY <1>1, <2>2 DEF SocketLost, Fault, RosterInv, TypeOK, FramesTell
<1>2. ASSUME NEW p \in Others, Comes(p) \/ Goes(p) PROVE RosterInv'
  <2>1. PICK kind \in {"join", "leave"} : Moves(kind, p)
    BY <1>2 DEF Comes, Goes
  <2>2. inbox' \in Seq(Frame) /\ FramesTell'
    BY <2>1, FrameArrives
  <2>3. TypeOK'
    BY <2>1, <2>2 DEF Moves, RosterInv, TypeOK
  <2> QED
    BY <2>2, <2>3 DEF RosterInv
<1>3. ASSUME NEW p \in Others, LinkUp(p) \/ Hello(p) \/ LinkLost(p) \/ Overdue(p) PROVE RosterInv'
  <2>1. TypeOK' /\ Silent
    BY <1>3 DEF LinkUp, Hello, LinkLost, Overdue, Fault, RosterInv, TypeOK, LinkState, Silent, signaling
  <2> QED
    BY <2>1, SilentKeeps
<1> QED
  BY <1>1, <1>2, <1>3

\* The invariant is inductive.
LEMMA RosterStep == RosterInv /\ [Next]_vars => RosterInv'
<1> SUFFICES ASSUME RosterInv, [Next]_vars PROVE RosterInv'
  OBVIOUS
<1>1. CASE UNCHANGED vars
  <2>1. TypeOK' /\ Silent
    BY <1>1 DEF vars, RosterInv, TypeOK, Silent
  <2> QED
    BY <2>1, SilentKeeps
<1> QED
  BY <1>1, StartKeeps, PumpKeeps, SweepKeeps, GatheredKeeps, WorldKeeps DEF Next

\* What Signaling.peers and the frames not read yet say together is the room,
\* in every reachable state, through reconnections and lost frames.
THEOREM RosterInvariant == Spec => []RosterInv
BY RosterInit, RosterStep, PTL DEF Spec

\* A pump that has read all frames has the room as it is.
THEOREM PumpKnowsRoom == Spec => []RosterExact
<1>1. RosterInv => RosterExact
  <2> SUFFICES ASSUME RosterInv, sock = "up", inbox = <<>> PROVE known = room
    BY DEF RosterExact, RosterInv
  <2>1. \A p \in Others : p \in known <=> p \in room
    BY DEF RosterInv, FramesTell
  <2> QED
    BY <2>1 DEF RosterInv, TypeOK
<1> QED
  BY <1>1, RosterInvariant, PTL
=============================================================================

------------------------------ MODULE Reconnect ------------------------------
(***************************************************************************)
(* Clients of one address that keep a socket to the signaling server open: *)
(* the backoff of Signaling.run (cli/yaw2/signaling.py) and of             *)
(* _scheduleReconnect (web/yaw2.js), against the admission control and the *)
(* frame limit of signaling/server.py.                                     *)
(*                                                                         *)
(* Time is counted in ticks.  A window is the sequence of the ages of what *)
(* was counted in it; like the lists of the server it is pruned only when  *)
(* something is counted.                                                   *)
(***************************************************************************)
EXTENDS Naturals, Sequences, FiniteSets

CONSTANTS
  Clients,
  Web,         \* the clients that are browser pages; the others are Python
  IdOf,        \* the identity of a client
  ConnWindow, ConnMax, ConcMax, MsgWindow, MsgMax,  \* as in server.py
  MaxBackoff,  \* 30 s in both clients
  Burst,       \* bound: frames beyond MsgMax that a client sends in a window
  Talkers,     \* bound: the clients that send
  MaxFaults    \* bound: sockets lost, dials that fail, frames sent too early

ASSUME ReconnectAssumption ==
  /\ IsFiniteSet(Clients) /\ Web \subseteq Clients /\ Talkers \subseteq Clients
  /\ {ConnMax, ConcMax, MsgMax, Burst, MaxFaults} \subseteq Nat
  /\ {ConnWindow, MsgWindow, MaxBackoff} \subseteq Nat \ {0}

VARIABLES
  (* clients *)
  at,       \* "idle", "waiting" (to dial), "hello" (handshake), "joined", "ended"
  wait,     \* ticks until it dials
  backoff,  \* the delay after the next loss
  start,    \* its Node.start: "none", "pending", "returned", "raised", or "hung":
            \* what it waits for cannot happen any more
  (* server *)
  hist,     \* _conn_hist of the address
  conc,     \* _conc of the address
  ghosts,   \* handlers of sockets that their clients have lost
  times,    \* msg_times of the handler of a client
  (* what has happened *)
  admitted, \* the connections let in, as a window
  relayed,  \* the frames relayed on a client's socket, as a window
  faults

vars == <<at, wait, backoff, start, hist, conc, ghosts, times, admitted, relayed, faults>>
client == <<at, wait, backoff, start>>
frames == <<times, relayed>>

\* The filter of the lists: they are in the order of time, so it keeps an end.
Within(window, length) ==
  SubSeq(window, Cardinality({k \in DOMAIN window : window[k] >= length}) + 1, Len(window))

\* A window in which something is counted now.
Count(window, length) == Append(Within(window, length), 0)

Served == {c \in Clients : at[c] \in {"hello", "joined"}}

TypeOK ==
  /\ at \in [Clients -> {"idle", "waiting", "hello", "joined", "ended"}]
  /\ wait \in [Clients -> 0..MaxBackoff] /\ backoff \in [Clients -> 1..MaxBackoff]
  /\ start \in [Clients -> {"none", "pending", "returned", "raised", "hung"}]
  /\ {hist, admitted} \subseteq Seq(0..ConnWindow)
  /\ conc \in 0..ConcMax /\ ghosts \in 0..MaxFaults
  /\ times \in [Clients -> Seq(0..MsgWindow)] /\ relayed \in [Clients -> Seq(0..MsgWindow)]
  /\ faults \in 0..MaxFaults

Init ==
  /\ at = [c \in Clients |-> "idle"]
  /\ wait = [c \in Clients |-> 0] /\ backoff = [c \in Clients |-> 1]
  /\ start = [c \in Clients |-> "none"]
  /\ hist = <<>> /\ conc = 0 /\ ghosts = 0 /\ admitted = <<>>
  /\ times = [c \in Clients |-> <<>>] /\ relayed = [c \in Clients |-> <<>>]
  /\ faults = 0

Fault == faults < MaxFaults /\ faults' = faults + 1

-----------------------------------------------------------------------------
(* What a client does about a socket it has lost. *)

Double_Never(b) == b          \* mutant: no backoff
Double(b) == IF 2 * b < MaxBackoff THEN 2 * b ELSE MaxBackoff

\* The clients S lose their sockets.  A Python program whose first connection
\* fails ends; every other client waits and dials again.
Lose(S) ==
  LET ends == {c \in S : c \notin Web /\ start[c] = "pending"}
  IN /\ at' = [c \in Clients |-> IF c \in ends THEN "ended"
                                 ELSE IF c \in S THEN "waiting" ELSE at[c]]
     /\ wait' = [c \in Clients |-> IF c \in S \ ends THEN backoff[c] ELSE wait[c]]
     /\ backoff' = [c \in Clients |-> IF c \in S \ ends THEN Double(backoff[c]) ELSE backoff[c]]

\* What becomes of a start that waits for the first socket.  A page hears of an
\* error, but not of a socket that is only closed.
StartsEnd(S, error) ==
  start' = [c \in Clients |->
              IF c \notin S \/ start[c] # "pending" THEN start[c]
              ELSE IF error \/ c \notin Web THEN "raised" ELSE "hung"]

-----------------------------------------------------------------------------
(* The clients. *)

\* A page has one Node, unless the start of the one before has failed.
Start(c) ==
  /\ at[c] = "idle"
  /\ c \in Web => \A d \in Web : IdOf[d] = IdOf[c] => start[d] \in {"none", "raised"}
  /\ at' = [at EXCEPT ![c] = "waiting"]
  /\ start' = [start EXCEPT ![c] = "pending"]
  /\ UNCHANGED <<wait, backoff, hist, conc, ghosts, frames, admitted, faults>>

Due(c) == at[c] = "waiting" /\ wait[c] = 0

\* The connection cannot be made: an error event, or an exception.
Unreachable(c) ==
  /\ Due(c) /\ Fault
  /\ Lose({c}) /\ StartsEnd({c}, TRUE)
  /\ UNCHANGED <<hist, conc, ghosts, frames, admitted>>

\* The server reads `to` where it expects `join`: another task of the client
\* has sent on the new socket before the handshake was over.
SendsEarly(c) ==
  /\ at[c] = "hello" /\ start[c] # "pending" /\ Fault
  /\ Lose({c}) /\ UNCHANGED start
  /\ conc' = conc - 1
  /\ UNCHANGED <<hist, ghosts, frames, admitted>>

\* The client loses its socket; the server has not noticed yet.
Drop(c) ==
  /\ c \in Served /\ Fault
  /\ Lose({c}) /\ \E error \in BOOLEAN : StartsEnd({c}, error)
  /\ ghosts' = ghosts + 1
  /\ UNCHANGED <<hist, conc, frames, admitted>>

-----------------------------------------------------------------------------
(* The server. *)

\* _allow_connection, with this attempt already counted.
Allowed_Before(counted) == Len(counted) - 1 <= ConnMax /\ conc < ConcMax   \* mutant: counted after
Allowed(counted) == Len(counted) <= ConnMax /\ conc < ConcMax

Admit(c) ==
  /\ Due(c) /\ Allowed(Count(hist, ConnWindow))
  /\ hist' = Count(hist, ConnWindow) /\ admitted' = Count(admitted, ConnWindow)
  /\ conc' = conc + 1
  /\ at' = [at EXCEPT ![c] = "hello"]
  /\ UNCHANGED <<wait, backoff, start, ghosts, frames, faults>>

\* Close code 4003; the attempt stays in the window.
Refuse_Leaks(c) ==   \* mutant: the concurrency count is raised before the check
  /\ Due(c) /\ ~Allowed(Count(hist, ConnWindow))
  /\ hist' = Count(hist, ConnWindow)
  /\ Lose({c}) /\ StartsEnd({c}, FALSE)
  /\ conc' = conc + 1
  /\ UNCHANGED <<ghosts, frames, admitted, faults>>
Refuse(c) ==
  /\ Due(c) /\ ~Allowed(Count(hist, ConnWindow))
  /\ hist' = Count(hist, ConnWindow)
  /\ Lose({c}) /\ StartsEnd({c}, FALSE)
  /\ UNCHANGED <<conc, ghosts, frames, admitted, faults>>

\* `joined`: who holds a socket of the same identity is displaced.
Join(c) ==
  LET others == {d \in Clients \ {c} : at[d] = "joined" /\ IdOf[d] = IdOf[c]}
  IN /\ at[c] = "hello"
     /\ at' = [d \in Clients |-> IF d = c THEN "joined"
                                 ELSE IF d \in others THEN "waiting" ELSE at[d]]
     /\ wait' = [d \in Clients |-> IF d \in others THEN backoff[d] ELSE wait[d]]
     /\ backoff' = [d \in Clients |-> IF d = c THEN 1
                                      ELSE IF d \in others THEN Double(backoff[d]) ELSE backoff[d]]
     /\ start' = [start EXCEPT ![c] = IF @ = "pending" THEN "returned" ELSE @]
     /\ conc' = conc - Cardinality(others)
     /\ times' = [times EXCEPT ![c] = <<>>] /\ relayed' = [relayed EXCEPT ![c] = <<>>]
     /\ UNCHANGED <<hist, ghosts, admitted, faults>>

\* The keepalive finds a socket that its client has lost.
GhostEnds ==
  /\ ghosts > 0
  /\ ghosts' = ghosts - 1 /\ conc' = conc - 1
  /\ UNCHANGED <<client, hist, frames, admitted, faults>>

Passes(counted) == Len(counted) <= MsgMax

\* A frame: counted, and relayed unless the window is over its limit.
Send(c) ==
  LET counted == Count(times[c], MsgWindow)
  IN /\ c \in Talkers /\ at[c] = "joined" /\ Len(counted) <= MsgMax + Burst
     /\ times' = [times EXCEPT ![c] = counted]
     /\ relayed' = IF Passes(counted)
                   THEN [relayed EXCEPT ![c] = Count(@, MsgWindow)] ELSE relayed
     /\ UNCHANGED <<client, hist, conc, ghosts, admitted, faults>>

-----------------------------------------------------------------------------
Older(window, length) == [k \in DOMAIN window |-> IF window[k] < length THEN window[k] + 1 ELSE length]

\* Dials and handshakes that are due take less than a tick.
Tick ==
  /\ \A c \in Clients : ~Due(c) /\ at[c] # "hello"
  /\ wait' = [c \in Clients |-> IF wait[c] = 0 THEN 0 ELSE wait[c] - 1]
  /\ hist' = Older(hist, ConnWindow) /\ admitted' = Older(admitted, ConnWindow)
  /\ times' = [c \in Clients |-> Older(times[c], MsgWindow)]
  /\ relayed' = [c \in Clients |-> Older(relayed[c], MsgWindow)]
  /\ UNCHANGED <<at, backoff, start, conc, ghosts, faults>>

Dials(c) == Admit(c) \/ Refuse(c)

Next ==
  \/ \E c \in Clients :
       \/ Start(c) \/ Dials(c) \/ Join(c) \/ Send(c)
       \/ Unreachable(c) \/ SendsEarly(c) \/ Drop(c)
  \/ GhostEnds \/ Tick

Spec == Init /\ [][Next]_vars

\* Time goes on, timers fire, the server answers a join and pings.  Nothing
\* makes a client start or send, or a socket fail.
Fairness ==
  /\ WF_vars(Tick) /\ WF_vars(GhostEnds)
  /\ \A c \in Clients : WF_vars(Dials(c)) /\ WF_vars(Join(c))

FairSpec == Spec /\ Fairness

-----------------------------------------------------------------------------
(* Properties. *)

\* The counter of open connections is exact, whichever way handlers end: too
\* high, and the address would be shut out for good.
ConcExact == conc = Cardinality(Served) + ghosts

\* However attempts are spread, at most ConnMax are let in within a window.
ConnCapped == Len(Within(admitted, ConnWindow)) <= ConnMax

\* Frames that were dropped do not let others slip through: at most MsgMax are
\* relayed within a window.
RelayCapped == \A c \in Clients : Len(Within(relayed[c], MsgWindow)) <= MsgMax

\* Both limits, over every window.
LimitsHold == TypeOK /\ ConnCapped /\ RelayCapped

\* Although attempts that are refused count as well, a client that keeps trying
\* gets in and stays, once its sockets no longer fail.
Recovers == \A c \in Clients : <>[](at[c] \in {"idle", "joined", "ended"})
=============================================================================

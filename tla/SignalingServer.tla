--------------------------- MODULE SignalingServer ---------------------------
(***************************************************************************)
(* The signaling server, signaling/server.py: one asyncio handler per      *)
(* WebSocket connection, all of them sharing the registry `rooms`.         *)
(*                                                                         *)
(* An action is what a handler does from the moment the event loop resumes *)
(* it until its next `await` that really suspends.  A `send` suspends only *)
(* on a socket whose write buffer is full (a connection in Slow) or which  *)
(* is closing; on a closed socket it raises at once.                       *)
(*                                                                         *)
(* Every connection authenticates as one (net, id), given by NetOf and     *)
(* IdOf, and is used once: a reconnecting client is a new connection of    *)
(* the same id.                                                            *)
(***************************************************************************)
EXTENDS Integers, Sequences

CONSTANTS
  Conns,    \* WebSocket connections
  Ids,      \* node ids (Ed25519 public keys)
  Nets,     \* hashed network names
  IdOf,     \* the id a connection proves in its join
  NetOf,    \* the network it joins
  Slow,     \* connections whose client reads slowly: their write buffer fills
  Senders,  \* connections whose client asks the server to relay
  Overlap,  \* may an id join while a handler of its earlier socket is serving?
  None

ASSUME ConstantsAssumption ==
  /\ IdOf \in [Conns -> Ids]
  /\ NetOf \in [Conns -> Nets]
  /\ Slow \subseteq Conns
  /\ Senders \subseteq Conns
  /\ Overlap \in BOOLEAN
  /\ None \notin Conns

VARIABLES
  (* the module's globals *)
  rooms,     \* net -> its room: the dict made by the setdefault of that
             \* connection, or None when the net has no room
  dict,      \* room -> id -> the connection registered, or None
  keys,      \* room -> its ids in insertion order (Python dicts are ordered)
  meta,      \* the (net, id) pairs with an entry in `meta`
  status,    \* the pairs in the status file last written
  (* one handler per connection *)
  pc,        \* where the handler is
  room,      \* its local `room`
  old,       \* its local `old`
  todo,      \* the recipients its broadcast has not reached yet
  (* the sockets *)
  sock,      \* "none", "open", "closing" or "closed"
  waiters,   \* the handlers suspended in a send to this socket, first come first
  (* what the clients learn *)
  welcomed,  \* connections that were sent `joined`
  peers      \* the presence set of a client that reads all it was sent

registry == <<rooms, dict, keys, meta>>
vars == <<rooms, dict, keys, meta, status, pc, room, old, todo, sock,
          waiters, welcomed, peers>>

PC == {"idle", "auth", "displace", "announce", "relay", "forward",
       "farewell", "done"}
SockState == {"none", "open", "closing", "closed"}

TypeOK ==
  /\ rooms \in [Nets -> Conns \cup {None}]
  /\ dict \in [Conns -> [Ids -> Conns \cup {None}]]
  /\ keys \in [Conns -> Seq(Ids)]
  /\ meta \subseteq Nets \X Ids
  /\ status \subseteq Nets \X Ids
  /\ pc \in [Conns -> PC]
  /\ room \in [Conns -> Conns \cup {None}]
  /\ old \in [Conns -> Conns \cup {None}]
  /\ todo \in [Conns -> Seq(Conns \cup {None})]
  /\ sock \in [Conns -> SockState]
  /\ waiters \in [Conns -> Seq(Conns)]
  /\ welcomed \subseteq Conns
  /\ peers \in [Conns -> SUBSET Ids]

Init ==
  /\ rooms = [n \in Nets |-> None]
  /\ dict = [r \in Conns |-> [i \in Ids |-> None]]
  /\ keys = [r \in Conns |-> <<>>]
  /\ meta = {}
  /\ status = {}
  /\ pc = [c \in Conns |-> "idle"]
  /\ room = [c \in Conns |-> None]
  /\ old = [c \in Conns |-> None]
  /\ todo = [c \in Conns |-> <<>>]
  /\ sock = [c \in Conns |-> "none"]
  /\ waiters = [c \in Conns |-> <<>>]
  /\ welcomed = {}
  /\ peers = [c \in Conns |-> {}]

-----------------------------------------------------------------------------
(* The registry. *)

\* rooms.get(net, {}).get(id)
Registered(n, i) == IF rooms[n] = None THEN None ELSE dict[rooms[n]][i]

\* list(rooms.get(net, {}).items()), as the connections in dict order
Recipients(n) ==
  IF rooms[n] = None THEN <<>>
  ELSE LET r == rooms[n]
       IN [k \in 1..Len(keys[r]) |-> dict[r][keys[r][k]]]

HasKey(s, i) == \E k \in DOMAIN s : s[k] = i

\* A dict's key order without key i (del), or with it at the end if new.
WithoutKey(s, i) ==
  LET k == CHOOSE k \in DOMAIN s : s[k] = i
  IN SubSeq(s, 1, k - 1) \o SubSeq(s, k + 1, Len(s))
WithKey(s, i) == IF HasKey(s, i) THEN s ELSE Append(s, i)

-----------------------------------------------------------------------------
(* Sending.  A suspended send is resumed in the order the senders came:    *)
(* websockets drains a socket under a FIFO lock.                           *)

Blocks(s) == sock[s] = "closing" \/ (sock[s] = "open" /\ s \in Slow)

\* The peer-join broadcast leaves out the id that joined (`exclude=node_id`).
Excluded(c, s) == pc[c] \in {"auth", "displace", "announce"} /\ IdOf[s] = IdOf[c]

\* Recipient k of the broadcast t suspends it.
SuspendsAt(c, t, k) == ~Excluded(c, t[k]) /\ Blocks(t[k])

\* Mutant: the broadcast is given up at the first recipient that raises.
Reached_GivesUp(c, t) ==
  {t[k] : k \in {j \in DOMAIN t : \A m \in 1..j : sock[t[m]] = "open"}}

\* The recipients that get the frame before the broadcast suspends or ends.
Reached(c, t) ==
  {t[k] : k \in {j \in DOMAIN t :
    ~Excluded(c, t[j]) /\ sock[t[j]] = "open" /\ \A m \in 1..(j - 1) : ~SuspendsAt(c, t, m)}}

\* c sends on to the recipients t, starting from the send queues w: it ends
\* at `next`, or suspends in `here` with the rest of t still to do.
Broadcast(c, t, w, here, next) ==
  \/ /\ \A k \in DOMAIN t : ~SuspendsAt(c, t, k)
     /\ pc' = [pc EXCEPT ![c] = next]
     /\ todo' = [todo EXCEPT ![c] = <<>>]
     /\ waiters' = w
  \/ \E k \in DOMAIN t :
       /\ SuspendsAt(c, t, k) /\ \A m \in 1..(k - 1) : ~SuspendsAt(c, t, m)
       /\ pc' = [pc EXCEPT ![c] = here]
       /\ todo' = [todo EXCEPT ![c] = SubSeq(t, k + 1, Len(t))]
       /\ waiters' = [w EXCEPT ![t[k]] = Append(@, c)]

\* peer-join and peer-leave, as the client's presence set takes them up.
Arrived(c, t) ==
  [d \in Conns |-> IF d \in Reached(c, t) THEN peers[d] \cup {IdOf[c]}
                   ELSE peers[d]]
Departed(c, t) ==
  [d \in Conns |-> IF d \in Reached(c, t) THEN peers[d] \ {IdOf[c]}
                   ELSE peers[d]]

\* websockets closes a socket whose handler has returned.
SocketAfter(c) ==
  IF pc'[c] = "done" /\ sock[c] = "open" THEN [sock EXCEPT ![c] = "closing"]
  ELSE sock

-----------------------------------------------------------------------------
(* The event loop runs every handler that can run before it takes in       *)
(* another event from the network.                                         *)

\* c heads the queue of senders suspended on s.
SendsTo(c, s) == waiters[s] # <<>> /\ Head(waiters[s]) = c

Runnable(c) ==
  \/ pc[c] = "auth" /\ sock[c] = "closed"
  \/ pc[c] = "displace" /\ sock[old[c]] = "closed"
  \/ pc[c] = "relay" /\ sock[c] = "closed"
  \/ \E s \in Conns : SendsTo(c, s) /\ sock[s] = "closed"

Idle == \A c \in Conns : ~Runnable(c)

\* A frame of c that is already buffered may be handled at any time; a new
\* one is an event from the network.
FrameFrom(c) == sock[c] = "open" => Idle

-----------------------------------------------------------------------------
(* The handler, from the challenge to its `finally`. *)

\* The server accepts the connection and sends the challenge.
Connect(c) ==
  /\ pc[c] = "idle" /\ Idle
  /\ pc' = [pc EXCEPT ![c] = "auth"]
  /\ sock' = [sock EXCEPT ![c] = "open"]
  /\ UNCHANGED <<registry, status, room, old, todo, waiters, welcomed, peers>>

\* A bad or late join, or the socket was lost: close with 4001.
AuthFail(c) ==
  /\ pc[c] = "auth" /\ FrameFrom(c)
  /\ pc' = [pc EXCEPT ![c] = "done"]
  /\ sock' = [sock EXCEPT ![c] = IF @ = "open" THEN "closing" ELSE @]
  /\ UNCHANGED <<registry, status, room, old, todo, waiters, welcomed, peers>>

\* What `meta` holds once c has registered.
MetaKey_NoNet(c) == IdOf[c]   \* mutant: keyed by the id alone
MetaKey(c) == <<NetOf[c], IdOf[c]>>
\* Mutant: the entry of the displaced connection is taken to be still there.
MetaWith_Reuses(c) == IF old[c] = None THEN meta \cup {MetaKey(c)} ELSE meta
MetaWith(c) == meta \cup {MetaKey(c)}

\* From `room[node_id] = ws` to the peer-join broadcast.  A newcomer whose
\* socket is no longer open makes `ws.send` raise out of the handler.
Enroll(c, r) ==
  LET n == NetOf[c]
      i == IdOf[c]
  IN /\ dict' = [dict EXCEPT ![r][i] = c]
     /\ keys' = [keys EXCEPT ![r] = WithKey(@, i)]
     /\ meta' = MetaWith(c)
     /\ status' = meta'
     /\ IF sock[c] = "open"
        THEN /\ welcomed' = welcomed \cup {c}
             /\ peers' = [Arrived(c, Recipients(n)') EXCEPT
                            ![c] = {j \in Ids : dict'[r][j] # None} \ {i}]
             /\ Broadcast(c, Recipients(n)', waiters, "announce", "relay")
        ELSE /\ pc' = [pc EXCEPT ![c] = "done"]
             /\ UNCHANGED <<todo, waiters, welcomed, peers>>

\* With Overlap = FALSE a client comes back only after the server has taken
\* its earlier socket out of the room (the peer-leave may still be under way).
MayJoin(c) ==
  Overlap \/ \A d \in Conns :
    NetOf[d] = NetOf[c] /\ IdOf[d] = IdOf[c] =>
      pc[d] \in {"idle", "auth", "farewell", "done"}

\* The old socket found under the id is closed first, which suspends the
\* handler unless that socket has closed already.
MustWaitFor(o) == o # None /\ sock[o] # "closed"

\* Mutants: the successor registers before the await; the old socket is
\* waited for but not closed.
Displace_Registers(c, r, o) ==
  /\ MustWaitFor(o)
  /\ pc' = [pc EXCEPT ![c] = "displace"]
  /\ sock' = [sock EXCEPT ![o] = "closing"]
  /\ dict' = [dict EXCEPT ![r][IdOf[c]] = c]
  /\ UNCHANGED <<keys, meta, status, todo, waiters, welcomed, peers>>
Displace_NoClose(c, r, o) ==
  /\ MustWaitFor(o)
  /\ pc' = [pc EXCEPT ![c] = "displace"]
  /\ UNCHANGED <<dict, keys, meta, status, todo, sock, waiters, welcomed, peers>>
Displace(c, r, o) ==
  /\ MustWaitFor(o)
  /\ pc' = [pc EXCEPT ![c] = "displace"]
  /\ sock' = [sock EXCEPT ![o] = "closing"]
  /\ UNCHANGED <<dict, keys, meta, status, todo, waiters, welcomed, peers>>

\* A valid join frame.
Join(c) ==
  /\ pc[c] = "auth" /\ FrameFrom(c) /\ MayJoin(c)
  /\ LET n == NetOf[c]
         r == IF rooms[n] = None THEN c ELSE rooms[n]
         o == dict[r][IdOf[c]]
     IN /\ rooms' = [rooms EXCEPT ![n] = r]
        /\ room' = [room EXCEPT ![c] = r]
        /\ old' = [old EXCEPT ![c] = o]
        /\ \/ Displace(c, r, o)
           \/ /\ ~MustWaitFor(o)
              /\ Enroll(c, r)
              /\ UNCHANGED sock

\* `await old.close(code=4002)` returns.
Displaced(c) ==
  /\ pc[c] = "displace" /\ sock[old[c]] = "closed"
  /\ UNCHANGED <<rooms, room, old, sock>>
  /\ Enroll(c, room[c])

\* The handler's `finally`: only the connection that owns the entry removes it.
OwnsEntry_Unchecked(c) == Registered(NetOf[c], IdOf[c]) # None   \* mutant
OwnsEntry(c) == Registered(NetOf[c], IdOf[c]) = c

\* `_write_status` comes after the peer-leave broadcast.
StatusAfterLeave_Early(c) == IF pc'[c] = "done" THEN meta ELSE status   \* mutant
StatusAfterLeave(c) == IF pc'[c] = "done" THEN meta' ELSE status

\* An emptied room is dropped.
RoomsAfterLeave_Keeps(n, d) == rooms   \* mutant
RoomsAfterLeave(n, d) ==
  IF \A i \in Ids : d[rooms[n]][i] = None
  THEN [rooms EXCEPT ![n] = None] ELSE rooms

Leave(c, w) ==
  LET n == NetOf[c]
      i == IdOf[c]
  IN IF OwnsEntry(c)
     THEN /\ dict' = [dict EXCEPT ![rooms[n]][i] = None]
          /\ keys' = [keys EXCEPT ![rooms[n]] = WithoutKey(@, i)]
          /\ meta' = meta \ {MetaKey(c)}
          /\ rooms' = RoomsAfterLeave(n, dict')
          /\ peers' = Departed(c, Recipients(n)')
          /\ Broadcast(c, Recipients(n)', w, "farewell", "done")
          /\ status' = StatusAfterLeave(c)
     ELSE /\ pc' = [pc EXCEPT ![c] = "done"]
          /\ waiters' = w
          /\ UNCHANGED <<registry, status, todo, peers>>

\* recv raises: the socket is gone.
Disconnected(c) ==
  /\ pc[c] = "relay" /\ sock[c] = "closed"
  /\ Leave(c, waiters)
  /\ UNCHANGED <<room, old, sock, welcomed>>

\* A `to` frame for id i: `from` to the connection registered under it, or
\* `no-peer` back.  If that send raises, c's own loop ends.  A frame that is
\* over the rate, too long or malformed changes nothing.
Relay(c, i) ==
  /\ pc[c] = "relay" /\ c \in Senders /\ FrameFrom(c)
  /\ LET target == Registered(NetOf[c], i)
         s == IF target = None THEN c ELSE target
     IN \/ /\ sock[s] = "closed"
           /\ Leave(c, waiters)
        \/ /\ Blocks(s)
           /\ pc' = [pc EXCEPT ![c] = "forward"]
           /\ waiters' = [waiters EXCEPT ![s] = Append(@, c)]
           /\ UNCHANGED <<registry, status, todo, peers>>
        \/ /\ sock[s] = "open" /\ s \notin Slow
           /\ UNCHANGED <<registry, status, pc, todo, waiters, peers>>
  /\ sock' = SocketAfter(c)
  /\ UNCHANGED <<room, old, welcomed>>

-----------------------------------------------------------------------------
(* A suspended send goes on: the client has read, or the socket has closed. *)

Resumable(c, s) == SendsTo(c, s) /\ (sock[s] = "closed" \/ (sock[s] = "open" /\ Idle))

ResumeAnnounce(c) ==
  /\ pc[c] = "announce"
  /\ \E s \in Conns :
       /\ Resumable(c, s)
       /\ peers' = Arrived(c, todo[c])
       /\ Broadcast(c, todo[c], [waiters EXCEPT ![s] = Tail(@)], "announce", "relay")
  /\ UNCHANGED <<registry, status, room, old, sock, welcomed>>

ResumeFarewell(c) ==
  /\ pc[c] = "farewell"
  /\ \E s \in Conns :
       /\ Resumable(c, s)
       /\ peers' = Departed(c, todo[c])
       /\ Broadcast(c, todo[c], [waiters EXCEPT ![s] = Tail(@)], "farewell", "done")
  /\ UNCHANGED <<registry, room, old, welcomed>>
  /\ status' = StatusAfterLeave(c)
  /\ sock' = SocketAfter(c)

ResumeForward(c) ==
  /\ pc[c] = "forward"
  /\ \E s \in Conns :
       /\ Resumable(c, s)
       /\ LET w == [waiters EXCEPT ![s] = Tail(@)]
          IN \/ /\ sock[s] = "closed"
                /\ Leave(c, w)
             \/ /\ sock[s] = "open"
                /\ pc' = [pc EXCEPT ![c] = "relay"]
                /\ waiters' = w
                /\ UNCHANGED <<registry, status, todo, peers>>
  /\ sock' = SocketAfter(c)
  /\ UNCHANGED <<room, old, welcomed>>

-----------------------------------------------------------------------------
(* The network. *)

\* The client closes, its connection is lost, or its pings time out.
Drop(c) ==
  /\ sock[c] = "open" /\ Idle
  /\ sock' = [sock EXCEPT ![c] = "closing"]
  /\ UNCHANGED <<registry, status, pc, room, old, todo, waiters, welcomed, peers>>

\* The closing handshake ends, or close_timeout cuts it short.
SocketClosed(c) ==
  /\ sock[c] = "closing" /\ Idle
  /\ sock' = [sock EXCEPT ![c] = "closed"]
  /\ UNCHANGED <<registry, status, pc, room, old, todo, waiters, welcomed, peers>>

\* What the handler of c does when it can run, whatever the network does.
Resume(c) == ResumeAnnounce(c) \/ ResumeFarewell(c) \/ ResumeForward(c)
Step(c) == Displaced(c) \/ Disconnected(c) \/ Resume(c)

Next ==
  \E c \in Conns :
    \/ Connect(c) \/ AuthFail(c) \/ Join(c)
    \/ \E i \in Ids : Relay(c, i)
    \/ Step(c)
    \/ Drop(c) \/ SocketClosed(c)

Spec == Init /\ [][Next]_vars

\* Every handler that can run does, and comes to the end of the frames that
\* were buffered when its socket closed; a join is answered or timed out
\* within JOIN_TIMEOUT; a closing socket is closed within close_timeout; a
\* client that stops reading misses its pings, so no send is suspended for
\* ever.  (Strong fairness, for these steps wait for the loop to be idle; one
\* condition for all connections where a connection takes the step once.)
Fairness ==
  /\ WF_vars(\E c \in Conns : Displaced(c))
  /\ SF_vars(\E c \in Conns : Disconnected(c))
  /\ SF_vars(\E c \in Conns : AuthFail(c))
  /\ SF_vars(\E c \in Conns : SocketClosed(c))
  /\ \A c \in Conns : SF_vars(Resume(c))

FairSpec == Spec /\ Fairness

-----------------------------------------------------------------------------
(* Properties. *)

Present(n) == {i \in Ids : Registered(n, i) # None}

\* No handler is between two changes that belong together.
Quiet == Idle /\ \A c \in Conns : pc[c] \notin {"displace", "announce", "farewell"}

\* c holds its entry in the room and its handler is serving it.
Serving(c) == pc[c] \in {"relay", "forward"} /\ OwnsEntry(c)

\* Whoever is registered has its entry in `meta`, so the admin tool never
\* misses a member, however displacing and leaving handlers interleave.
MembersInMeta ==
  \A n \in Nets, i \in Ids : Registered(n, i) # None => <<n, i>> \in meta

\* The last one out drops the room, and no join brings back an empty one:
\* `rooms` does not grow with networks nobody is in.
NoEmptyRoom == \A n \in Nets : rooms[n] # None => Present(n) # {}

\* A connection that peers can reach was sent `joined` before anything else;
\* the clients assert that it is the first frame after their join.
WelcomedFirst ==
  \A n \in Nets, i \in Ids :
    LET c == Registered(n, i)
    IN c # None /\ sock[c] = "open" => c \in welcomed

\* Once no leave is under way the status file shows `meta` as it is.
StatusFresh == (\A c \in Conns : pc[c] # "farewell") => status = meta

\* An entry is removed by the handler that made it, never by the clean-up of
\* a connection that was displaced.
SuccessorSafe ==
  [][\A n \in Nets, i \in Ids :
       LET c == Registered(n, i)
       IN c # None /\ Registered(n, i)' = None =>
            pc[c] \in {"relay", "forward"} /\ pc'[c] \in {"farewell", "done"}]_vars

\* When presence has settled, every member being served knows of every other.
PresenceComplete ==
  Quiet => \A c, d \in Conns :
    /\ Serving(c) /\ sock[c] = "open"
    /\ Serving(d) /\ NetOf[d] = NetOf[c] /\ d # c
    => IdOf[d] \in peers[c]

\* When presence has settled, no member believes in a peer nobody registers.
PresenceSound ==
  Quiet => \A c \in Conns :
    Serving(c) /\ sock[c] = "open" => peers[c] \subseteq Present(NetOf[c])

\* Both: presence frames of handlers that broadcast at once leave every member
\* with the room as it is.
PresenceExact == PresenceComplete /\ PresenceSound

\* A handler whose socket is gone ends, although it may be suspended in a send
\* to another socket whose own handler waits in turn.
HandlersFinish == \A c \in Conns : sock[c] = "closed" ~> pc[c] = "done"

\* A join that displaces an older socket is not held up for ever by it.
JoinCompletes ==
  \A c \in Conns : pc[c] = "displace" ~> pc[c] \in {"relay", "done"}

-----------------------------------------------------------------------------
(* What the registry properties rest on, conjunct by conjunct inductive. *)

\* Rooms belong to one network, and handlers keep to the rooms of theirs.
NetsAgree ==
  /\ \A n \in Nets : rooms[n] # None => NetOf[rooms[n]] = n
  /\ \A c \in Conns : room[c] # None => NetOf[room[c]] = NetOf[c]

\* An entry is under the id its connection proved, in the room it joined.
EntriesSound ==
  \A r \in Conns, i \in Ids :
    LET c == dict[r][i]
    IN c # None => /\ IdOf[c] = i /\ room[c] = r
                   /\ pc[c] \notin {"idle", "auth", "displace"}

\* Nobody has heard of the dict of a connection that has not joined.
FreshDicts ==
  \A c \in Conns : pc[c] \in {"idle", "auth"} =>
    /\ \A i \in Ids : dict[c][i] = None
    /\ \A n \in Nets : rooms[n] # c
    /\ \A d \in Conns : room[d] # c

DisplacersKnowRoom == \A c \in Conns : pc[c] = "displace" => room[c] # None

\* Iterating over a dict meets every entry.
KeysCover ==
  \A r \in Conns, i \in Ids :
    dict[r][i] # None => HasKey(keys[r], i)

\* Reachable registries, whatever the interleaving.
RegistryInv ==
  /\ TypeOK /\ NetsAgree /\ EntriesSound /\ FreshDicts /\ DisplacersKnowRoom
  /\ KeysCover /\ MembersInMeta /\ NoEmptyRoom /\ WelcomedFirst /\ StatusFresh

-----------------------------------------------------------------------------
(* What the protocol document says of the server and the code does not do. *)

\* "The server verifies sig against id, then registers the socket under
\* (net, id)": a socket being served has its id registered, by itself or by
\* the connection that displaced it.
ServedAreRegistered ==
  Quiet => \A c \in Conns :
    pc[c] = "relay" /\ sock[c] = "open" => Registered(NetOf[c], IdOf[c]) # None

\* "The server replies with the currently-present peers": an entry is of a
\* connection whose handler has not ended.
EntriesAreServed ==
  \A n \in Nets, i \in Ids :
    Registered(n, i) # None => pc[Registered(n, i)] # "done"

\* "a second connection for the same (net, id) displaces the first": once the
\* handlers are quiet, a room serves one open socket of an id.
OneSocketPerId ==
  Quiet => \A c, d \in Conns :
    /\ \A e \in {c, d} : pc[e] = "relay" /\ sock[e] = "open"
    /\ room[c] = room[d] /\ IdOf[c] = IdOf[d]
    => c = d
=============================================================================

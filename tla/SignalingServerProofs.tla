----------------------- MODULE SignalingServerProofs -----------------------
(***************************************************************************)
(* The registry of the signaling server, for any number of connections,    *)
(* ids and networks: RegistryInv is inductive, and with it type            *)
(* correctness, the safety properties of the registry and SuccessorSafe.   *)
(* Then presence: PresenceInv is inductive while no id comes back too soon *)
(* and nobody relays, and with it PresenceExact.                           *)
(***************************************************************************)
EXTENDS SignalingServer, SequenceTheorems, TLAPS

ConnOrNone == Conns \cup {None}

\* Deleting a key closes the gap that it leaves.
LEMMA WithoutKeyCloses ==
  ASSUME NEW s \in Seq(Ids), NEW i \in Ids, HasKey(s, i)
  PROVE  /\ WithoutKey(s, i) \in Seq(Ids) /\ Len(WithoutKey(s, i)) = Len(s) - 1
         /\ \E p \in 1..Len(s) :
              /\ s[p] = i
              /\ \A m \in 1..(p - 1) : WithoutKey(s, i)[m] = s[m]
              /\ \A m \in p..(Len(s) - 1) : WithoutKey(s, i)[m] = s[m + 1]
<1> DEFINE p == CHOOSE k \in DOMAIN s : s[k] = i
           a == SubSeq(s, 1, p - 1)
           b == SubSeq(s, p + 1, Len(s))
<1>1. p \in 1..Len(s) /\ s[p] = i
  BY DEF HasKey
<1> HIDE DEF p
<1>2. /\ a \in Seq(Ids) /\ Len(a) = p - 1
      /\ \A m \in 1..(p - 1) : a[m] = s[m]
  <2>1. \A m \in 1..(p - 1) : s[m] \in Ids
    BY <1>1
  <2>2. QED
    BY <1>1, <2>1, SubSeqProperties
<1>3. /\ b \in Seq(Ids) /\ Len(b) = Len(s) - p
      /\ \A m \in 1..(Len(s) - p) : b[m] = s[p + m]
  <2>1. \A m \in (p + 1)..Len(s) : s[m] \in Ids
    BY <1>1
  <2>2. /\ b \in Seq(Ids)
        /\ Len(b) = IF p + 1 <= Len(s) THEN Len(s) - (p + 1) + 1 ELSE 0
        /\ \A m \in 1 .. Len(s) - (p + 1) + 1 : b[m] = s[p + 1 + m - 1]
    BY <1>1, <2>1, SubSeqProperties
  <2>3. QED
    BY <1>1, <2>2
<1> HIDE DEF a, b
<1>4. /\ a \o b \in Seq(Ids) /\ Len(a \o b) = Len(s) - 1
      /\ \A m \in 1..(p - 1) : (a \o b)[m] = s[m]
      /\ \A m \in p..(Len(s) - 1) : (a \o b)[m] = s[m + 1]
  <2>1. /\ a \o b \in Seq(Ids) /\ Len(a \o b) = Len(a) + Len(b)
        /\ \A m \in 1 .. Len(a) + Len(b) :
             (a \o b)[m] = IF m <= Len(a) THEN a[m] ELSE b[m - Len(a)]
    BY <1>2, <1>3, ConcatProperties
  <2>2. ASSUME NEW m \in p..(Len(s) - 1)
        PROVE  (a \o b)[m] = s[m + 1]
    <3>1. m - Len(a) \in 1..(Len(s) - p) /\ p + (m - Len(a)) = m + 1
      BY <1>1, <1>2
    <3>2. QED
      BY <1>1, <1>2, <1>3, <2>1, <3>1
  <2>3. QED
    BY <1>1, <1>2, <1>3, <2>1, <2>2
<1>5. WithoutKey(s, i) = a \o b
  BY DEF WithoutKey, a, b, p
<1>6. QED
  BY <1>1, <1>4, <1>5

\* Deleting a key keeps every other key, and the order a sequence of ids.
LEMMA WithoutKeyProperties ==
  ASSUME NEW s \in Seq(Ids), NEW i \in Ids, HasKey(s, i)
  PROVE  /\ WithoutKey(s, i) \in Seq(Ids)
         /\ \A j \in Ids \ {i} : HasKey(s, j) => HasKey(WithoutKey(s, i), j)
<1> DEFINE q == WithoutKey(s, i)
<1>1. q \in Seq(Ids) /\ DOMAIN q = 1..(Len(s) - 1) /\ Len(s) \in Nat
  BY WithoutKeyCloses
<1>2. PICK p \in 1..Len(s) :
        /\ s[p] = i
        /\ \A m \in 1..(p - 1) : q[m] = s[m]
        /\ \A m \in p..(Len(s) - 1) : q[m] = s[m + 1]
  BY WithoutKeyCloses
<1> HIDE DEF q
<1>3. ASSUME NEW j \in Ids \ {i}, NEW k \in DOMAIN s, s[k] = j
      PROVE  \E m \in DOMAIN q : q[m] = j
  <2>1. CASE k < p
    <3>1. k \in 1..(p - 1) /\ k \in 1..(Len(s) - 1)
      BY <1>2, <2>1
    <3>2. QED
      BY <1>1, <1>2, <1>3, <3>1
  <2>2. CASE k > p
    <3>1. k - 1 \in p..(Len(s) - 1) /\ k - 1 \in 1..(Len(s) - 1) /\ (k - 1) + 1 = k
      BY <1>2, <2>2
    <3>2. QED
      BY <1>1, <1>2, <1>3, <3>1
  <2>3. k # p
    BY <1>2, <1>3
  <2>4. QED
    BY <1>2, <2>1, <2>2, <2>3
<1>4. QED
  BY <1>1, <1>3 DEF HasKey, q

\* Setting a key keeps every other key and adds this one.
LEMMA WithKeyProperties ==
  ASSUME NEW s \in Seq(Ids), NEW i \in Ids
  PROVE  /\ WithKey(s, i) \in Seq(Ids)
         /\ HasKey(WithKey(s, i), i)
         /\ \A j \in Ids : HasKey(s, j) => HasKey(WithKey(s, i), j)
<1>1. CASE HasKey(s, i)
  BY <1>1 DEF WithKey
<1>2. CASE ~HasKey(s, i)
  <2>1. WithKey(s, i) = Append(s, i)
    BY <1>2 DEF WithKey
  <2>2. /\ Append(s, i) \in Seq(Ids) /\ Len(Append(s, i)) = Len(s) + 1
        /\ \A k \in 1..Len(s) : Append(s, i)[k] = s[k]
        /\ Append(s, i)[Len(s) + 1] = i
    BY AppendProperties
  <2>3. DOMAIN s = 1..Len(s) /\ DOMAIN Append(s, i) = 1..(Len(s) + 1)
    BY <2>2
  <2>4. QED
    BY <2>1, <2>2, <2>3 DEF HasKey
<1>3. QED
  BY <1>1, <1>2

\* The snapshot a broadcast iterates over is a sequence of connections.
Listing(q, D, K) == [k \in 1..Len(K[q]) |-> D[q][K[q][k]]]

LEMMA ListingType ==
  ASSUME NEW q \in Conns, NEW D \in [Conns -> [Ids -> ConnOrNone]],
         NEW K \in [Conns -> Seq(Ids)]
  PROVE  Listing(q, D, K) \in Seq(ConnOrNone)
<1>1. K[q] \in Seq(Ids) /\ D[q] \in [Ids -> ConnOrNone]
  OBVIOUS
<1>2. Len(K[q]) \in Nat /\ \A k \in 1..Len(K[q]) : K[q][k] \in Ids
  BY <1>1, ElementOfSeq, LenProperties
<1>3. \A k \in 1..Len(K[q]) : D[q][K[q][k]] \in ConnOrNone
  BY <1>1, <1>2
<1>4. QED
  BY <1>2, <1>3, IsASeq DEF Listing

LEMMA RecipientsType ==
  ASSUME NEW n \in Nets, rooms' \in [Nets -> ConnOrNone],
         dict' \in [Conns -> [Ids -> ConnOrNone]], keys' \in [Conns -> Seq(Ids)]
  PROVE  Recipients(n)' \in Seq(ConnOrNone)
<1>1. CASE rooms'[n] = None
  <2>1. Recipients(n)' = <<>>
    BY <1>1 DEF Recipients
  <2>2. QED
    BY <2>1, EmptySeq
<1>2. CASE rooms'[n] # None
  <2>1. rooms'[n] \in Conns
    BY <1>2 DEF ConnOrNone
  <2>2. Recipients(n)' = Listing(rooms'[n], dict', keys')
    BY <1>2, Zenon DEF Recipients, Listing
  <2>3. QED
    BY <2>1, <2>2, ListingType
<1>3. QED
  BY <1>1, <1>2

\* A broadcast leaves the handler where it says, with a rest still to do.
LEMMA BroadcastType ==
  ASSUME TypeOK, NEW c \in Conns, NEW t \in Seq(ConnOrNone),
         NEW w \in [Conns -> Seq(Conns)], NEW here \in PC, NEW next \in PC,
         Broadcast(c, t, w, here, next)
  PROVE  /\ pc' = [pc EXCEPT ![c] = here] \/ pc' = [pc EXCEPT ![c] = next]
         /\ pc' \in [Conns -> PC]
         /\ todo' \in [Conns -> Seq(ConnOrNone)]
         /\ waiters' \in [Conns -> Seq(Conns)]
<1>1. CASE /\ pc' = [pc EXCEPT ![c] = next]
           /\ todo' = [todo EXCEPT ![c] = <<>>]
           /\ waiters' = w
  <2>1. <<>> \in Seq(ConnOrNone)
    BY EmptySeq
  <2>2. QED
    BY <1>1, <2>1 DEF TypeOK, ConnOrNone
<1>2. ASSUME NEW k \in DOMAIN t,
             pc' = [pc EXCEPT ![c] = here],
             todo' = [todo EXCEPT ![c] = SubSeq(t, k + 1, Len(t))],
             waiters' = [w EXCEPT ![t[k]] = Append(@, c)]
      PROVE  /\ pc' \in [Conns -> PC]
             /\ todo' \in [Conns -> Seq(ConnOrNone)]
             /\ waiters' \in [Conns -> Seq(Conns)]
  <2>1. k \in 1..Len(t) /\ Len(t) \in Nat
    BY LenProperties
  <2>2. \A m \in (k + 1)..Len(t) : t[m] \in ConnOrNone
    BY <2>1, ElementOfSeq
  <2>3. SubSeq(t, k + 1, Len(t)) \in Seq(ConnOrNone)
    BY <2>1, <2>2, SubSeqProperties
  <2>4. \A s \in Conns : Append(w[s], c) \in Seq(Conns)
    BY AppendProperties
  <2>5. waiters' \in [Conns -> Seq(Conns)]
    BY <1>2, <2>4
  <2>6. todo' \in [Conns -> Seq(ConnOrNone)]
    BY <1>2, <2>3 DEF TypeOK, ConnOrNone
  <2>7. QED
    BY <1>2, <2>5, <2>6 DEF TypeOK
<1>3. QED
  BY <1>1, <1>2 DEF Broadcast

\* What a presence frame does to a set of peers stays a set of ids.
LEMMA PresenceType ==
  ASSUME TypeOK, ConstantsAssumption, NEW c \in Conns, NEW t
  PROVE  /\ Arrived(c, t) \in [Conns -> SUBSET Ids]
         /\ Departed(c, t) \in [Conns -> SUBSET Ids]
BY DEF TypeOK, ConstantsAssumption, Arrived, Departed

\* Registering c in room r keeps the registry consistent.  The hypotheses are
\* what Join and Displaced have in common.
LEMMA EnrollKeepsInv ==
  ASSUME RegistryInv, ConstantsAssumption, NEW c \in Conns, NEW r \in Conns,
         pc[c] \in {"auth", "displace"}, NetOf[r] = NetOf[c],
         r = c \/ pc[r] \notin {"idle", "auth"},
         rooms' \in [Nets -> ConnOrNone],
         \A n \in Nets : \/ rooms'[n] = rooms[n]
                         \/ /\ n = NetOf[c] /\ rooms[n] = None
                            /\ rooms'[n] = c /\ r = c /\ pc[c] = "auth",
         room' = [room EXCEPT ![c] = r], old' \in [Conns -> ConnOrNone],
         sock' = sock, Enroll(c, r)
  PROVE  RegistryInv'
<1> DEFINE n0 == NetOf[c]
           i0 == IdOf[c]
<1>1. TypeOK /\ n0 \in Nets /\ i0 \in Ids
  BY DEF RegistryInv, ConstantsAssumption
<1> USE <1>1
<1>2. /\ dict' = [dict EXCEPT ![r][i0] = c]
      /\ keys' = [keys EXCEPT ![r] = WithKey(@, i0)]
      /\ meta' = meta \cup {<<n0, i0>>} /\ status' = meta'
  BY DEF Enroll, MetaWith, MetaKey
<1>3. /\ dict' \in [Conns -> [Ids -> ConnOrNone]]
      /\ dict'[r][i0] = c
      /\ \A q \in Conns, i \in Ids : q # r \/ i # i0 => dict'[q][i] = dict[q][i]
  BY <1>2 DEF TypeOK, ConnOrNone
<1>4. /\ keys' \in [Conns -> Seq(Ids)]
      /\ keys'[r] = WithKey(keys[r], i0)
      /\ \A q \in Conns : q # r => keys'[q] = keys[q]
  <2>1. keys[r] \in Seq(Ids) /\ WithKey(keys[r], i0) \in Seq(Ids)
    BY WithKeyProperties DEF TypeOK
  <2>2. QED
    BY <1>2, <2>1 DEF TypeOK
<1>5. /\ pc' \in [Conns -> PC]
      /\ pc'[c] \in {"announce", "relay", "done"}
      /\ \A d \in Conns : d # c => pc'[d] = pc[d]
      /\ todo' \in [Conns -> Seq(ConnOrNone)]
      /\ waiters' \in [Conns -> Seq(Conns)]
      /\ welcomed' \subseteq Conns /\ welcomed \subseteq welcomed'
      /\ sock[c] = "open" => c \in welcomed'
      /\ peers' \in [Conns -> SUBSET Ids]
  <2>1. CASE sock[c] = "open"
    <3>1. Recipients(n0)' \in Seq(ConnOrNone)
      BY <1>3, <1>4, RecipientsType
    <3>2. /\ welcomed' = welcomed \cup {c}
          /\ peers' = [Arrived(c, Recipients(n0)') EXCEPT
                        ![c] = {j \in Ids : dict'[r][j] # None} \ {i0}]
          /\ Broadcast(c, Recipients(n0)', waiters, "announce", "relay")
      BY <2>1 DEF Enroll
    <3>3. /\ pc' = [pc EXCEPT ![c] = "announce"] \/ pc' = [pc EXCEPT ![c] = "relay"]
          /\ pc' \in [Conns -> PC]
          /\ todo' \in [Conns -> Seq(ConnOrNone)]
          /\ waiters' \in [Conns -> Seq(Conns)]
      <4>1. "announce" \in PC /\ "relay" \in PC /\ waiters \in [Conns -> Seq(Conns)]
        BY DEF PC, TypeOK
      <4> DEFINE t == Recipients(n0)'
      <4>2. t \in Seq(ConnOrNone) /\ Broadcast(c, t, waiters, "announce", "relay")
        BY <3>1, <3>2
      <4> HIDE DEF t
      <4>3. QED
        BY <4>1, <4>2, BroadcastType
    <3>4. peers' \in [Conns -> SUBSET Ids]
      <4>1. Arrived(c, Recipients(n0)') \in [Conns -> SUBSET Ids]
        BY PresenceType
      <4>2. QED
        BY <3>2, <4>1
    <3>5. QED
      BY <3>2, <3>3, <3>4 DEF TypeOK
  <2>2. CASE sock[c] # "open"
    <3>1. /\ pc' = [pc EXCEPT ![c] = "done"]
          /\ UNCHANGED <<todo, waiters, welcomed, peers>>
      BY <2>2 DEF Enroll
    <3>2. QED
      BY <2>2, <3>1 DEF TypeOK, PC, ConnOrNone
  <2>3. QED
    BY <2>1, <2>2
<1>6. TypeOK'
  BY <1>2, <1>3, <1>4, <1>5 DEF TypeOK, ConnOrNone
<1>7. NetsAgree'
  BY DEF RegistryInv, NetsAgree, TypeOK
<1>8. EntriesSound'
  <2> SUFFICES ASSUME NEW q \in Conns, NEW i \in Ids, dict'[q][i] # None
               PROVE  /\ IdOf[dict'[q][i]] = i /\ room'[dict'[q][i]] = q
                      /\ pc'[dict'[q][i]] \notin {"idle", "auth", "displace"}
    BY DEF EntriesSound
  <2>1. CASE q = r /\ i = i0
    BY <1>3, <1>5, <2>1 DEF TypeOK
  <2>2. CASE q # r \/ i # i0
    <3> DEFINE d == dict[q][i]
    <3>1. dict'[q][i] = d /\ d # None /\ d \in Conns
      BY <1>3, <2>2 DEF TypeOK
    <3>2. /\ IdOf[d] = i /\ room[d] = q
          /\ pc[d] \notin {"idle", "auth", "displace"}
      BY <3>1 DEF RegistryInv, EntriesSound
    <3>3. d # c
      BY <3>2
    <3>4. QED
      BY <1>5, <3>1, <3>2, <3>3 DEF TypeOK
  <2>3. QED
    BY <2>1, <2>2
<1>9. FreshDicts'
  <2> SUFFICES ASSUME NEW f \in Conns, pc'[f] \in {"idle", "auth"}
               PROVE  /\ \A i \in Ids : dict'[f][i] = None
                      /\ \A n \in Nets : rooms'[n] # f
                      /\ \A d \in Conns : room'[d] # f
    BY DEF FreshDicts
  <2>1. f # c /\ pc[f] \in {"idle", "auth"}
    BY <1>5
  <2>2. f # r
    BY <2>1
  <2>3. QED
    BY <1>3, <2>1, <2>2 DEF RegistryInv, FreshDicts, TypeOK
<1>10. DisplacersKnowRoom'
  BY <1>5 DEF RegistryInv, DisplacersKnowRoom, TypeOK
<1>11. KeysCover'
  <2> SUFFICES ASSUME NEW q \in Conns, NEW i \in Ids, dict'[q][i] # None
               PROVE  HasKey(keys'[q], i)
    BY DEF KeysCover, HasKey
  <2>1. q # r \/ i # i0 => HasKey(keys[q], i)
    BY <1>3 DEF RegistryInv, KeysCover
  <2>2. CASE q # r
    BY <1>4, <2>1, <2>2, Zenon
  <2>3. keys[r] \in Seq(Ids)
    BY DEF TypeOK
  <2>4. CASE q = r
    <3>1. HasKey(WithKey(keys[r], i0), i0)
      BY <2>3, WithKeyProperties
    <3>2. i # i0 => HasKey(WithKey(keys[r], i0), i)
      BY <2>1, <2>3, <2>4, WithKeyProperties
    <3>3. QED
      BY <1>4, <2>4, <3>1, <3>2, Zenon
  <2>5. QED
    BY <2>2, <2>4
<1>12. \A n \in Nets, i \in Ids : Registered(n, i)' # None =>
         \/ Registered(n, i)' = Registered(n, i)
         \/ n = n0 /\ i = i0 /\ Registered(n, i)' = c
  <2> SUFFICES ASSUME NEW n \in Nets, NEW i \in Ids, Registered(n, i)' # None
               PROVE  \/ Registered(n, i)' = Registered(n, i)
                      \/ n = n0 /\ i = i0 /\ Registered(n, i)' = c
    OBVIOUS
  <2>1. CASE rooms'[n] = rooms[n]
    <3>1. rooms[n] # None /\ rooms[n] \in Conns /\ NetOf[rooms[n]] = n
      BY <2>1 DEF Registered, RegistryInv, NetsAgree, TypeOK
    <3>2. QED
      BY <1>3, <2>1, <3>1 DEF Registered
  <2>2. CASE n = n0 /\ rooms'[n] = c /\ r = c /\ pc[c] = "auth"
    <3>1. \A j \in Ids : dict[c][j] = None
      BY <2>2 DEF RegistryInv, FreshDicts
    <3>2. c # None /\ Registered(n, i)' = dict'[c][i]
      BY <2>2 DEF Registered, ConstantsAssumption
    <3>3. i = i0
      BY <1>3, <2>2, <3>1, <3>2
    <3>4. QED
      BY <1>3, <2>2, <3>2, <3>3
  <2>3. QED
    BY <2>1, <2>2
<1>13. MembersInMeta'
  BY <1>2, <1>12 DEF RegistryInv, MembersInMeta
<1>14. NoEmptyRoom'
  <2> SUFFICES ASSUME NEW n \in Nets, rooms'[n] # None
               PROVE  \E i \in Ids : Registered(n, i)' # None
    BY DEF NoEmptyRoom, Present
  <2>1. CASE rooms'[n] = rooms[n]
    <3>1. PICK i \in Ids : Registered(n, i) # None
      BY <2>1 DEF RegistryInv, NoEmptyRoom, Present
    <3>2. rooms[n] \in Conns /\ dict[rooms[n]][i] # None
      BY <2>1, <3>1 DEF Registered, TypeOK
    <3>3. dict'[rooms[n]][i] # None
      BY <1>3, <3>2 DEF ConstantsAssumption
    <3>4. QED
      BY <2>1, <3>2, <3>3 DEF Registered
  <2>2. CASE rooms'[n] = c /\ r = c
    BY <1>3, <2>2 DEF Registered, ConstantsAssumption
  <2>3. QED
    BY <2>1, <2>2
<1>15. WelcomedFirst'
  <2> SUFFICES ASSUME NEW n \in Nets, NEW i \in Ids, Registered(n, i)' # None,
                      sock[Registered(n, i)'] = "open"
               PROVE  Registered(n, i)' \in welcomed'
    BY DEF WelcomedFirst
  <2>1. CASE Registered(n, i)' = Registered(n, i)
    BY <1>5, <2>1 DEF RegistryInv, WelcomedFirst
  <2>2. CASE Registered(n, i)' = c
    BY <1>5, <2>2
  <2>3. QED
    BY <1>12, <2>1, <2>2
<1>16. StatusFresh'
  BY <1>2 DEF StatusFresh
<1>17. QED
  BY <1>6, <1>7, <1>8, <1>9, <1>10, <1>11, <1>13, <1>14, <1>15, <1>16 DEF RegistryInv

\* The steps that leave the registry alone: handlers only move forward, a
\* socket opens only for a new connection, and a displacing join remembers a
\* room of its network that is in use.
LEMMA FrameKeepsInv ==
  ASSUME RegistryInv, TypeOK', UNCHANGED registry,
         \A d \in Conns : pc'[d] \in {"idle", "auth"} => pc[d] \in {"idle", "auth"},
         \A d \in Conns : pc'[d] = "displace" => pc[d] \in {"auth", "displace"},
         \A d \in Conns : \/ room'[d] = room[d] /\ (pc'[d] = "displace" => pc[d] = "displace")
                          \/ /\ pc[d] = "auth" /\ room'[d] \in Conns
                             /\ NetOf[room'[d]] = NetOf[d]
                             /\ pc[room'[d]] \notin {"idle", "auth"},
         \A d \in Conns : sock'[d] = "open" => sock[d] = "open" \/ pc[d] = "idle",
         welcomed \subseteq welcomed', StatusFresh'
  PROVE  RegistryInv'
<1>1. rooms' = rooms /\ dict' = dict /\ keys' = keys /\ meta' = meta
  BY DEF registry
<1>2. \A n \in Nets, i \in Ids : Registered(n, i)' = Registered(n, i)
  BY <1>1 DEF Registered
<1>3. NetsAgree'
  BY <1>1 DEF RegistryInv, NetsAgree
<1>4. EntriesSound'
  <2> SUFFICES ASSUME NEW q \in Conns, NEW i \in Ids, dict'[q][i] # None
               PROVE  /\ IdOf[dict'[q][i]] = i /\ room'[dict'[q][i]] = q
                      /\ pc'[dict'[q][i]] \notin {"idle", "auth", "displace"}
    BY DEF EntriesSound
  <2> DEFINE d == dict[q][i]
  <2>1. d \in Conns /\ dict'[q][i] = d
    BY <1>1 DEF RegistryInv, TypeOK
  <2>2. IdOf[d] = i /\ room[d] = q /\ pc[d] \notin {"idle", "auth", "displace"}
    BY <2>1 DEF RegistryInv, EntriesSound
  <2>3. QED
    BY <2>1, <2>2
<1>5. FreshDicts'
  BY <1>1 DEF RegistryInv, FreshDicts
<1>6. DisplacersKnowRoom'
  <2> SUFFICES ASSUME NEW d \in Conns, pc'[d] = "displace"
               PROVE  room'[d] # None
    BY DEF DisplacersKnowRoom
  <2>1. CASE room'[d] = room[d] /\ pc[d] = "displace"
    BY <2>1 DEF RegistryInv, DisplacersKnowRoom
  <2>2. CASE room'[d] \in Conns
    BY <2>2, ConstantsAssumption DEF ConstantsAssumption
  <2>3. QED
    BY <2>1, <2>2
<1>7. KeysCover' /\ MembersInMeta'
  BY <1>1, <1>2 DEF RegistryInv, KeysCover, MembersInMeta
<1>8. NoEmptyRoom'
  BY <1>1, <1>2 DEF RegistryInv, NoEmptyRoom, Present
<1>9. WelcomedFirst'
  <2> SUFFICES ASSUME NEW n \in Nets, NEW i \in Ids, Registered(n, i) # None,
                      sock'[Registered(n, i)] = "open"
               PROVE  Registered(n, i) \in welcomed
    BY <1>2 DEF WelcomedFirst
  <2> DEFINE d == Registered(n, i)
  <2>1. rooms[n] \in Conns /\ d = dict[rooms[n]][i] /\ d \in Conns
    BY DEF Registered, RegistryInv, TypeOK
  <2>2. pc[d] # "idle"
    BY <2>1 DEF RegistryInv, EntriesSound
  <2>3. sock[d] = "open"
    BY <2>1, <2>2
  <2>4. QED
    BY <2>1, <2>3 DEF RegistryInv, WelcomedFirst
<1>10. QED
  BY <1>3, <1>4, <1>5, <1>6, <1>7, <1>8, <1>9 DEF RegistryInv

\* The clean-up of c keeps the registry consistent and removes no entry but
\* that of c.
LEMMA LeaveKeepsInv ==
  ASSUME RegistryInv, ConstantsAssumption, NEW c \in Conns,
         pc[c] \in {"relay", "forward"}, NEW w \in [Conns -> Seq(Conns)],
         Leave(c, w), room' = room, old' = old, welcomed' = welcomed,
         sock' \in [Conns -> SockState],
         \A d \in Conns : sock'[d] = "open" => sock[d] = "open"
  PROVE  /\ RegistryInv'
         /\ pc'[c] \in {"farewell", "done"}
         /\ \A n \in Nets, i \in Ids :
              Registered(n, i) # None /\ Registered(n, i)' = None => Registered(n, i) = c
<1> DEFINE n0 == NetOf[c]
           i0 == IdOf[c]
<1>1. TypeOK /\ n0 \in Nets /\ i0 \in Ids
  BY DEF RegistryInv, ConstantsAssumption
<1> USE <1>1
<1>2. CASE ~OwnsEntry(c)
  <2>1. /\ pc' = [pc EXCEPT ![c] = "done"] /\ waiters' = w
        /\ UNCHANGED <<registry, status, todo, peers>>
    BY <1>2 DEF Leave
  <2>2. rooms' = rooms /\ dict' = dict /\ keys' = keys /\ meta' = meta
    BY <2>1 DEF registry
  <2>3. TypeOK'
    BY <2>1, <2>2 DEF TypeOK, PC
  <2>4. StatusFresh'
    BY <2>1, <2>2 DEF RegistryInv, StatusFresh, TypeOK
  <2>5. RegistryInv'
    BY <2>1, <2>3, <2>4, FrameKeepsInv DEF TypeOK
  <2>6. QED
    BY <2>1, <2>2, <2>5 DEF TypeOK, Registered
<1>3. CASE OwnsEntry(c)
  <2> DEFINE r0 == rooms[n0]
  <2>1. r0 \in Conns /\ dict[r0][i0] = c /\ NetOf[r0] = n0
    BY <1>3, ConstantsAssumption DEF OwnsEntry, Registered, RegistryInv, NetsAgree, TypeOK,
       ConstantsAssumption
  <2>2. /\ dict' = [dict EXCEPT ![r0][i0] = None]
        /\ keys' = [keys EXCEPT ![r0] = WithoutKey(@, i0)]
        /\ meta' = meta \ {<<n0, i0>>}
        /\ rooms' = RoomsAfterLeave(n0, dict')
        /\ peers' = Departed(c, Recipients(n0)')
        /\ Broadcast(c, Recipients(n0)', w, "farewell", "done")
        /\ status' = StatusAfterLeave(c)
    BY <1>3 DEF Leave, MetaKey
  <2>3. /\ dict' \in [Conns -> [Ids -> ConnOrNone]]
        /\ dict'[r0][i0] = None
        /\ \A q \in Conns, i \in Ids : q # r0 \/ i # i0 => dict'[q][i] = dict[q][i]
    BY <2>1, <2>2 DEF TypeOK, ConnOrNone
  <2>4. /\ keys[r0] \in Seq(Ids) /\ HasKey(keys[r0], i0)
        /\ WithoutKey(keys[r0], i0) \in Seq(Ids)
    <3>1. keys[r0] \in Seq(Ids) /\ HasKey(keys[r0], i0)
      BY <2>1, ConstantsAssumption DEF RegistryInv, KeysCover, TypeOK, ConstantsAssumption
    <3>2. QED
      BY <3>1, WithoutKeyProperties
  <2>5. /\ keys' \in [Conns -> Seq(Ids)]
        /\ keys'[r0] = WithoutKey(keys[r0], i0)
        /\ \A q \in Conns : q # r0 => keys'[q] = keys[q]
    BY <2>1, <2>2, <2>4 DEF TypeOK
  <2>6. /\ rooms' \in [Nets -> ConnOrNone]
        /\ \A n \in Nets : n # n0 => rooms'[n] = rooms[n]
        /\ rooms'[n0] = r0 \/ (rooms'[n0] = None /\ \A i \in Ids : dict'[r0][i] = None)
        /\ rooms'[n0] = r0 => \E i \in Ids : dict'[r0][i] # None
    BY <2>1, <2>2, ConstantsAssumption DEF RoomsAfterLeave, TypeOK, ConnOrNone, ConstantsAssumption
  <2>7. /\ pc' \in [Conns -> PC] /\ pc'[c] \in {"farewell", "done"}
        /\ \A d \in Conns : d # c => pc'[d] = pc[d]
        /\ todo' \in [Conns -> Seq(ConnOrNone)]
        /\ waiters' \in [Conns -> Seq(Conns)]
    <3> DEFINE t == Recipients(n0)'
    <3>1. t \in Seq(ConnOrNone) /\ Broadcast(c, t, w, "farewell", "done")
      BY <2>2, <2>3, <2>5, <2>6, RecipientsType
    <3>2. "farewell" \in PC /\ "done" \in PC
      BY DEF PC
    <3> HIDE DEF t
    <3>3. /\ pc' = [pc EXCEPT ![c] = "farewell"] \/ pc' = [pc EXCEPT ![c] = "done"]
          /\ pc' \in [Conns -> PC]
          /\ todo' \in [Conns -> Seq(ConnOrNone)]
          /\ waiters' \in [Conns -> Seq(Conns)]
      BY <3>1, <3>2, BroadcastType
    <3>4. QED
      BY <3>3 DEF TypeOK
  <2>8. peers' \in [Conns -> SUBSET Ids]
    BY <2>2, PresenceType
  <2>9. /\ meta' \subseteq Nets \X Ids /\ status' \subseteq Nets \X Ids
        /\ pc'[c] = "done" => status' = meta'
        /\ pc'[c] # "done" => status' = status
    BY <2>2 DEF StatusAfterLeave, TypeOK
  <2>10. TypeOK'
    BY <2>3, <2>5, <2>6, <2>7, <2>8, <2>9 DEF TypeOK, ConnOrNone
  <2>11. NetsAgree' /\ DisplacersKnowRoom'
    <3>1. \A n \in Nets : rooms'[n] # None => NetOf[rooms'[n]] = n
      <4> SUFFICES ASSUME NEW n \in Nets, rooms'[n] # None
                   PROVE  NetOf[rooms'[n]] = n
        OBVIOUS
      <4>1. CASE n = n0
        <5>1. rooms'[n] = r0
          BY <2>6, <4>1
        <5>2. QED
          BY <2>1, <4>1, <5>1, Zenon
      <4>2. CASE n # n0
        BY <2>6, <4>2 DEF RegistryInv, NetsAgree
      <4>3. QED
        BY <4>1, <4>2
    <3>2. \A d \in Conns : pc'[d] = "displace" => pc[d] = "displace"
      BY <2>7
    <3>3. QED
      BY <3>1, <3>2 DEF RegistryInv, NetsAgree, DisplacersKnowRoom
  <2>12. EntriesSound'
    <3> SUFFICES ASSUME NEW q \in Conns, NEW i \in Ids, dict'[q][i] # None
                 PROVE  /\ IdOf[dict'[q][i]] = i /\ room'[dict'[q][i]] = q
                        /\ pc'[dict'[q][i]] \notin {"idle", "auth", "displace"}
      BY DEF EntriesSound
    <3> DEFINE d == dict[q][i]
    <3>1. dict'[q][i] = d /\ d # None /\ d \in Conns
      BY <2>3 DEF TypeOK
    <3>2. IdOf[d] = i /\ room[d] = q /\ pc[d] \notin {"idle", "auth", "displace"}
      BY <3>1 DEF RegistryInv, EntriesSound
    <3>3. QED
      BY <2>7, <3>1, <3>2
  <2>13. FreshDicts'
    <3>1. \A f \in Conns : pc'[f] \in {"idle", "auth"} => pc[f] \in {"idle", "auth"}
      BY <2>7
    <3>2. \A q \in Conns, i \in Ids : dict'[q][i] = dict[q][i] \/ dict'[q][i] = None
      BY <2>3
    <3>3. \A n \in Nets : rooms'[n] = rooms[n] \/ rooms'[n] = None
      BY <2>6
    <3> SUFFICES ASSUME NEW f \in Conns, pc'[f] \in {"idle", "auth"}
                 PROVE  /\ \A i \in Ids : dict'[f][i] = None
                        /\ \A n \in Nets : rooms'[n] # f
                        /\ \A d \in Conns : room'[d] # f
      BY DEF FreshDicts
    <3>4. /\ \A i \in Ids : dict[f][i] = None
          /\ \A n \in Nets : rooms[n] # f
          /\ \A d \in Conns : room[d] # f
      BY <3>1 DEF RegistryInv, FreshDicts
    <3>5. f # None
      BY DEF ConstantsAssumption
    <3>6. QED
      BY <3>2, <3>3, <3>4, <3>5
  <2>14. KeysCover'
    <3> SUFFICES ASSUME NEW q \in Conns, NEW i \in Ids, dict'[q][i] # None
                 PROVE  HasKey(keys'[q], i)
      BY DEF KeysCover, HasKey
    <3>1. (q # r0 \/ i # i0) /\ HasKey(keys[q], i)
      BY <2>3 DEF RegistryInv, KeysCover
    <3>2. CASE q # r0
      BY <2>5, <3>1, <3>2, Zenon
    <3>3. CASE q = r0
      <4>1. HasKey(WithoutKey(keys[r0], i0), i)
        BY <2>4, <3>1, <3>3, WithoutKeyProperties
      <4>2. QED
        BY <2>5, <3>3, <4>1, Zenon
    <3>4. QED
      BY <3>2, <3>3
  <2>15. \A n \in Nets, i \in Ids :
           /\ n = n0 /\ i = i0 => Registered(n, i)' = None
           /\ n # n0 \/ i # i0 => Registered(n, i)' = Registered(n, i)
    <3> SUFFICES ASSUME NEW n \in Nets, NEW i \in Ids
                 PROVE  /\ n = n0 /\ i = i0 => Registered(n, i)' = None
                        /\ n # n0 \/ i # i0 => Registered(n, i)' = Registered(n, i)
      OBVIOUS
    <3>1. CASE n # n0
      <4>1. rooms'[n] = rooms[n] /\ rooms[n] # None => rooms[n] \in Conns /\ rooms[n] # r0
        BY <2>1, <2>6, <3>1 DEF RegistryInv, NetsAgree, TypeOK
      <4>2. QED
        BY <2>3, <2>6, <3>1, <4>1 DEF Registered
    <3>2. CASE n = n0 /\ rooms'[n0] = r0
      BY <2>1, <2>3, <3>2, ConstantsAssumption DEF Registered, ConstantsAssumption
    <3>3. CASE n = n0 /\ rooms'[n0] = None
      <4>1. i # i0 => dict[r0][i] = None
        BY <2>1, <2>3, <2>6, <3>3, ConstantsAssumption DEF ConstantsAssumption
      <4>2. QED
        BY <2>1, <3>3, <4>1 DEF Registered
    <3>4. QED
      BY <2>6, <3>1, <3>2, <3>3
  <2>16. MembersInMeta'
    BY <2>2, <2>15 DEF RegistryInv, MembersInMeta
  <2>17. NoEmptyRoom'
    <3> SUFFICES ASSUME NEW n \in Nets, rooms'[n] # None
                 PROVE  \E i \in Ids : Registered(n, i)' # None
      BY DEF NoEmptyRoom, Present
    <3>1. CASE n = n0
      BY <2>6, <3>1 DEF Registered
    <3>2. CASE n # n0
      <4>1. rooms[n] # None
        BY <2>6, <3>2
      <4>2. PICK i \in Ids : Registered(n, i) # None
        BY <4>1 DEF RegistryInv, NoEmptyRoom, Present
      <4>3. Registered(n, i)' = Registered(n, i)
        BY <2>15, <3>2
      <4>4. QED
        BY <4>2, <4>3, Zenon
    <3>3. QED
      BY <3>1, <3>2
  <2>18. WelcomedFirst'
    <3> SUFFICES ASSUME NEW n \in Nets, NEW i \in Ids, Registered(n, i)' # None,
                        sock'[Registered(n, i)'] = "open"
                 PROVE  Registered(n, i)' \in welcomed
      BY DEF WelcomedFirst
    <3>1. Registered(n, i)' = Registered(n, i)
      BY <2>15
    <3>2. Registered(n, i) \in Conns
      BY <3>1 DEF Registered, TypeOK
    <3>3. QED
      BY <3>1, <3>2 DEF RegistryInv, WelcomedFirst
  <2>19. StatusFresh'
    BY <2>7, <2>9 DEF StatusFresh
  <2>20. RegistryInv'
    BY <2>10, <2>11, <2>12, <2>13, <2>14, <2>16, <2>17, <2>18, <2>19 DEF RegistryInv
  <2>21. Registered(n0, i0) = c
    BY <1>3 DEF OwnsEntry
  <2>22. QED
    BY <2>7, <2>15, <2>20, <2>21
<1>4. QED
  BY <1>2, <1>3

-----------------------------------------------------------------------------
(* One lemma per action. *)

LEMMA InitInv ==
  ASSUME Init, ConstantsAssumption
  PROVE  RegistryInv
<1>1. TypeOK
  <2>1. <<>> \in Seq(Ids) /\ <<>> \in Seq(ConnOrNone) /\ <<>> \in Seq(Conns)
    BY EmptySeq
  <2>2. QED
    BY <2>1 DEF Init, TypeOK, PC, SockState, ConnOrNone
<1>2. \A n \in Nets, i \in Ids : Registered(n, i) = None
  BY DEF Init, Registered
<1>3. NetsAgree /\ EntriesSound /\ FreshDicts /\ DisplacersKnowRoom /\ KeysCover
  BY DEF Init, NetsAgree, EntriesSound, FreshDicts, DisplacersKnowRoom, KeysCover,
     ConstantsAssumption
<1>4. MembersInMeta /\ NoEmptyRoom /\ WelcomedFirst /\ StatusFresh
  BY <1>2 DEF Init, MembersInMeta, NoEmptyRoom, WelcomedFirst, StatusFresh
<1>5. QED
  BY <1>1, <1>3, <1>4 DEF RegistryInv

\* What a step does to the registry, as far as the theorems need it.
Kept(c) ==
  \A n \in Nets, i \in Ids :
    Registered(n, i) # None /\ Registered(n, i)' = None =>
      /\ Registered(n, i) = c
      /\ pc[c] \in {"relay", "forward"} /\ pc'[c] \in {"farewell", "done"}

\* A step that leaves the registry alone unregisters nobody.
LEMMA SameRegistryKept ==
  ASSUME NEW c \in Conns, UNCHANGED registry
  PROVE  Kept(c)
<1>1. rooms' = rooms /\ dict' = dict
  BY DEF registry
<1>2. \A n \in Nets, i \in Ids : Registered(n, i)' = Registered(n, i)
  BY <1>1 DEF Registered
<1>3. QED
  BY <1>2 DEF Kept

\* Accepting a connection, refusing a join, losing a socket and closing one
\* touch the program counter and the socket of c only.
LEMMA SocketStepKeepsInv ==
  ASSUME RegistryInv, ConstantsAssumption, NEW c \in Conns,
         Connect(c) \/ AuthFail(c) \/ Drop(c) \/ SocketClosed(c)
  PROVE  RegistryInv' /\ Kept(c)
<1> USE DEF PC, SockState
<1>1. TypeOK
  BY DEF RegistryInv
<1>2. /\ UNCHANGED <<registry, status, room, old, todo, waiters, welcomed, peers>>
      /\ rooms' = rooms /\ dict' = dict /\ keys' = keys /\ meta' = meta
  BY DEF Connect, AuthFail, Drop, SocketClosed, registry
<1>3. /\ pc' \in [Conns -> PC]
      /\ sock' \in [Conns -> SockState]
      /\ \A d \in Conns : pc'[d] \in {"idle", "auth"} => pc[d] \in {"idle", "auth"}
      /\ \A d \in Conns : pc'[d] = "displace" => pc[d] = "displace"
      /\ \A d \in Conns : (pc'[d] = "farewell") = (pc[d] = "farewell")
      /\ \A d \in Conns : sock'[d] = "open" => sock[d] = "open" \/ pc[d] = "idle"
  <2>1. CASE Connect(c)
    BY <1>1, <2>1 DEF Connect, TypeOK
  <2>2. CASE AuthFail(c)
    BY <1>1, <2>2 DEF AuthFail, TypeOK
  <2>3. CASE Drop(c)
    BY <1>1, <2>3 DEF Drop, TypeOK
  <2>4. CASE SocketClosed(c)
    BY <1>1, <2>4 DEF SocketClosed, TypeOK
  <2>5. QED
    BY <2>1, <2>2, <2>3, <2>4
<1>4. TypeOK'
  BY <1>1, <1>2, <1>3 DEF TypeOK
<1>5. StatusFresh'
  BY <1>2, <1>3 DEF RegistryInv, StatusFresh
<1>6. RegistryInv'
  BY <1>2, <1>3, <1>4, <1>5, FrameKeepsInv
<1>7. QED
  BY <1>2, <1>6, SameRegistryKept

\* Registering takes nobody out of the registry.
LEMMA EnrollKept ==
  ASSUME RegistryInv, ConstantsAssumption, NEW c \in Conns, NEW r \in Conns,
         \A n \in Nets : rooms'[n] = rooms[n] \/ rooms[n] = None,
         dict' = [dict EXCEPT ![r][IdOf[c]] = c]
  PROVE  Kept(c)
<1>1. TypeOK /\ c # None
  BY DEF RegistryInv, ConstantsAssumption
<1> SUFFICES ASSUME NEW n \in Nets, NEW i \in Ids, Registered(n, i) # None
             PROVE  Registered(n, i)' # None
  BY DEF Kept
<1>2. rooms[n] \in Conns /\ rooms'[n] = rooms[n] /\ dict[rooms[n]][i] # None
  BY <1>1 DEF Registered, TypeOK
<1>3. dict'[rooms[n]][i] # None
  BY <1>1, <1>2 DEF TypeOK
<1>4. QED
  BY <1>2, <1>3 DEF Registered

\* A join registers at once, or closes the old socket first.
LEMMA JoinKeepsInv ==
  ASSUME RegistryInv, ConstantsAssumption, NEW c \in Conns, Join(c)
  PROVE  RegistryInv' /\ Kept(c)
<1> DEFINE n0 == NetOf[c]
           r == IF rooms[n0] = None THEN c ELSE rooms[n0]
           o == dict[r][IdOf[c]]
<1>1. TypeOK /\ n0 \in Nets /\ IdOf[c] \in Ids /\ c # None
  BY DEF RegistryInv, ConstantsAssumption
<1>2. r \in Conns /\ NetOf[r] = n0 /\ (r = c \/ pc[r] \notin {"idle", "auth"})
  <2>1. rooms[n0] # None => rooms[n0] \in Conns /\ NetOf[rooms[n0]] = n0
    BY <1>1 DEF RegistryInv, NetsAgree, TypeOK
  <2>2. rooms[n0] # None => pc[rooms[n0]] \notin {"idle", "auth"}
    BY <1>1, <2>1 DEF RegistryInv, FreshDicts
  <2>3. QED
    BY <2>1, <2>2
<1>3. /\ pc[c] = "auth"
      /\ rooms' = [rooms EXCEPT ![n0] = r]
      /\ room' = [room EXCEPT ![c] = r]
      /\ old' = [old EXCEPT ![c] = o]
      /\ Displace(c, r, o) \/ (Enroll(c, r) /\ sock' = sock)
  BY DEF Join
<1>4. o \in ConnOrNone
  BY <1>1, <1>2 DEF TypeOK, ConnOrNone
<1> HIDE DEF r, o
<1>5. /\ rooms' \in [Nets -> ConnOrNone]
      /\ old' \in [Conns -> ConnOrNone]
      /\ room' \in [Conns -> ConnOrNone]
      /\ rooms[n0] # None => r = rooms[n0]
      /\ \A n \in Nets : rooms'[n] = rooms[n] \/ (n = n0 /\ rooms[n] = None /\ rooms'[n] = c /\ r = c)
  BY <1>1, <1>2, <1>3, <1>4 DEF TypeOK, ConnOrNone, r
<1>6. CASE Enroll(c, r) /\ sock' = sock
  <2>1. RegistryInv'
    BY <1>2, <1>3, <1>5, <1>6, EnrollKeepsInv
  <2>2. dict' = [dict EXCEPT ![r][IdOf[c]] = c]
    BY <1>6 DEF Enroll
  <2>3. QED
    BY <1>2, <1>5, <2>1, <2>2, EnrollKept
<1>7. CASE Displace(c, r, o)
  <2>1. /\ o # None
        /\ pc' = [pc EXCEPT ![c] = "displace"]
        /\ sock' = [sock EXCEPT ![o] = "closing"]
        /\ UNCHANGED <<dict, keys, meta, status, todo, waiters, welcomed, peers>>
    BY <1>7 DEF Displace, MustWaitFor
  <2>2. o \in Conns
    BY <1>4, <2>1 DEF ConnOrNone
  <2>3. rooms[n0] # None
    <3>1. rooms[n0] = None => o = None
      BY <1>1, <1>3 DEF RegistryInv, FreshDicts, o, r
    <3>2. QED
      BY <2>1, <3>1
  <2>4. rooms' = rooms
    BY <1>1, <1>3, <1>5, <2>3 DEF TypeOK
  <2>5. r # c
    BY <1>1, <1>3, <1>5, <2>3 DEF RegistryInv, FreshDicts
  <2>6. UNCHANGED registry
    BY <2>1, <2>4 DEF registry
  <2>7. TypeOK'
    BY <1>1, <1>5, <2>1, <2>2, <2>4 DEF TypeOK, PC, SockState, ConnOrNone
  <2>8. StatusFresh'
    <3>1. \A d \in Conns : pc'[d] # "farewell" => pc[d] # "farewell"
      BY <1>1, <1>3, <2>1 DEF TypeOK
    <3>2. QED
      BY <2>1, <3>1 DEF RegistryInv, StatusFresh
  <2>9. \A d \in Conns : pc'[d] \in {"idle", "auth"} => pc[d] \in {"idle", "auth"}
    BY <1>1, <2>1 DEF TypeOK
  <2>10. \A d \in Conns : pc'[d] = "displace" => pc[d] \in {"auth", "displace"}
    BY <1>1, <1>3, <2>1 DEF TypeOK
  <2>11. \A d \in Conns :
           \/ room'[d] = room[d] /\ (pc'[d] = "displace" => pc[d] = "displace")
           \/ /\ pc[d] = "auth" /\ room'[d] \in Conns
              /\ NetOf[room'[d]] = NetOf[d]
              /\ pc[room'[d]] \notin {"idle", "auth"}
    BY <1>1, <1>2, <1>3, <2>1, <2>5 DEF TypeOK
  <2>12. \A d \in Conns : sock'[d] = "open" => sock[d] = "open" \/ pc[d] = "idle"
    BY <1>1, <2>1 DEF TypeOK
  <2>13. RegistryInv'
    BY <2>1, <2>6, <2>7, <2>8, <2>9, <2>10, <2>11, <2>12, FrameKeepsInv
  <2>14. QED
    BY <2>6, <2>13, SameRegistryKept
<1>8. QED
  BY <1>3, <1>6, <1>7

\* The displacing join registers in the room it remembered across the await.
LEMMA DisplacedKeepsInv ==
  ASSUME RegistryInv, ConstantsAssumption, NEW c \in Conns, Displaced(c)
  PROVE  RegistryInv' /\ Kept(c)
<1> DEFINE r == room[c]
<1>1. TypeOK
  BY DEF RegistryInv
<1>2. pc[c] = "displace" /\ UNCHANGED <<rooms, room, old, sock>> /\ Enroll(c, r)
  BY DEF Displaced
<1>3. r \in Conns /\ NetOf[r] = NetOf[c] /\ pc[r] \notin {"idle", "auth"}
  <2>1. r # None
    BY <1>2 DEF RegistryInv, DisplacersKnowRoom
  <2>2. r \in Conns
    BY <1>1, <2>1 DEF TypeOK
  <2>3. QED
    BY <2>1, <2>2 DEF RegistryInv, NetsAgree, FreshDicts
<1>4. /\ room' = [room EXCEPT ![c] = r]
      /\ rooms' \in [Nets -> ConnOrNone] /\ old' \in [Conns -> ConnOrNone]
  BY <1>1, <1>2 DEF TypeOK, ConnOrNone
<1>5. dict' = [dict EXCEPT ![r][IdOf[c]] = c]
  BY <1>2 DEF Enroll
<1> HIDE DEF r
<1>6. RegistryInv'
  BY <1>2, <1>3, <1>4, EnrollKeepsInv
<1>7. QED
  BY <1>2, <1>3, <1>5, <1>6, EnrollKept

\* The clean-up of c as it appears in Disconnected, Relay and ResumeForward.
LEMMA CleanUpKeepsInv ==
  ASSUME RegistryInv, ConstantsAssumption, NEW c \in Conns,
         pc[c] \in {"relay", "forward"}, NEW w \in [Conns -> Seq(Conns)],
         Leave(c, w), UNCHANGED <<room, old, welcomed>>,
         sock' = sock \/ sock' = SocketAfter(c)
  PROVE  RegistryInv' /\ Kept(c)
<1>1. /\ sock' \in [Conns -> SockState]
      /\ \A d \in Conns : sock'[d] = "open" => sock[d] = "open"
  BY DEF RegistryInv, TypeOK, SocketAfter, SockState
<1>2. /\ RegistryInv'
      /\ pc'[c] \in {"farewell", "done"}
      /\ \A n \in Nets, i \in Ids :
           Registered(n, i) # None /\ Registered(n, i)' = None => Registered(n, i) = c
  BY <1>1, LeaveKeepsInv
<1>3. QED
  BY <1>2 DEF Kept

LEMMA DisconnectedKeepsInv ==
  ASSUME RegistryInv, ConstantsAssumption, NEW c \in Conns, Disconnected(c)
  PROVE  RegistryInv' /\ Kept(c)
<1>1. waiters \in [Conns -> Seq(Conns)]
  BY DEF RegistryInv, TypeOK
<1>2. QED
  BY <1>1, CleanUpKeepsInv DEF Disconnected

\* A handler that goes on serving, or is suspended in a relay, touches its
\* program counter and the send queues only.
LEMMA ServingStepKeepsInv ==
  ASSUME RegistryInv, NEW c \in Conns, NEW p \in {"relay", "forward"},
         pc[c] \in {"relay", "forward"}, pc' = [pc EXCEPT ![c] = p],
         waiters' \in [Conns -> Seq(Conns)],
         UNCHANGED <<registry, status, todo, peers, room, old, welcomed>>,
         sock' = SocketAfter(c)
  PROVE  RegistryInv' /\ Kept(c)
<1>1. TypeOK /\ rooms' = rooms /\ dict' = dict /\ keys' = keys /\ meta' = meta
  BY DEF RegistryInv, registry
<1>2. sock' = sock
  BY <1>1 DEF SocketAfter, TypeOK
<1>3. TypeOK'
  BY <1>1, <1>2 DEF TypeOK, PC
<1>4. StatusFresh'
  BY <1>1 DEF RegistryInv, StatusFresh, TypeOK
<1>5. /\ \A d \in Conns : pc'[d] \in {"idle", "auth"} => pc[d] \in {"idle", "auth"}
      /\ \A d \in Conns : pc'[d] = "displace" => pc[d] = "displace"
  BY <1>1 DEF TypeOK
<1>6. RegistryInv'
  BY <1>1, <1>2, <1>3, <1>4, <1>5, FrameKeepsInv
<1>7. QED
  BY <1>6, SameRegistryKept

LEMMA RelayKeepsInv ==
  ASSUME RegistryInv, ConstantsAssumption, NEW c \in Conns, NEW i \in Ids, Relay(c, i)
  PROVE  RegistryInv' /\ Kept(c)
<1> DEFINE target == Registered(NetOf[c], i)
           s == IF target = None THEN c ELSE target
<1>1. TypeOK /\ waiters \in [Conns -> Seq(Conns)] /\ pc[c] = "relay"
  BY DEF RegistryInv, TypeOK, Relay
<1>2. s \in Conns
  BY <1>1 DEF TypeOK, Registered, ConstantsAssumption
<1>3. /\ \/ sock[s] = "closed" /\ Leave(c, waiters)
         \/ /\ pc' = [pc EXCEPT ![c] = "forward"]
            /\ waiters' = [waiters EXCEPT ![s] = Append(@, c)]
            /\ UNCHANGED <<registry, status, todo, peers>>
         \/ UNCHANGED <<registry, status, pc, todo, waiters, peers>>
      /\ sock' = SocketAfter(c)
      /\ UNCHANGED <<room, old, welcomed>>
  BY DEF Relay
<1> HIDE DEF s
<1>4. CASE Leave(c, waiters)
  BY <1>1, <1>3, <1>4, CleanUpKeepsInv
<1>5. CASE /\ pc' = [pc EXCEPT ![c] = "forward"]
           /\ waiters' = [waiters EXCEPT ![s] = Append(@, c)]
           /\ UNCHANGED <<registry, status, todo, peers>>
  <2>1. Append(waiters[s], c) \in Seq(Conns)
    BY <1>1, <1>2, AppendProperties
  <2>2. waiters' \in [Conns -> Seq(Conns)]
    BY <1>1, <1>2, <1>5, <2>1
  <2>3. QED
    BY <1>1, <1>3, <1>5, <2>2, ServingStepKeepsInv
<1>6. CASE UNCHANGED <<registry, status, pc, todo, waiters, peers>>
  <2>1. pc' = [pc EXCEPT ![c] = "relay"] /\ waiters' \in [Conns -> Seq(Conns)]
    BY <1>1, <1>6 DEF TypeOK
  <2>2. QED
    BY <1>1, <1>3, <1>6, <2>1, ServingStepKeepsInv
<1>7. QED
  BY <1>3, <1>4, <1>5, <1>6

\* Taking the head off a send queue leaves a queue.
LEMMA DequeueType ==
  ASSUME TypeOK, NEW c \in Conns, NEW s \in Conns, Resumable(c, s)
  PROVE  [waiters EXCEPT ![s] = Tail(@)] \in [Conns -> Seq(Conns)]
<1>1. waiters[s] \in Seq(Conns) /\ waiters[s] # <<>>
  BY DEF TypeOK, Resumable, SendsTo
<1>2. Tail(waiters[s]) \in Seq(Conns)
  BY <1>1, HeadTailProperties
<1>3. QED
  BY <1>2 DEF TypeOK

LEMMA ResumeForwardKeepsInv ==
  ASSUME RegistryInv, ConstantsAssumption, NEW c \in Conns, ResumeForward(c)
  PROVE  RegistryInv' /\ Kept(c)
<1>1. TypeOK /\ pc[c] = "forward" /\ sock' = SocketAfter(c)
      /\ UNCHANGED <<room, old, welcomed>>
  BY DEF RegistryInv, ResumeForward
<1>2. PICK s \in Conns :
        /\ Resumable(c, s)
        /\ LET w == [waiters EXCEPT ![s] = Tail(@)]
           IN \/ Leave(c, w)
              \/ /\ pc' = [pc EXCEPT ![c] = "relay"]
                 /\ waiters' = w
                 /\ UNCHANGED <<registry, status, todo, peers>>
  BY DEF ResumeForward
<1> DEFINE w == [waiters EXCEPT ![s] = Tail(@)]
<1>3. w \in [Conns -> Seq(Conns)]
  BY <1>1, <1>2, DequeueType
<1>4. \/ Leave(c, w)
      \/ /\ pc' = [pc EXCEPT ![c] = "relay"]
         /\ waiters' = w
         /\ UNCHANGED <<registry, status, todo, peers>>
  BY <1>2
<1> HIDE DEF w
<1>5. QED
  BY <1>1, <1>3, <1>4, CleanUpKeepsInv, ServingStepKeepsInv

\* A broadcast that goes on touches the program counter, the queues and what
\* the clients know of each other.
LEMMA ResumeBroadcastKeepsInv ==
  ASSUME RegistryInv, ConstantsAssumption, NEW c \in Conns,
         ResumeAnnounce(c) \/ ResumeFarewell(c)
  PROVE  RegistryInv' /\ Kept(c)
<1>1. TypeOK /\ todo[c] \in Seq(ConnOrNone)
  BY DEF RegistryInv, TypeOK, ConnOrNone
<1>2. /\ UNCHANGED registry /\ UNCHANGED <<room, old, welcomed>>
      /\ rooms' = rooms /\ dict' = dict /\ keys' = keys /\ meta' = meta
  BY DEF ResumeAnnounce, ResumeFarewell, registry
<1>3. PICK here \in PC, next \in PC, s \in Conns :
        /\ Resumable(c, s)
        /\ peers' = Arrived(c, todo[c]) \/ peers' = Departed(c, todo[c])
        /\ Broadcast(c, todo[c], [waiters EXCEPT ![s] = Tail(@)], here, next)
        /\ \/ /\ pc[c] = "announce" /\ here = "announce" /\ next = "relay"
              /\ UNCHANGED <<status, sock>>
           \/ /\ pc[c] = "farewell" /\ here = "farewell" /\ next = "done"
              /\ status' = StatusAfterLeave(c) /\ sock' = SocketAfter(c)
  <2>1. "announce" \in PC /\ "relay" \in PC /\ "farewell" \in PC /\ "done" \in PC
    BY DEF PC
  <2>2. CASE ResumeAnnounce(c)
    BY <2>1, <2>2, Zenon DEF ResumeAnnounce
  <2>3. CASE ResumeFarewell(c)
    BY <2>1, <2>3, Zenon DEF ResumeFarewell
  <2>4. QED
    BY <2>2, <2>3
<1> DEFINE w == [waiters EXCEPT ![s] = Tail(@)]
<1>4. w \in [Conns -> Seq(Conns)]
  BY <1>1, <1>3, DequeueType
<1>5. Broadcast(c, todo[c], w, here, next)
  BY <1>3
<1> HIDE DEF w
<1>6. /\ pc' = [pc EXCEPT ![c] = here] \/ pc' = [pc EXCEPT ![c] = next]
      /\ pc' \in [Conns -> PC]
      /\ todo' \in [Conns -> Seq(ConnOrNone)]
      /\ waiters' \in [Conns -> Seq(Conns)]
  BY <1>1, <1>4, <1>5, BroadcastType
<1>7. peers' \in [Conns -> SUBSET Ids]
  BY <1>1, <1>3, PresenceType
<1>8. status' = status \/ (status' = meta /\ pc'[c] = "done")
  BY <1>2, <1>3 DEF StatusAfterLeave
<1>9. /\ sock' \in [Conns -> SockState]
      /\ \A d \in Conns : sock'[d] = "open" => sock[d] = "open"
  BY <1>1, <1>3 DEF TypeOK, SocketAfter, SockState
<1>10. TypeOK'
  BY <1>1, <1>2, <1>6, <1>7, <1>8, <1>9 DEF TypeOK, ConnOrNone
<1>11. /\ \A d \in Conns : pc'[d] \in {"idle", "auth"} => pc[d] \in {"idle", "auth"}
       /\ \A d \in Conns : pc'[d] = "displace" => pc[d] = "displace"
  BY <1>1, <1>3, <1>6 DEF TypeOK
<1>12. StatusFresh'
  <2>1. CASE status' = meta
    BY <1>2, <2>1 DEF StatusFresh
  <2>2. CASE status' = status /\ pc[c] = "announce"
    <3>1. \A d \in Conns : pc'[d] # "farewell" => pc[d] # "farewell"
      BY <1>1, <1>3, <1>6, <2>2 DEF TypeOK
    <3>2. QED
      BY <1>2, <2>2, <3>1 DEF RegistryInv, StatusFresh
  <2>3. CASE status' = status /\ pc[c] = "farewell"
    <3>1. pc'[c] = "farewell" \/ (pc'[c] = "done" /\ status' = meta)
      BY <1>1, <1>2, <1>3, <1>6, <2>3 DEF TypeOK, StatusAfterLeave
    <3>2. QED
      BY <1>2, <3>1 DEF StatusFresh
  <2>4. QED
    BY <1>3, <1>8, <2>1, <2>2, <2>3
<1>13. RegistryInv'
  BY <1>2, <1>9, <1>10, <1>11, <1>12, FrameKeepsInv
<1>14. QED
  BY <1>2, <1>13, SameRegistryKept

-----------------------------------------------------------------------------
(* The theorems. *)

LEMMA StepKeepsInv ==
  ASSUME RegistryInv, ConstantsAssumption, Next
  PROVE  RegistryInv' /\ \E c \in Conns : Kept(c)
<1>1. PICK c \in Conns :
        \/ Connect(c) \/ AuthFail(c) \/ Join(c)
        \/ \E i \in Ids : Relay(c, i)
        \/ Step(c)
        \/ Drop(c) \/ SocketClosed(c)
  BY DEF Next
<1>2. CASE Connect(c) \/ AuthFail(c) \/ Drop(c) \/ SocketClosed(c)
  BY <1>2, SocketStepKeepsInv
<1>3. CASE Join(c)
  BY <1>3, JoinKeepsInv
<1>4. CASE \E i \in Ids : Relay(c, i)
  BY <1>4, RelayKeepsInv
<1>5. CASE Displaced(c)
  BY <1>5, DisplacedKeepsInv
<1>6. CASE Disconnected(c)
  BY <1>6, DisconnectedKeepsInv
<1>7. CASE ResumeAnnounce(c) \/ ResumeFarewell(c)
  BY <1>7, ResumeBroadcastKeepsInv
<1>8. CASE ResumeForward(c)
  BY <1>8, ResumeForwardKeepsInv
<1>9. QED
  BY <1>1, <1>2, <1>3, <1>4, <1>5, <1>6, <1>7, <1>8 DEF Step, Resume

LEMMA StutterKeepsInv ==
  ASSUME RegistryInv, UNCHANGED vars
  PROVE  RegistryInv'
BY DEF vars, RegistryInv, TypeOK, NetsAgree, EntriesSound, FreshDicts, DisplacersKnowRoom,
   KeysCover, MembersInMeta, NoEmptyRoom, WelcomedFirst, StatusFresh, Present, Registered

\* Whatever the interleaving of the handlers of any number of connections, the
\* registry stays consistent: an entry belongs to a connection that proved its
\* id and joined that room, no two networks share a room, and a dict nobody
\* has joined is reachable from nowhere.
THEOREM RegistryInvariant == Spec => []RegistryInv
<1>1. Init => RegistryInv
  BY ConstantsAssumption, InitInv
<1>2. RegistryInv /\ [Next]_vars => RegistryInv'
  BY ConstantsAssumption, StepKeepsInv, StutterKeepsInv
<1>3. QED
  BY <1>1, <1>2, PTL DEF Spec

\* Every variable keeps its type: rooms hold connections, never leftovers.
THEOREM TypeCorrect == Spec => []TypeOK
<1>1. RegistryInv => TypeOK
  BY DEF RegistryInv
<1>2. QED
  BY <1>1, RegistryInvariant, PTL

\* The admin listing never misses a registered member.
THEOREM MembersListed == Spec => []MembersInMeta
<1>1. RegistryInv => MembersInMeta
  BY DEF RegistryInv
<1>2. QED
  BY <1>1, RegistryInvariant, PTL

\* No room of a network nobody is in is kept.
THEOREM RoomsInUse == Spec => []NoEmptyRoom
<1>1. RegistryInv => NoEmptyRoom
  BY DEF RegistryInv
<1>2. QED
  BY <1>1, RegistryInvariant, PTL

\* Whoever can be reached through the server was welcomed first.
THEOREM JoinedComesFirst == Spec => []WelcomedFirst
<1>1. RegistryInv => WelcomedFirst
  BY DEF RegistryInv
<1>2. QED
  BY <1>1, RegistryInvariant, PTL

\* The status file is up to date whenever no peer-leave is being broadcast.
THEOREM StatusFileFresh == Spec => []StatusFresh
<1>1. RegistryInv => StatusFresh
  BY DEF RegistryInv
<1>2. QED
  BY <1>1, RegistryInvariant, PTL

\* The clean-up of a displaced connection never unregisters its successor.
THEOREM SuccessorSafety == Spec => SuccessorSafe
<1> DEFINE A == \A n \in Nets, i \in Ids :
                  LET c == Registered(n, i)
                  IN c # None /\ Registered(n, i)' = None =>
                       pc[c] \in {"relay", "forward"} /\ pc'[c] \in {"farewell", "done"}
<1>1. RegistryInv /\ [Next]_vars => [A]_vars
  <2>1. ASSUME RegistryInv, Next
        PROVE  A
    <3>1. PICK c \in Conns : Kept(c)
      BY <2>1, ConstantsAssumption, StepKeepsInv
    <3>2. QED
      BY <3>1 DEF Kept
  <2>2. QED
    BY <2>1
<1>2. QED
  BY <1>1, RegistryInvariant, PTL DEF Spec, SuccessorSafe

-----------------------------------------------------------------------------
(* Presence.  Every broadcast is a list of members that it meets in the    *)
(* order of the dict, and it waits in first-come order on sockets that are *)
(* slow or closing.  So a peer-leave that set out before the peer-join of  *)
(* the same id reaches every member before it, and the last thing a member *)
(* hears of an id is what the room says of it.                             *)

\* c is in the room, and its handler is at work for it.
Active(c) == pc[c] \in {"announce", "relay"}
\* c is in the middle of a broadcast.
Sends(c) == pc[c] \in {"announce", "farewell"}

Live(s) == sock[s] # "closed"
Member(c) == Registered(NetOf[c], IdOf[c]) = c
Fellows(c, d) == NetOf[c] = NetOf[d] /\ IdOf[c] = IdOf[d]

\* c is suspended in a send to s; its broadcast has s still to reach.
Has(q, x) == \E k \in DOMAIN q : q[k] = x
Waits(c, s) == Has(waiters[s], c)
Ahead(c, s) == Has(todo[c], s)

Distinct(q) == \A j, k \in DOMAIN q : q[j] = q[k] => j = k
Ordered(q, x, y) == \A j, k \in DOMAIN q : q[j] = x /\ q[k] = y => j < k

\* A member that every broadcast to the room meets before another.
Precedes(x, y) == Ordered(keys[rooms[NetOf[x]]], IdOf[x], IdOf[y])

\* A dict lists an id once, and only ids that have an entry.
KeysExact ==
  \A r \in Conns :
    /\ Distinct(keys[r])
    /\ \A i \in Ids : HasKey(keys[r], i) => dict[r][i] # None

\* A handler at work holds its entry; one that is leaving has lost its socket;
\* one that displaces is the only one of its id.
Stage(c) ==
  /\ pc[c] # "forward"
  /\ pc[c] = "idle" <=> sock[c] = "none"
  /\ Active(c) => Member(c)
  /\ Member(c) => Active(c) \/ (pc[c] = "done" /\ sock[c] # "open")
  /\ pc[c] = "farewell" => sock[c] = "closed"
  /\ pc[c] = "displace" =>
       /\ Registered(NetOf[c], IdOf[c]) = old[c] /\ old[c] # None
       /\ room[c] = rooms[NetOf[c]]
       /\ \A d \in Conns : Fellows(c, d) /\ (pc[d] = "displace" \/ Active(d)) => c = d
Stages == \A c \in Conns : Stage(c)

\* A broadcast waits in one place, on another member of its network, which
\* holds its entry until its socket has closed.
Suspended ==
  /\ \A c \in Conns : Sends(c) <=> \E s \in Conns : Waits(c, s)
  /\ \A s \in Conns : Distinct(waiters[s])
  /\ \A c, s, t \in Conns : Waits(c, s) /\ Waits(c, t) => s = t
  /\ \A c, s \in Conns : Waits(c, s) =>
       /\ NetOf[s] = NetOf[c] /\ IdOf[s] # IdOf[c]
       /\ sock[s] = "open" => s \in Slow
       /\ Live(s) => Member(s)

\* The loop is never idle while a handler waits for a socket that has closed,
\* so there is one such socket at the most.
Hot(s) ==
  sock[s] = "closed" /\ (waiters[s] # <<>> \/ \E c \in Conns : pc[c] = "displace" /\ old[c] = s)
OneClosed == \A s, t \in Conns : Hot(s) /\ Hot(t) => s = t

\* A broadcast that goes on with t: to members of the room, in its order.
Route(c, t) ==
  /\ t \in Seq(Conns)
  /\ \A k \in DOMAIN t :
       /\ NetOf[t[k]] = NetOf[c]
       /\ pc[c] = "farewell" => IdOf[t[k]] # IdOf[c]
       /\ Live(t[k]) => Member(t[k])
  /\ \A j, k \in DOMAIN t : j < k /\ Live(t[j]) /\ Live(t[k]) => Precedes(t[j], t[k])

\* The members ahead come after the one waited for, in the order of the room.
InOrder ==
  \A c \in Conns : Sends(c) =>
    /\ Route(c, todo[c])
    /\ \A s, x \in Conns : Waits(c, s) /\ Live(s) /\ Ahead(c, x) /\ Live(x) => Precedes(s, x)

\* The peer-leave of e goes before the peer-join of d.
GoesFirst(e, d) ==
  /\ pc[d] = "announce"
  /\ \A s \in Conns : Ahead(e, s) /\ Live(s) => Ahead(d, s)
  /\ \A s \in Conns : Waits(e, s) /\ Live(s) => Waits(d, s) \/ Ahead(d, s)
  /\ \A s \in Conns : Ordered(waiters[s], e, d)
Farewells ==
  \A e, d \in Conns : pc[e] = "farewell" /\ Active(d) /\ Fellows(e, d) => GoesFirst(e, d)

\* A member has heard of every other, or will.
Announced ==
  \A c, d \in Conns :
    Active(c) /\ Active(d) /\ c # d /\ NetOf[c] = NetOf[d] /\ sock[c] = "open" =>
      IdOf[d] \in peers[c] \/ (pc[d] = "announce" /\ Ahead(d, c))

\* Whoever a member believes in is in the room, or its peer-leave is coming.
Dismissed ==
  \A c \in Conns : Active(c) /\ sock[c] = "open" =>
    \A i \in peers[c] :
      \/ i \in Present(NetOf[c])
      \/ \E e \in Conns : pc[e] = "farewell" /\ NetOf[e] = NetOf[c] /\ IdOf[e] = i /\ Ahead(e, c)

PresenceInv ==
  /\ KeysExact /\ Stages /\ Suspended /\ OneClosed /\ InOrder /\ Farewells
  /\ Announced /\ Dismissed

-----------------------------------------------------------------------------
(* Sequences. *)

\* Taking a key out of an ordered dict, and putting one in.
LEMMA WithoutKeyExact ==
  ASSUME NEW s \in Seq(Ids), NEW i \in Ids, HasKey(s, i), Distinct(s)
  PROVE  /\ Distinct(WithoutKey(s, i))
         /\ \A j \in Ids : HasKey(WithoutKey(s, i), j) => HasKey(s, j) /\ j # i
         /\ \A x, y \in Ids : Ordered(s, x, y) => Ordered(WithoutKey(s, i), x, y)
<1> DEFINE q == WithoutKey(s, i)
<1>1. DOMAIN q = 1..(Len(s) - 1) /\ DOMAIN s = 1..Len(s) /\ Len(s) \in Nat
  BY WithoutKeyCloses
<1>2. PICK p \in 1..Len(s) :
        /\ s[p] = i
        /\ \A m \in 1..(p - 1) : q[m] = s[m]
        /\ \A m \in p..(Len(s) - 1) : q[m] = s[m + 1]
  BY WithoutKeyCloses
<1> HIDE DEF q
\* Where an element of the shorter sequence stood.
<1> DEFINE f(m) == IF m < p THEN m ELSE m + 1
<1>6. \A m \in DOMAIN q : f(m) \in DOMAIN s /\ q[m] = s[f(m)] /\ f(m) # p
  BY <1>1, <1>2
<1>7. \A m, l \in DOMAIN q : (f(m) < f(l) <=> m < l) /\ (f(m) = f(l) => m = l)
  BY <1>1, <1>2
<1> HIDE DEF f
<1>8. Distinct(q)
  BY <1>6, <1>7 DEF Distinct
<1>9. \A j \in Ids : HasKey(q, j) => HasKey(s, j) /\ j # i
  BY <1>1, <1>2, <1>6 DEF HasKey, Distinct
<1>10. \A x, y \in Ids : Ordered(s, x, y) => Ordered(q, x, y)
  BY <1>6, <1>7 DEF Ordered
<1> QED
  BY <1>8, <1>9, <1>10 DEF q

LEMMA WithKeyExact ==
  ASSUME NEW s \in Seq(Ids), NEW i \in Ids, Distinct(s)
  PROVE  /\ Distinct(WithKey(s, i))
         /\ \A j \in Ids : HasKey(WithKey(s, i), j) => HasKey(s, j) \/ j = i
         /\ \A x, y \in Ids : HasKey(s, x) /\ HasKey(s, y) /\ Ordered(s, x, y)
                                => Ordered(WithKey(s, i), x, y)
<1>1. CASE HasKey(s, i)
  BY <1>1 DEF WithKey
<1>2. CASE ~HasKey(s, i)
  <2> DEFINE q == Append(s, i)
  <2>1. WithKey(s, i) = q
    BY <1>2 DEF WithKey
  <2>2. /\ DOMAIN q = 1..(Len(s) + 1) /\ DOMAIN s = 1..Len(s) /\ Len(s) \in Nat
        /\ q[Len(s) + 1] = i /\ \A k \in 1..Len(s) : q[k] = s[k]
    BY AppendProperties
  <2> HIDE DEF q
  <2>3. \A k \in DOMAIN s : s[k] # i
    BY <1>2 DEF HasKey
  <2>4. Distinct(q)
    BY <2>2, <2>3 DEF Distinct
  <2>5. \A j \in Ids : HasKey(q, j) => HasKey(s, j) \/ j = i
    BY <2>2 DEF HasKey
  <2>6. \A x, y \in Ids : HasKey(s, x) /\ HasKey(s, y) /\ Ordered(s, x, y) => Ordered(q, x, y)
    BY <2>2, <2>3 DEF HasKey, Ordered
  <2> QED
    BY <2>1, <2>4, <2>5, <2>6
<1> QED
  BY <1>1, <1>2

-----------------------------------------------------------------------------
(* The room of a network. *)

\* Whom a broadcast after the step goes to: the members, in the order of the dict.
LEMMA Roster ==
  ASSUME RegistryInv', KeysExact', NEW n \in Nets, NEW t, t = Recipients(n)'
  PROVE  /\ t \in Seq(Conns)
         /\ \A k \in DOMAIN t : NetOf[t[k]] = n /\ Member(t[k])'
         /\ \A x \in Conns : NetOf[x] = n /\ Member(x)' => Has(t, x)
         /\ \A j, k \in DOMAIN t : j < k => Precedes(t[j], t[k])'
<1>1. CASE rooms'[n] = None
  <2>1. t = <<>>
    BY <1>1 DEF Recipients
  <2>2. \A x \in Conns : NetOf[x] = n => ~Member(x)'
    BY <1>1, ConstantsAssumption DEF Member, Registered
  <2> QED
    BY <2>1, <2>2
<1>2. CASE rooms'[n] # None
  <2> DEFINE r == rooms'[n]
             q == keys'[r]
  <2>1. r \in Conns /\ q \in Seq(Ids) /\ DOMAIN q = 1..Len(q) /\ Len(q) \in Nat
        /\ dict'[r] \in [Ids -> Conns \cup {None}]
    BY <1>2 DEF RegistryInv, TypeOK
  <2>2. DOMAIN t = 1..Len(q) /\ \A k \in 1..Len(q) : t[k] = dict'[r][q[k]]
    BY <1>2, Zenon DEF Recipients
  <2>3. t = Listing(r, dict', keys')
    BY <1>2, Zenon DEF Recipients, Listing
  <2>4. \A k \in 1..Len(q) :
          /\ q[k] \in Ids /\ t[k] \in Conns /\ IdOf[t[k]] = q[k]
          /\ dict'[r][q[k]] = t[k] /\ NetOf[t[k]] = n
    <3> TAKE k \in 1..Len(q)
    <3>1. q[k] \in Ids
      BY <2>1
    <3>2. HasKey(q, q[k])
      BY <2>1 DEF HasKey
    <3>3. dict'[r][q[k]] # None
      BY <2>1, <3>1, <3>2 DEF KeysExact
    <3>4. t[k] \in Conns /\ t[k] = dict'[r][q[k]] /\ t[k] # None
      BY <2>1, <2>2, <3>1, <3>3
    <3>5. IdOf[t[k]] = q[k] /\ room'[t[k]] = r
      BY <2>1, <3>1, <3>4 DEF RegistryInv, EntriesSound
    <3>6. NetOf[t[k]] = NetOf[r] /\ NetOf[r] = n
      BY <1>2, <2>1, <3>4, <3>5, ConstantsAssumption DEF RegistryInv, NetsAgree
    <3> QED
      BY <3>1, <3>4, <3>5, <3>6
  <2> HIDE DEF r, q
  <2>5. t \in Seq(Conns)
    <3>1. Len(keys'[r]) \in Nat /\ \A k \in 1..Len(keys'[r]) : dict'[r][keys'[r][k]] \in Conns
      BY <2>1, <2>4 DEF q
    <3> QED
      BY <2>3, <3>1, IsASeq DEF Listing
  <2>6. \A k \in DOMAIN t : Member(t[k])'
    BY <1>2, <2>1, <2>2, <2>4, ConstantsAssumption DEF Member, Registered, r
  <2>7. ASSUME NEW x \in Conns, NetOf[x] = n, Member(x)'
        PROVE  Has(t, x)
    <3>1. dict'[r][IdOf[x]] = x /\ IdOf[x] \in Ids /\ x # None
      BY <1>2, <2>7, ConstantsAssumption DEF Member, Registered, r
    <3>2. HasKey(q, IdOf[x])
      BY <2>1, <3>1 DEF RegistryInv, KeysCover, q
    <3> QED
      BY <2>1, <2>2, <3>1, <3>2 DEF HasKey, Has
  <2>8. ASSUME NEW j \in DOMAIN t, NEW k \in DOMAIN t, j < k
        PROVE  Precedes(t[j], t[k])'
    <3>1. Distinct(q)
      BY <2>1 DEF KeysExact, q
    <3>2. Ordered(q, q[j], q[k])
      BY <2>1, <2>2, <2>8, <3>1 DEF Distinct, Ordered
    <3>3. IdOf[t[j]] = q[j] /\ IdOf[t[k]] = q[k] /\ NetOf[t[j]] = n
      BY <2>2, <2>4, <2>8
    <3> QED
      BY <3>2, <3>3 DEF Precedes, q, r
  <2> QED
    BY <2>2, <2>4, <2>5, <2>6, <2>7, <2>8
<1> QED
  BY <1>1, <1>2

\* A step after which all members but o still are, in the same order.
Keeps(o) ==
  /\ \A x \in Conns : Member(x) /\ x # o => Member(x)'
  /\ \A x, y \in Conns :
       /\ NetOf[x] = NetOf[y] /\ Member(x) /\ Member(y) /\ x # o /\ y # o
       /\ Precedes(x, y)
       => Precedes(x, y)'

\* What an entry says of the connection in it.
LEMMA Listed ==
  ASSUME RegistryInv, NEW x \in Conns, Member(x)
  PROVE  /\ rooms[NetOf[x]] \in Conns /\ dict[rooms[NetOf[x]]][IdOf[x]] = x
         /\ HasKey(keys[rooms[NetOf[x]]], IdOf[x])
         /\ pc[x] \notin {"idle", "auth", "displace"}
<1>1. x # None /\ NetOf[x] \in Nets /\ IdOf[x] \in Ids
  BY ConstantsAssumption
<1>2. rooms[NetOf[x]] \in Conns /\ dict[rooms[NetOf[x]]][IdOf[x]] = x
  BY <1>1 DEF Member, Registered, RegistryInv, TypeOK
<1> QED
  BY <1>1, <1>2 DEF RegistryInv, EntriesSound, KeysCover

LEMMA EntryOf ==
  ASSUME RegistryInv, NEW n \in Nets, NEW i \in Ids, NEW x \in Conns, Registered(n, i) = x
  PROVE  NetOf[x] = n /\ IdOf[x] = i
<1>1. x # None /\ rooms[n] \in Conns /\ rooms[n] # None /\ dict[rooms[n]][i] = x
  BY ConstantsAssumption DEF Registered, RegistryInv, TypeOK
<1>2. NetOf[rooms[n]] = n /\ IdOf[x] = i /\ room[x] = rooms[n]
  BY <1>1 DEF RegistryInv, NetsAgree, EntriesSound
<1> QED
  BY <1>1, <1>2 DEF RegistryInv, NetsAgree

\* Registering c in place of o, if there was one.
LEMMA EnrollRoster ==
  ASSUME RegistryInv, KeysExact, NEW c \in Conns, NEW r \in Conns,
         pc[c] \in {"auth", "displace"},
         rooms' \in [Nets -> ConnOrNone],
         \A n \in Nets : n # NetOf[c] => rooms'[n] = rooms[n],
         rooms'[NetOf[c]] = r, rooms[NetOf[c]] \in {None, r},
         NetOf[r] = NetOf[c],
         rooms[NetOf[c]] = None => \A i \in Ids : dict[r][i] = None,
         NEW o, o = Registered(NetOf[c], IdOf[c]),
         dict' = [dict EXCEPT ![r][IdOf[c]] = c],
         keys' = [keys EXCEPT ![r] = WithKey(@, IdOf[c])]
  PROVE  /\ KeysExact' /\ Member(c)' /\ Keeps(o)
         /\ \A n \in Nets, i \in Ids :
              ~(n = NetOf[c] /\ i = IdOf[c]) => Registered(n, i)' = Registered(n, i)
         /\ \A x \in Conns : Member(x)' => x = c \/ (Member(x) /\ x # o)
         /\ \A n \in Nets : Present(n) \subseteq Present(n)'
<1> DEFINE n0 == NetOf[c]
           i0 == IdOf[c]
<1>1. /\ n0 \in Nets /\ i0 \in Ids /\ c # None
      /\ dict \in [Conns -> [Ids -> Conns \cup {None}]] /\ keys \in [Conns -> Seq(Ids)]
  BY ConstantsAssumption DEF RegistryInv, TypeOK
<1>2. /\ dict'[r][i0] = c
      /\ \A i \in Ids : i # i0 => dict'[r][i] = dict[r][i]
      /\ \A q \in Conns : q # r => dict'[q] = dict[q] /\ keys'[q] = keys[q]
      /\ keys'[r] = WithKey(keys[r], i0)
  BY <1>1
<1>3. /\ Distinct(keys[r]) /\ Distinct(keys'[r])
      /\ \A j \in Ids : HasKey(keys'[r], j) => HasKey(keys[r], j) \/ j = i0
      /\ \A x, y \in Ids : HasKey(keys[r], x) /\ HasKey(keys[r], y) /\ Ordered(keys[r], x, y)
                             => Ordered(keys'[r], x, y)
  BY <1>1, <1>2, WithKeyExact DEF KeysExact
<1>4. KeysExact'
  BY <1>1, <1>2, <1>3 DEF KeysExact
<1>5. \A n \in Nets : n # n0 => rooms[n] # r
  BY ConstantsAssumption DEF RegistryInv, NetsAgree
<1>6. \A n \in Nets, i \in Ids :
        Registered(n, i)' = IF n = n0 /\ i = i0 THEN c ELSE Registered(n, i)
  <2> TAKE n \in Nets, i \in Ids
  <2>1. CASE n = n0
    BY <1>1, <1>2, <2>1, ConstantsAssumption DEF Registered
  <2>2. CASE n # n0
    <3>1. rooms'[n] = rooms[n] /\ rooms[n] # r /\ rooms[n] \in Conns \cup {None}
      BY <1>5, <2>2 DEF RegistryInv, TypeOK
    <3> QED
      BY <1>2, <2>2, <3>1 DEF Registered
  <2> QED
    BY <2>1, <2>2
<1>7. Member(c)' /\ \A x \in Conns : Member(x)' => x = c \/ (Member(x) /\ x # o)
  <2>1. \A x \in Conns : x = o => NetOf[x] = n0 /\ IdOf[x] = i0
    BY <1>1, EntryOf
  <2>2. Member(c)'
    BY <1>1, <1>6 DEF Member
  <2>3. ASSUME NEW x \in Conns, Member(x)', x # c
        PROVE  Member(x) /\ x # o
    <3>1. NetOf[x] \in Nets /\ IdOf[x] \in Ids
      BY ConstantsAssumption
    <3>2. Registered(NetOf[x], IdOf[x])' = x
      BY <2>3 DEF Member
    <3> QED
      BY <1>1, <1>6, <2>1, <2>3, <3>1, <3>2 DEF Member
  <2> QED
    BY <2>2, <2>3
<1>8. \A x \in Conns : Member(x) /\ x # o => Member(x)'
  BY <1>1, <1>6, ConstantsAssumption DEF Member
<1>9. ASSUME NEW x \in Conns, NEW y \in Conns, NetOf[x] = NetOf[y], Member(x), Member(y),
             Precedes(x, y)
      PROVE  Precedes(x, y)'
  <2>1. /\ IdOf[x] \in Ids /\ IdOf[y] \in Ids /\ NetOf[x] \in Nets
        /\ rooms[NetOf[x]] \in Conns /\ rooms'[NetOf[x]] = rooms[NetOf[x]]
        /\ HasKey(keys[rooms[NetOf[x]]], IdOf[x]) /\ HasKey(keys[rooms[NetOf[x]]], IdOf[y])
    BY <1>9, Listed, ConstantsAssumption
  <2>2. CASE rooms[NetOf[x]] = r
    BY <1>3, <1>9, <2>1, <2>2 DEF Precedes
  <2>3. CASE rooms[NetOf[x]] # r
    BY <1>2, <1>9, <2>1, <2>3 DEF Precedes
  <2> QED
    BY <2>2, <2>3
<1>10. \A n \in Nets : Present(n) \subseteq Present(n)'
  BY <1>1, <1>6 DEF Present
<1> QED
  BY <1>4, <1>6, <1>7, <1>8, <1>9, <1>10 DEF Keeps

\* A member that leaves.
LEMMA LeaveRoster ==
  ASSUME RegistryInv, KeysExact, NEW c \in Conns, Member(c),
         dict' = [dict EXCEPT ![rooms[NetOf[c]]][IdOf[c]] = None],
         keys' = [keys EXCEPT ![rooms[NetOf[c]]] = WithoutKey(@, IdOf[c])],
         rooms' = RoomsAfterLeave(NetOf[c], dict')
  PROVE  /\ KeysExact' /\ Keeps(c)
         /\ \A x \in Conns : Member(x)' => Member(x) /\ x # c
         /\ \A n \in Nets : rooms'[n] \in {rooms[n], None}
         /\ \A n \in Nets, i \in Ids :
              ~(n = NetOf[c] /\ i = IdOf[c]) => Registered(n, i)' = Registered(n, i)
         /\ \A n \in Nets, i \in Ids :
              i \in Present(n) /\ ~(n = NetOf[c] /\ i = IdOf[c]) => i \in Present(n)'
<1> DEFINE n0 == NetOf[c]
           i0 == IdOf[c]
           r == rooms[n0]
<1>1. /\ n0 \in Nets /\ i0 \in Ids /\ c # None /\ r \in Conns /\ HasKey(keys[r], i0)
      /\ dict \in [Conns -> [Ids -> Conns \cup {None}]] /\ keys \in [Conns -> Seq(Ids)]
      /\ rooms \in [Nets -> Conns \cup {None}]
  BY Listed, ConstantsAssumption DEF RegistryInv, TypeOK
<1>2. /\ dict'[r][i0] = None
      /\ \A i \in Ids : i # i0 => dict'[r][i] = dict[r][i]
      /\ \A q \in Conns : q # r => dict'[q] = dict[q] /\ keys'[q] = keys[q]
      /\ keys'[r] = WithoutKey(keys[r], i0)
  BY <1>1
<1>3. /\ Distinct(keys[r]) /\ Distinct(keys'[r])
      /\ \A j \in Ids : HasKey(keys'[r], j) => HasKey(keys[r], j) /\ j # i0
      /\ \A x, y \in Ids : Ordered(keys[r], x, y) => Ordered(keys'[r], x, y)
  BY <1>1, <1>2, WithoutKeyExact DEF KeysExact
<1>4. KeysExact'
  BY <1>1, <1>2, <1>3 DEF KeysExact
<1>5. /\ \A n \in Nets : n # n0 => rooms'[n] = rooms[n] /\ rooms[n] # r
      /\ rooms'[n0] = r \/ (rooms'[n0] = None /\ \A i \in Ids : dict'[r][i] = None)
  <2>1. \A n \in Nets : n # n0 => rooms[n] # r
    BY <1>1, ConstantsAssumption DEF RegistryInv, NetsAgree
  <2> QED
    BY <1>1, <2>1 DEF RoomsAfterLeave
<1>6. \A n \in Nets, i \in Ids :
        Registered(n, i)' = IF n = n0 /\ i = i0 THEN None ELSE Registered(n, i)
  <2> TAKE n \in Nets, i \in Ids
  <2>1. CASE n = n0
    <3>1. CASE rooms'[n0] = r
      BY <1>1, <1>2, <2>1, <3>1, ConstantsAssumption DEF Registered
    <3>2. CASE rooms'[n0] = None /\ \A j \in Ids : dict'[r][j] = None
      BY <1>1, <1>2, <2>1, <3>2, ConstantsAssumption DEF Registered
    <3> QED
      BY <1>5, <3>1, <3>2
  <2>2. CASE n # n0
    <3>1. rooms'[n] = rooms[n] /\ rooms[n] # r /\ rooms[n] \in Conns \cup {None}
      BY <1>1, <1>5, <2>2
    <3> QED
      BY <1>2, <2>2, <3>1 DEF Registered
  <2> QED
    BY <2>1, <2>2
<1>7. \A x \in Conns : /\ Member(x)' => Member(x) /\ x # c
                       /\ Member(x) /\ x # c => Member(x)'
  BY <1>1, <1>6, ConstantsAssumption DEF Member
<1>8. ASSUME NEW x \in Conns, NEW y \in Conns, NetOf[x] = NetOf[y], Member(x), x # c,
             Precedes(x, y)
      PROVE  Precedes(x, y)'
  <2>1. /\ IdOf[x] \in Ids /\ IdOf[y] \in Ids /\ NetOf[x] \in Nets
        /\ rooms[NetOf[x]] \in Conns
    BY <1>8, Listed, ConstantsAssumption
  <2>2. CASE NetOf[x] = n0
    <3>1. Member(x)' /\ x # None
      BY <1>7, <1>8, ConstantsAssumption
    <3>2. rooms'[n0] = r
      BY <1>5, <2>2, <3>1 DEF Member, Registered
    <3> QED
      BY <1>3, <1>8, <2>1, <2>2, <3>2 DEF Precedes
  <2>3. CASE NetOf[x] # n0
    <3>1. rooms'[NetOf[x]] = rooms[NetOf[x]] /\ rooms[NetOf[x]] # r
      BY <1>5, <2>1, <2>3
    <3> QED
      BY <1>2, <1>8, <2>1, <3>1 DEF Precedes
  <2> QED
    BY <2>2, <2>3
<1>9. \A n \in Nets, i \in Ids : i \in Present(n) /\ ~(n = n0 /\ i = i0) => i \in Present(n)'
  BY <1>6 DEF Present
<1> QED
  BY <1>4, <1>5, <1>6, <1>7, <1>8, <1>9 DEF Keeps

-----------------------------------------------------------------------------
(* Steps that send nothing. *)

\* Open and closing members stay, in the order of the room.
LiveStay ==
  /\ \A x \in Conns : Live(x) /\ Member(x) => Member(x)'
  /\ \A x, y \in Conns :
       /\ NetOf[x] = NetOf[y] /\ Live(x) /\ Live(y) /\ Member(x) /\ Member(y)
       /\ Precedes(x, y)
       => Precedes(x, y)'

\* A member whose socket has closed may go.
LEMMA KeepsLive ==
  ASSUME NEW o, Keeps(o), o \in Conns => ~Live(o)
  PROVE  LiveStay
BY DEF Keeps, LiveStay

\* A broadcast that stands still keeps its way.
LEMMA RouteStays ==
  ASSUME Suspended, InOrder, LiveStay, NEW c \in Conns, Sends(c),
         \A x \in Conns : Live(x)' => Live(x),
         todo'[c] = todo[c], pc'[c] = "farewell" <=> pc[c] = "farewell"
  PROVE  /\ Route(c, todo[c])'
         /\ \A s, x \in Conns : Waits(c, s) /\ Live(s)' /\ Ahead(c, x) /\ Live(x)'
                                  => Precedes(s, x)'
<1> PICK t : t = todo[c]
  OBVIOUS
<1>1. /\ t \in Seq(Conns)
      /\ \A k \in DOMAIN t :
           /\ t[k] \in Conns /\ NetOf[t[k]] = NetOf[c]
           /\ pc[c] = "farewell" => IdOf[t[k]] # IdOf[c]
           /\ Live(t[k]) => Member(t[k])
      /\ \A j, k \in DOMAIN t : j < k /\ Live(t[j]) /\ Live(t[k]) => Precedes(t[j], t[k])
  BY DEF InOrder, Route
<1>2. /\ \A x \in Conns : Live(x) /\ Member(x) => Member(x)'
      /\ \A x, y \in Conns :
           /\ NetOf[x] = NetOf[y] /\ Live(x) /\ Live(y) /\ Member(x) /\ Member(y)
           /\ Precedes(x, y)
           => Precedes(x, y)'
  BY DEF LiveStay
<1>3. \A k \in DOMAIN t : Live(t[k])' => Member(t[k])'
  BY <1>1, <1>2
<1>4. \A j, k \in DOMAIN t : j < k /\ Live(t[j])' /\ Live(t[k])' => Precedes(t[j], t[k])'
  BY <1>1, <1>2
<1>5. Route(c, todo[c])'
  BY <1>1, <1>3, <1>4 DEF Route
<1>6. ASSUME NEW s \in Conns, NEW x \in Conns, Waits(c, s), Live(s)', Ahead(c, x), Live(x)'
      PROVE  Precedes(s, x)'
  <2>1. Live(s) /\ Live(x) /\ Member(s) /\ NetOf[s] = NetOf[c] /\ Precedes(s, x)
    BY <1>6 DEF Suspended, InOrder
  <2>2. Member(x) /\ NetOf[x] = NetOf[c]
    BY <1>1, <1>6, <2>1 DEF Ahead, Has
  <2> QED
    BY <1>2, <2>1, <2>2
<1> QED
  BY <1>5, <1>6

\* Nothing is sent, and nobody begins or ends a broadcast.
Silent ==
  /\ UNCHANGED <<todo, waiters, peers>> /\ LiveStay
  /\ \A d \in Conns :
       pc'[d] = pc[d] \/ {pc[d], pc'[d]} \cap {"announce", "relay", "farewell"} = {}
  /\ \A s \in Conns : /\ sock'[s] = "open" => sock[s] = "open" \/ pc[s] = "idle"
                      /\ Live(s)' => Live(s)
  /\ \A n \in Nets : Present(n) \subseteq Present(n)'

\* A step that sends nothing leaves every broadcast where it was.
LEMMA SilentKeeps ==
  ASSUME RegistryInv, Suspended, InOrder, Farewells, Announced, Dismissed, Silent
  PROVE  Suspended' /\ InOrder' /\ Farewells' /\ Announced' /\ Dismissed'
<1>1. \A d \in Conns : /\ Active(d)' <=> Active(d)
                       /\ Sends(d)' <=> Sends(d)
                       /\ pc'[d] = "farewell" <=> pc[d] = "farewell"
                       /\ pc'[d] = "announce" <=> pc[d] = "announce"
  BY DEF Silent, Active, Sends
<1>2. /\ todo' = todo /\ waiters' = waiters /\ peers' = peers
      /\ \A c, s \in Conns : (Waits(c, s)' <=> Waits(c, s)) /\ (Ahead(c, s)' <=> Ahead(c, s))
  BY DEF Silent, Waits, Ahead
<1>3. \A s \in Conns : /\ Live(s)' => Live(s)
                       /\ Member(s) /\ sock'[s] = "open" => sock[s] = "open"
                       /\ Live(s) /\ Member(s) => Member(s)'
  BY Listed DEF Silent, LiveStay
<1>4. \A x, y \in Conns :
        /\ NetOf[x] = NetOf[y] /\ Live(x) /\ Live(y) /\ Member(x) /\ Member(y)
        /\ Precedes(x, y)
        => Precedes(x, y)'
  BY DEF Silent, LiveStay
<1>5. Suspended'
  <2>1. \A c, s \in Conns : Waits(c, s) /\ sock'[s] = "open" => s \in Slow
    BY <1>3 DEF Suspended, Live
  <2> QED
    BY <1>1, <1>2, <1>3, <2>1 DEF Suspended
<1>6. InOrder'
  <2> SUFFICES ASSUME NEW c \in Conns, Sends(c)
               PROVE  /\ Route(c, todo[c])'
                      /\ \A s, x \in Conns : Waits(c, s)' /\ Live(s)' /\ Ahead(c, x)' /\ Live(x)'
                                               => Precedes(s, x)'
    BY <1>1 DEF InOrder
  <2>1. LiveStay /\ (pc'[c] = "farewell" <=> pc[c] = "farewell")
    BY <1>1 DEF Silent
  <2> QED
    BY <1>2, <1>3, <2>1, RouteStays
<1>7. Farewells'
  <2> SUFFICES ASSUME NEW e \in Conns, NEW d \in Conns,
                      pc[e] = "farewell", Active(d), Fellows(e, d)
               PROVE  GoesFirst(e, d)'
    BY <1>1 DEF Farewells, Fellows
  <2>1. GoesFirst(e, d)
    BY DEF Farewells
  <2> QED
    BY <1>1, <1>2, <1>3, <2>1 DEF GoesFirst
<1>8. \A c \in Conns : Active(c) /\ sock'[c] = "open" => sock[c] = "open"
  BY DEF Silent, Active
<1>9. Announced'
  BY <1>1, <1>2, <1>8 DEF Announced
<1>10. Dismissed'
  <2> SUFFICES ASSUME NEW c \in Conns, Active(c), sock[c] = "open", NEW i \in peers[c]
               PROVE  \/ i \in Present(NetOf[c])'
                      \/ \E e \in Conns : /\ pc'[e] = "farewell" /\ NetOf[e] = NetOf[c]
                                          /\ IdOf[e] = i /\ Ahead(e, c)'
    BY <1>1, <1>2, <1>8 DEF Dismissed
  <2>1. NetOf[c] \in Nets
    BY ConstantsAssumption
  <2> QED
    BY <1>1, <1>2, <2>1 DEF Dismissed, Silent
<1> QED
  BY <1>5, <1>6, <1>7, <1>9, <1>10

-----------------------------------------------------------------------------
(* A broadcast, or the rest of one. *)

\* The send queues without c, which was at the head of one at the most.
Freed(c, w) ==
  /\ w \in [Conns -> Seq(Conns)]
  /\ \A s \in Conns : \E f \in {0, 1} :
       /\ Len(waiters[s]) = Len(w[s]) + f
       /\ \A j \in 1..Len(w[s]) : w[s][j] = waiters[s][j + f] /\ w[s][j] # c
       /\ f = 1 => waiters[s][1] = c

\* c goes on with t and stops at the k-th, or after the last.
Stops(c, t, w, k, here, next) ==
  /\ k \in 1..(Len(t) + 1)
  /\ \A m \in DOMAIN t : m < k => ~SuspendsAt(c, t, m)
  /\ k <= Len(t) => SuspendsAt(c, t, k)
  /\ pc' = [pc EXCEPT ![c] = IF k <= Len(t) THEN here ELSE next]
  /\ waiters' = IF k <= Len(t) THEN [w EXCEPT ![t[k]] = Append(@, c)] ELSE w
  /\ \A d \in Conns : d # c => todo'[d] = todo[d]
  /\ DOMAIN todo'[c] = 1..(Len(t) - k) /\ todo'[c] \in Seq(Conns)
  /\ \A j \in 1..(Len(t) - k) : todo'[c][j] = t[k + j]

\* Both disjuncts of Broadcast.
LEMMA BroadcastStops ==
  ASSUME TypeOK, NEW c \in Conns, NEW t \in Seq(Conns), NEW w, NEW here, NEW next,
         Broadcast(c, t, w, here, next)
  PROVE  \E k \in 1..(Len(t) + 1) : Stops(c, t, w, k, here, next)
<1>1. DOMAIN t = 1..Len(t) /\ Len(t) \in Nat /\ DOMAIN todo = Conns
  BY DEF TypeOK
<1>2. CASE /\ \A k \in DOMAIN t : ~SuspendsAt(c, t, k)
           /\ pc' = [pc EXCEPT ![c] = next]
           /\ todo' = [todo EXCEPT ![c] = <<>>]
           /\ waiters' = w
  <2> DEFINE k == Len(t) + 1
  <2>1. k \in 1..(Len(t) + 1) /\ ~(k <= Len(t)) /\ Len(t) - k = -1
    BY <1>1
  <2>2. todo'[c] = <<>> /\ \A d \in Conns : d # c => todo'[d] = todo[d]
    BY <1>1, <1>2
  <2>3. DOMAIN todo'[c] = 1..(Len(t) - k) /\ todo'[c] \in Seq(Conns)
        /\ \A j \in 1..(Len(t) - k) : todo'[c][j] = t[k + j]
    BY <2>1, <2>2
  <2> HIDE DEF k
  <2>4. Stops(c, t, w, k, here, next)
    BY <1>2, <2>1, <2>2, <2>3 DEF Stops
  <2> QED
    BY <2>1, <2>4
<1>3. ASSUME NEW k \in DOMAIN t,
             SuspendsAt(c, t, k), \A m \in 1..(k - 1) : ~SuspendsAt(c, t, m),
             pc' = [pc EXCEPT ![c] = here],
             todo' = [todo EXCEPT ![c] = SubSeq(t, k + 1, Len(t))],
             waiters' = [w EXCEPT ![t[k]] = Append(@, c)]
      PROVE  Stops(c, t, w, k, here, next)
  <2>1. k \in 1..(Len(t) + 1) /\ k <= Len(t) /\ \A m \in DOMAIN t : m < k => m \in 1..(k - 1)
    BY <1>1, <1>3
  <2>2. todo'[c] = SubSeq(t, k + 1, Len(t)) /\ \A d \in Conns : d # c => todo'[d] = todo[d]
    BY <1>1, <1>3
  <2>3. /\ SubSeq(t, k + 1, Len(t)) \in Seq(Conns)
        /\ Len(SubSeq(t, k + 1, Len(t))) = IF k + 1 <= Len(t) THEN Len(t) - (k + 1) + 1 ELSE 0
        /\ \A j \in 1 .. Len(t) - (k + 1) + 1 : SubSeq(t, k + 1, Len(t))[j] = t[k + 1 + j - 1]
    <3>1. \A m \in (k + 1)..Len(t) : t[m] \in Conns
      BY <1>1, <1>3
    <3> QED
      BY <1>1, <1>3, <3>1, SubSeqProperties
  <2>4. DOMAIN todo'[c] = 1..(Len(t) - k) /\ todo'[c] \in Seq(Conns)
    BY <1>1, <1>3, <2>2, <2>3
  <2>5. \A j \in 1..(Len(t) - k) : todo'[c][j] = t[k + j]
    <3> TAKE j \in 1..(Len(t) - k)
    <3>1. j \in 1 .. Len(t) - (k + 1) + 1 /\ k + 1 + j - 1 = k + j
      BY <1>1, <1>3
    <3> QED
      BY <2>2, <2>3, <3>1
  <2> QED
    BY <1>3, <2>1, <2>2, <2>4, <2>5 DEF Stops
<1>4. CASE \E k \in DOMAIN t :
             /\ SuspendsAt(c, t, k) /\ \A m \in 1..(k - 1) : ~SuspendsAt(c, t, m)
             /\ pc' = [pc EXCEPT ![c] = here]
             /\ todo' = [todo EXCEPT ![c] = SubSeq(t, k + 1, Len(t))]
             /\ waiters' = [w EXCEPT ![t[k]] = Append(@, c)]
  <2>1. PICK k \in DOMAIN t :
             /\ SuspendsAt(c, t, k) /\ \A m \in 1..(k - 1) : ~SuspendsAt(c, t, m)
             /\ pc' = [pc EXCEPT ![c] = here]
             /\ todo' = [todo EXCEPT ![c] = SubSeq(t, k + 1, Len(t))]
             /\ waiters' = [w EXCEPT ![t[k]] = Append(@, c)]
    BY <1>4
  <2>2. Stops(c, t, w, k, here, next)
    BY <1>3, <2>1
  <2> QED
    BY <1>1, <2>2
<1> QED
  BY <1>2, <1>4 DEF Broadcast

\* Who is still to be reached, and who has been.
LEMMA StopsReach ==
  ASSUME NEW c \in Conns, NEW t \in Seq(Conns), NEW w, NEW k, NEW here, NEW next,
         Stops(c, t, w, k, here, next)
  PROVE  /\ \A x : Ahead(c, x)' <=> \E j \in DOMAIN t : j > k /\ t[j] = x
         /\ \A d \in Conns \ {c}, x \in Conns : Ahead(d, x)' <=> Ahead(d, x)
         /\ \A x \in Conns :
              x \in Reached(c, t) <=>
                \E j \in DOMAIN t : j <= k /\ t[j] = x /\ ~Excluded(c, x) /\ sock[x] = "open"
         /\ \A j \in DOMAIN t : j > k => k <= Len(t)
<1>1. DOMAIN t = 1..Len(t) /\ Len(t) \in Nat /\ k \in 1..(Len(t) + 1)
  BY DEF Stops
<1>2. \A x : Ahead(c, x)' <=> \E j \in DOMAIN t : j > k /\ t[j] = x
  <2> TAKE x
  <2>1. ASSUME NEW m \in DOMAIN todo'[c], todo'[c][m] = x
        PROVE  \E j \in DOMAIN t : j > k /\ t[j] = x
    <3>1. k + m \in DOMAIN t /\ k + m > k /\ t[k + m] = x
      BY <1>1, <2>1 DEF Stops
    <3> QED
      BY <3>1
  <2>2. ASSUME NEW j \in DOMAIN t, j > k, t[j] = x
        PROVE  \E m \in DOMAIN todo'[c] : todo'[c][m] = x
    <3>1. j - k \in 1..(Len(t) - k) /\ k + (j - k) = j
      BY <1>1, <2>2
    <3>2. todo'[c][j - k] = t[k + (j - k)] /\ j - k \in DOMAIN todo'[c]
      BY <3>1 DEF Stops
    <3> QED
      BY <2>2, <3>1, <3>2
  <2> QED
    BY <2>1, <2>2 DEF Ahead, Has
<1>3. \A d \in Conns \ {c}, x \in Conns : Ahead(d, x)' <=> Ahead(d, x)
  BY DEF Stops, Ahead, Has
<1>4. \A j \in DOMAIN t : (\A m \in 1..(j - 1) : ~SuspendsAt(c, t, m)) <=> j <= k
  <2> TAKE j \in DOMAIN t
  <2>1. ASSUME j > k PROVE k \in 1..(j - 1) /\ SuspendsAt(c, t, k)
    BY <1>1, <2>1 DEF Stops
  <2>2. ASSUME j <= k, NEW m \in 1..(j - 1) PROVE ~SuspendsAt(c, t, m)
    <3>1. m \in DOMAIN t /\ m < k
      BY <1>1, <2>2
    <3> QED
      BY <3>1 DEF Stops
  <2> QED
    BY <1>1, <2>1, <2>2
<1>5. \A x \in Conns :
        x \in Reached(c, t) <=>
          \E j \in DOMAIN t : j <= k /\ t[j] = x /\ ~Excluded(c, x) /\ sock[x] = "open"
  BY <1>4 DEF Reached
<1> QED
  BY <1>1, <1>2, <1>3, <1>5

\* A queue without c at its head, and with c at its end.
LEMMA Dequeued ==
  ASSUME NEW a \in Seq(Conns), NEW b \in Seq(Conns), NEW c \in Conns, NEW f \in {0, 1}, Distinct(a),
         Len(a) = Len(b) + f,
         \A j \in 1..Len(b) : b[j] = a[j + f] /\ b[j] # c,
         f = 1 => a[1] = c
  PROVE  /\ \A d \in Conns \ {c} : Has(b, d) <=> Has(a, d)
         /\ ~Has(b, c) /\ Distinct(b)
         /\ \A d, e \in Conns : Ordered(a, d, e) => Ordered(b, d, e)
<1>1. /\ DOMAIN a = 1..Len(a) /\ Len(a) \in Nat /\ DOMAIN b = 1..Len(b) /\ Len(b) \in Nat
      /\ f \in Int /\ 0 <= f /\ f <= 1
  OBVIOUS
<1>2. \A j \in DOMAIN b : j + f \in DOMAIN a /\ b[j] = a[j + f] /\ b[j] # c
  BY <1>1
<1>3. ASSUME NEW j \in DOMAIN a, a[j] # c
      PROVE  j - f \in DOMAIN b /\ b[j - f] = a[j]
  <2>1. CASE f = 0
    BY <1>1, <1>3, <2>1
  <2>2. CASE f = 1
    <3>1. j # 1 /\ j - 1 \in 1..Len(b) /\ (j - 1) + 1 = j
      BY <1>1, <1>3, <2>2
    <3> QED
      BY <1>1, <2>2, <3>1
  <2> QED
    BY <2>1, <2>2
<1>4. \A d \in Conns \ {c} : Has(b, d) <=> Has(a, d)
  BY <1>2, <1>3 DEF Has
<1>5. ~Has(b, c)
  BY <1>2 DEF Has
<1>6. \A j, l \in DOMAIN b : (j + f = l + f => j = l) /\ (j + f < l + f => j < l)
  BY <1>1
<1>7. Distinct(b)
  BY <1>2, <1>6 DEF Distinct
<1>8. \A d, e \in Conns : Ordered(a, d, e) => Ordered(b, d, e)
  BY <1>2, <1>6 DEF Ordered
<1> QED
  BY <1>4, <1>5, <1>7, <1>8

LEMMA Enqueued ==
  ASSUME NEW b \in Seq(Conns), NEW c \in Conns, ~Has(b, c), Distinct(b), NEW q, q = Append(b, c)
  PROVE  /\ \A d \in Conns \ {c} : Has(q, d) <=> Has(b, d)
         /\ Has(q, c) /\ Distinct(q)
         /\ \A d, e \in Conns \ {c} : Ordered(b, d, e) => Ordered(q, d, e)
         /\ \A e \in Conns \ {c} : Ordered(q, e, c)
<1>1. /\ DOMAIN q = 1..(Len(b) + 1) /\ q[Len(b) + 1] = c
      /\ DOMAIN b = 1..Len(b) /\ Len(b) \in Nat
      /\ \A j \in 1..Len(b) : q[j] = b[j]
  BY AppendProperties
<1>2. /\ \A j \in DOMAIN b : j \in DOMAIN q /\ q[j] = b[j] /\ b[j] # c /\ j < Len(b) + 1
      /\ \A j \in DOMAIN q : q[j] = c => j = Len(b) + 1
      /\ \A j \in DOMAIN q : q[j] # c => j \in DOMAIN b
  <2>1. \A j \in DOMAIN b : b[j] # c
    BY DEF Has
  <2> QED
    BY <1>1, <2>1
<1>3. /\ \A d \in Conns \ {c} : Has(q, d) <=> Has(b, d)
      /\ Has(q, c)
  BY <1>1, <1>2 DEF Has
<1>4. Distinct(q)
  <2> SUFFICES ASSUME NEW j \in DOMAIN q, NEW l \in DOMAIN q, q[j] = q[l] PROVE j = l
    BY DEF Distinct
  <2>1. CASE q[j] = c
    BY <1>2, <2>1
  <2>2. CASE q[j] # c
    BY <1>2, <2>2 DEF Distinct
  <2> QED
    BY <2>1, <2>2
<1>5. \A d, e \in Conns \ {c} : Ordered(b, d, e) => Ordered(q, d, e)
  BY <1>2 DEF Ordered
<1>6. \A e \in Conns \ {c} : Ordered(q, e, c)
  BY <1>2 DEF Ordered
<1> QED
  BY <1>3, <1>4, <1>5, <1>6

\* Who waits where.
LEMMA StopsQueues ==
  ASSUME NEW c \in Conns, NEW t \in Seq(Conns), NEW w, NEW k, NEW here, NEW next,
         Stops(c, t, w, k, here, next), Freed(c, w), waiters \in [Conns -> Seq(Conns)],
         \A s \in Conns : Distinct(waiters[s])
  PROVE  /\ \A d \in Conns \ {c}, s \in Conns : Waits(d, s)' <=> Waits(d, s)
         /\ \A s \in Conns : Waits(c, s)' <=> k <= Len(t) /\ s = t[k]
         /\ \A s \in Conns : Distinct(waiters'[s])
         /\ \A s \in Conns, d, e \in Conns \ {c} :
              Ordered(waiters[s], d, e) => Ordered(waiters'[s], d, e)
         /\ \A s \in Conns, e \in Conns \ {c} : Ordered(waiters'[s], e, c)
<1> SUFFICES ASSUME NEW s \in Conns
             PROVE  /\ \A d \in Conns \ {c} : Waits(d, s)' <=> Waits(d, s)
                    /\ Waits(c, s)' <=> k <= Len(t) /\ s = t[k]
                    /\ Distinct(waiters'[s])
                    /\ \A d, e \in Conns \ {c} :
                         Ordered(waiters[s], d, e) => Ordered(waiters'[s], d, e)
                    /\ \A e \in Conns \ {c} : Ordered(waiters'[s], e, c)
  OBVIOUS
<1>1. PICK f \in {0, 1} :
        /\ Len(waiters[s]) = Len(w[s]) + f
        /\ \A j \in 1..Len(w[s]) : w[s][j] = waiters[s][j + f] /\ w[s][j] # c
        /\ f = 1 => waiters[s][1] = c
  BY DEF Freed
<1>2. PICK a, b : a = waiters[s] /\ b = w[s]
  OBVIOUS
<1>3. /\ a \in Seq(Conns) /\ DOMAIN a = 1..Len(a) /\ Len(a) \in Nat
      /\ b \in Seq(Conns) /\ DOMAIN b = 1..Len(b) /\ Len(b) \in Nat
      /\ Distinct(a)
  BY <1>2 DEF Freed
<1>5. /\ \A d \in Conns \ {c} : Has(b, d) <=> Has(a, d)
      /\ ~Has(b, c) /\ Distinct(b)
      /\ \A d, e \in Conns : Ordered(a, d, e) => Ordered(b, d, e)
  <2>1. /\ Len(a) = Len(b) + f
        /\ \A j \in 1..Len(b) : b[j] = a[j + f] /\ b[j] # c
        /\ f = 1 => a[1] = c
    BY <1>1, <1>2
  <2> QED
    BY <1>3, <2>1, Dequeued
<1>6. CASE ~(k <= Len(t) /\ s = t[k])
  <2>1. waiters'[s] = b
    <3>1. w \in [Conns -> Seq(Conns)] /\ (k <= Len(t) => t[k] \in Conns)
      BY DEF Stops, Freed
    <3> QED
      BY <1>2, <1>6, <3>1 DEF Stops
  <2>2. \A e \in Conns : Ordered(b, e, c)
    BY <1>5 DEF Has, Ordered
  <2> QED
    BY <1>2, <1>5, <1>6, <2>1, <2>2 DEF Waits
<1>7. CASE k <= Len(t) /\ s = t[k]
  <2>1. waiters'[s] = Append(b, c)
    BY <1>2, <1>7 DEF Stops, Freed
  <2>2. PICK q : q = Append(b, c)
    OBVIOUS
  <2>3. /\ \A d \in Conns \ {c} : Has(q, d) <=> Has(b, d)
        /\ Has(q, c) /\ Distinct(q)
        /\ \A d, e \in Conns \ {c} : Ordered(b, d, e) => Ordered(q, d, e)
        /\ \A e \in Conns \ {c} : Ordered(q, e, c)
    BY <1>3, <1>5, <2>2, Enqueued
  <2> QED
    BY <1>2, <1>5, <1>7, <2>1, <2>2, <2>3 DEF Waits
<1> QED
  BY <1>6, <1>7

\* A broadcast t to members of the room that there is after the step.
RouteTo(c, t, here) ==
  /\ t \in Seq(Conns)
  /\ \A k \in DOMAIN t :
       /\ NetOf[t[k]] = NetOf[c]
       /\ here = "farewell" => IdOf[t[k]] # IdOf[c]
       /\ Live(t[k]) => Member(t[k])'
  /\ \A j, k \in DOMAIN t : j < k /\ Live(t[j]) /\ Live(t[k]) => Precedes(t[j], t[k])'

\* c, taken off the queues (w), sends on to t and stops at the k-th.
Sending(c, t, w, k, here, next) ==
  /\ Stops(c, t, w, k, here, next) /\ Freed(c, w) /\ RouteTo(c, t, here)
  /\ LiveStay /\ sock' = sock
  /\ \/ here = "announce" /\ next = "relay" /\ pc[c] \in {"auth", "displace", "announce"}
     \/ here = "farewell" /\ next = "done" /\ pc[c] \in {"relay", "farewell"}

\* What such a step keeps, conjunct by conjunct.
LEMMA SendingStages ==
  ASSUME TypeOK, NEW c \in Conns, NEW t, NEW w, NEW k, NEW here, NEW next,
         Sending(c, t, w, k, here, next)
  PROVE  /\ \A d \in Conns \ {c} :
              /\ pc'[d] = pc[d] /\ todo'[d] = todo[d]
              /\ (Sends(d)' <=> Sends(d)) /\ (Active(d)' <=> Active(d))
         /\ pc'[c] = IF k <= Len(t) THEN here ELSE next
         /\ Sends(c)' <=> k <= Len(t)
         /\ Active(c)' <=> here = "announce"
         /\ \A x : Live(x)' <=> Live(x)
<1>1. /\ \A d \in Conns \ {c} : pc'[d] = pc[d] /\ todo'[d] = todo[d]
      /\ pc'[c] = IF k <= Len(t) THEN here ELSE next
  BY DEF Sending, Stops, TypeOK
<1> QED
  BY <1>1 DEF Sending, Sends, Active, Live

LEMMA SendingSuspended ==
  ASSUME TypeOK, Suspended, NEW c \in Conns, NEW t, NEW w, NEW k, NEW here, NEW next,
         Sending(c, t, w, k, here, next)
  PROVE  Suspended'
<1>1. /\ \A d \in Conns \ {c} : Sends(d)' <=> Sends(d)
      /\ Sends(c)' <=> k <= Len(t)
      /\ \A x : Live(x)' <=> Live(x)
  BY SendingStages
<1>2. t \in Seq(Conns) /\ waiters \in [Conns -> Seq(Conns)] /\ \A s \in Conns : Distinct(waiters[s])
  BY DEF Sending, RouteTo, TypeOK, Suspended
<1>3. /\ \A d \in Conns \ {c}, s \in Conns : Waits(d, s)' <=> Waits(d, s)
      /\ \A s \in Conns : Waits(c, s)' <=> k <= Len(t) /\ s = t[k]
      /\ \A s \in Conns : Distinct(waiters'[s])
  <2>1. Stops(c, t, w, k, here, next) /\ Freed(c, w)
    BY DEF Sending
  <2> QED
    BY <1>2, <2>1, StopsQueues
<1>4. k <= Len(t) => k \in DOMAIN t /\ t[k] \in Conns
  BY <1>2 DEF Sending, Stops
<1>5. \A d \in Conns : Sends(d)' <=> \E s \in Conns : Waits(d, s)'
  BY <1>1, <1>3, <1>4 DEF Suspended
<1>6. \A d, r, s \in Conns : Waits(d, r)' /\ Waits(d, s)' => r = s
  BY <1>3 DEF Suspended
<1>7. ASSUME NEW d \in Conns, NEW s \in Conns, Waits(d, s)'
      PROVE  /\ NetOf[s] = NetOf[d] /\ IdOf[s] # IdOf[d]
             /\ sock[s] = "open" => s \in Slow
             /\ Live(s) => Member(s)'
  <2>1. CASE d # c
    BY <1>3, <1>7, <2>1 DEF Suspended, Sending, LiveStay
  <2>2. CASE d = c
    <3>1. k \in DOMAIN t /\ s = t[k] /\ SuspendsAt(c, t, k)
      BY <1>3, <1>4, <1>7, <2>2 DEF Sending, Stops
    <3>2. NetOf[s] = NetOf[c] /\ (Live(s) => Member(s)') /\ (here = "farewell" => IdOf[s] # IdOf[c])
      BY <3>1 DEF Sending, RouteTo
    <3>3. Blocks(s) /\ ~Excluded(c, s)
      BY <3>1 DEF SuspendsAt
    <3>4. here = "announce" => IdOf[s] # IdOf[c]
      BY <3>3 DEF Sending, Excluded
    <3> QED
      BY <2>2, <3>2, <3>3, <3>4 DEF Blocks, Sending
  <2> QED
    BY <2>1, <2>2
<1> QED
  BY <1>1, <1>3, <1>5, <1>6, <1>7 DEF Suspended, Sending

LEMMA SendingInOrder ==
  ASSUME TypeOK, Suspended, InOrder, NEW c \in Conns, NEW t, NEW w, NEW k, NEW here, NEW next,
         Sending(c, t, w, k, here, next)
  PROVE  InOrder'
<1>1. /\ \A d \in Conns \ {c} : pc'[d] = pc[d] /\ todo'[d] = todo[d] /\ (Sends(d)' <=> Sends(d))
      /\ pc'[c] = IF k <= Len(t) THEN here ELSE next
      /\ Sends(c)' <=> k <= Len(t)
      /\ \A x : Live(x)' <=> Live(x)
  BY SendingStages
<1>2. /\ t \in Seq(Conns) /\ waiters \in [Conns -> Seq(Conns)] /\ \A s \in Conns : Distinct(waiters[s])
      /\ Stops(c, t, w, k, here, next) /\ Freed(c, w) /\ LiveStay
  BY DEF Sending, RouteTo, TypeOK, Suspended
<1>3. /\ \A d \in Conns \ {c}, s \in Conns : Waits(d, s)' <=> Waits(d, s)
      /\ \A s \in Conns : Waits(c, s)' <=> k <= Len(t) /\ s = t[k]
  BY <1>2, StopsQueues
<1>4. /\ \A x : Ahead(c, x)' <=> \E j \in DOMAIN t : j > k /\ t[j] = x
      /\ \A d \in Conns \ {c}, x \in Conns : Ahead(d, x)' <=> Ahead(d, x)
  BY <1>2, StopsReach
<1>5. ASSUME NEW d \in Conns \ {c}, Sends(d)
      PROVE  /\ Route(d, todo[d])'
             /\ \A s, x \in Conns : Waits(d, s)' /\ Live(s)' /\ Ahead(d, x)' /\ Live(x)'
                                      => Precedes(s, x)'
  <2>1. todo'[d] = todo[d] /\ pc'[d] = pc[d] /\ \A x \in Conns : Live(x)' => Live(x)
    BY <1>1
  <2>2. /\ Route(d, todo[d])'
        /\ \A s, x \in Conns : Waits(d, s) /\ Live(s)' /\ Ahead(d, x) /\ Live(x)' => Precedes(s, x)'
    BY <1>2, <1>5, <2>1, RouteStays
  <2> QED
    BY <1>3, <1>4, <2>2
<1>6. ASSUME k <= Len(t)
      PROVE  /\ Route(c, todo[c])'
             /\ \A s, x \in Conns : Waits(c, s)' /\ Live(s)' /\ Ahead(c, x)' /\ Live(x)'
                                      => Precedes(s, x)'
  <2>1. /\ \A j \in DOMAIN t :
             /\ NetOf[t[j]] = NetOf[c]
             /\ here = "farewell" => IdOf[t[j]] # IdOf[c]
             /\ Live(t[j]) => Member(t[j])'
        /\ \A j, l \in DOMAIN t : j < l /\ Live(t[j]) /\ Live(t[l]) => Precedes(t[j], t[l])'
    BY DEF Sending, RouteTo
  <2>2. /\ k \in Nat /\ k \in DOMAIN t /\ todo'[c] \in Seq(Conns)
        /\ \A m \in DOMAIN todo'[c] : m \in Nat /\ k + m \in DOMAIN t /\ todo'[c][m] = t[k + m]
    <3>1. DOMAIN t = 1..Len(t) /\ Len(t) \in Nat /\ k \in 1..(Len(t) + 1)
      BY <1>2 DEF Stops
    <3>2. /\ DOMAIN todo'[c] = 1..(Len(t) - k) /\ todo'[c] \in Seq(Conns)
          /\ \A j \in 1..(Len(t) - k) : todo'[c][j] = t[k + j]
      BY <1>2 DEF Stops
    <3> QED
      BY <1>6, <3>1, <3>2
  <2>3. PICK q : q = todo'[c]
    OBVIOUS
  <2>4. \A m \in DOMAIN q :
          /\ NetOf[q[m]] = NetOf[c]
          /\ pc'[c] = "farewell" => IdOf[q[m]] # IdOf[c]
          /\ Live(q[m])' => Member(q[m])'
    BY <1>1, <1>6, <2>1, <2>2, <2>3
  <2>5. \A m, l \in DOMAIN q : m < l /\ Live(q[m])' /\ Live(q[l])' => Precedes(q[m], q[l])'
    BY <1>1, <2>1, <2>2, <2>3
  <2>6. Route(c, todo[c])'
    BY <2>2, <2>3, <2>4, <2>5 DEF Route
  <2>7. \A s, x \in Conns : Waits(c, s)' /\ Live(s)' /\ Ahead(c, x)' /\ Live(x)' => Precedes(s, x)'
    BY <1>1, <1>3, <1>4, <2>1, <2>2
  <2> QED
    BY <2>6, <2>7
<1> QED
  BY <1>1, <1>5, <1>6 DEF InOrder

\* Every peer-leave that is under way is ahead of c's peer-join (t).
Covers(c, t) ==
  \A e \in Conns : pc[e] = "farewell" /\ e # c /\ Fellows(e, c) =>
    /\ \A s \in Conns : Waits(e, s) => Live(s) /\ Has(t, s)
    /\ \A x \in Conns : Ahead(e, x) /\ Live(x) => Has(t, x)

\* The peer-join of whoever is back is behind c's peer-leave (t).
Covered(c, t) ==
  \A d \in Conns : d # c /\ Active(d) /\ Fellows(c, d) =>
    pc[d] = "announce" /\ \A x \in Conns : Has(t, x) /\ Live(x) => Ahead(d, x)

\* A member does not come before itself.
LEMMA NotItself ==
  ASSUME RegistryInv', NEW x \in Conns, NEW y \in Conns, Member(x)', Member(y)', NetOf[x] = NetOf[y],
         Precedes(x, y)'
  PROVE  ~Precedes(y, x)' /\ x # y
<1>1. x # None /\ y # None /\ NetOf[x] \in Nets /\ IdOf[x] \in Ids /\ IdOf[y] \in Ids
  BY ConstantsAssumption
<1>2. /\ rooms'[NetOf[x]] \in Conns /\ keys'[rooms'[NetOf[x]]] \in Seq(Ids)
      /\ dict'[rooms'[NetOf[x]]][IdOf[x]] = x /\ dict'[rooms'[NetOf[x]]][IdOf[y]] = y
  BY <1>1 DEF Member, Registered, RegistryInv, TypeOK
<1>3. PICK q : q = keys'[rooms'[NetOf[x]]]
  OBVIOUS
<1>4. q \in Seq(Ids) /\ HasKey(q, IdOf[x]) /\ HasKey(q, IdOf[y])
  BY <1>1, <1>2, <1>3 DEF RegistryInv, KeysCover
<1>5. PICK j, k \in DOMAIN q : q[j] = IdOf[x] /\ q[k] = IdOf[y]
  BY <1>4 DEF HasKey
<1>6. j < k /\ j \in Int /\ k \in Int
  BY <1>3, <1>4, <1>5 DEF Precedes, Ordered
<1>7. ~Precedes(y, x)'
  BY <1>3, <1>5, <1>6 DEF Precedes, Ordered
<1>8. x # y
  BY <1>3, <1>5, <1>6 DEF Precedes, Ordered
<1> QED
  BY <1>7, <1>8

\* A peer-join never overtakes a peer-leave of the same id.
LEMMA AnnouncesBehind ==
  ASSUME RegistryInv, RegistryInv', Suspended, InOrder, Stages, NEW c \in Conns, NEW t, NEW w, NEW k,
         Sending(c, t, w, k, "announce", "relay"), Covers(c, t),
         NEW e \in Conns, pc[e] = "farewell", e # c, Fellows(e, c)
  PROVE  GoesFirst(e, c)'
<1>1. TypeOK
  BY DEF RegistryInv
<1>2. /\ pc'[e] = pc[e] /\ pc'[c] = IF k <= Len(t) THEN "announce" ELSE "relay"
      /\ \A x : Live(x)' <=> Live(x)
  BY <1>1, SendingStages
<1>3. /\ t \in Seq(Conns) /\ waiters \in [Conns -> Seq(Conns)] /\ \A s \in Conns : Distinct(waiters[s])
      /\ Stops(c, t, w, k, "announce", "relay") /\ Freed(c, w) /\ LiveStay
  BY <1>1 DEF Sending, RouteTo, TypeOK, Suspended
<1>4. /\ \A s \in Conns : Waits(e, s)' <=> Waits(e, s)
      /\ \A s \in Conns : Waits(c, s)' <=> k <= Len(t) /\ s = t[k]
      /\ \A s \in Conns : Ordered(waiters'[s], e, c)
  BY <1>3, StopsQueues
<1>5. /\ \A x : Ahead(c, x)' <=> \E j \in DOMAIN t : j > k /\ t[j] = x
      /\ \A x \in Conns : Ahead(e, x)' <=> Ahead(e, x)
  BY <1>3, StopsReach
<1>6. PICK s \in Conns : Waits(e, s)
  BY DEF Suspended, Sends
<1>7. Live(s) /\ Member(s) /\ NetOf[s] = NetOf[c] /\ IdOf[s] # IdOf[c] /\ (sock[s] = "open" => s \in Slow)
  BY <1>6 DEF Covers, Suspended, Fellows
<1>8. PICK a \in DOMAIN t : t[a] = s
  BY <1>6 DEF Covers, Has
<1>9. SuspendsAt(c, t, a)
  <2>1. pc[s] # "idle"
    BY <1>7, Listed DEF RegistryInv, EntriesSound
  <2>2. sock[s] \in {"open", "closing"}
    BY <1>1, <1>7, <2>1 DEF Stages, Stage, TypeOK, SockState, Live
  <2> QED
    BY <1>7, <1>8, <2>2 DEF SuspendsAt, Excluded, Blocks
<1>10. k <= a /\ k <= Len(t) /\ k \in Nat /\ a \in Nat
  BY <1>3, <1>9 DEF Stops
<1>11. Member(s)'
  BY <1>3, <1>7 DEF LiveStay
<1>12. ASSUME NEW x \in Conns, Ahead(e, x), Live(x)
       PROVE  Ahead(c, x)'
  <2>1. PICK b \in DOMAIN t : t[b] = x
    BY <1>12 DEF Covers, Has
  <2>2. Member(x) /\ NetOf[x] = NetOf[s] /\ Precedes(s, x)
    <3>1. Route(e, todo[e]) /\ Precedes(s, x)
      BY <1>6, <1>7, <1>12 DEF InOrder, Sends
    <3>2. PICK m \in DOMAIN todo[e] : todo[e][m] = x
      BY <1>12 DEF Ahead, Has
    <3> QED
      BY <1>7, <1>12, <3>1, <3>2 DEF Route, Fellows
  <2>3. Precedes(s, x)' /\ Member(x)'
    BY <1>3, <1>7, <1>12, <2>2 DEF LiveStay
  <2>4. ~Precedes(x, s)' /\ s # x
    BY <1>11, <2>2, <2>3, NotItself
  <2>5. ~(b < a)
    BY <1>7, <1>8, <1>12, <2>1, <2>4 DEF Sending, RouteTo
  <2>6. b > k /\ b \in Nat
    BY <1>3, <1>8, <1>10, <2>1, <2>4, <2>5
  <2> QED
    BY <1>5, <2>1, <2>6
<1>13. ASSUME NEW x \in Conns, Waits(e, x)
       PROVE  Waits(c, x)' \/ Ahead(c, x)'
  <2>1. x = s
    BY <1>6, <1>13 DEF Suspended
  <2>2. CASE k = a
    BY <1>4, <1>8, <1>10, <2>1, <2>2
  <2>3. CASE k # a
    BY <1>5, <1>8, <1>10, <2>1, <2>3
  <2> QED
    BY <2>2, <2>3
<1>14. pc'[c] = "announce"
  BY <1>2, <1>10
<1> QED
  BY <1>2, <1>4, <1>5, <1>12, <1>13, <1>14 DEF GoesFirst

LEMMA SendingFarewells ==
  ASSUME RegistryInv, RegistryInv', Stages, Suspended, InOrder, Farewells,
         NEW c \in Conns, NEW t, NEW w, NEW k, NEW here, NEW next,
         Sending(c, t, w, k, here, next),
         here = "announce" => Covers(c, t),
         here = "farewell" => Covered(c, t)
  PROVE  Farewells'
<1>1. TypeOK
  BY DEF RegistryInv
<1>2. /\ \A d \in Conns \ {c} : pc'[d] = pc[d] /\ (Active(d)' <=> Active(d))
      /\ pc'[c] = IF k <= Len(t) THEN here ELSE next
      /\ Active(c)' <=> here = "announce"
      /\ \A x : Live(x)' <=> Live(x)
  BY <1>1, SendingStages
<1>3. /\ t \in Seq(Conns) /\ waiters \in [Conns -> Seq(Conns)] /\ \A s \in Conns : Distinct(waiters[s])
      /\ Stops(c, t, w, k, here, next) /\ Freed(c, w) /\ LiveStay
  BY <1>1 DEF Sending, RouteTo, TypeOK, Suspended
<1>4. /\ \A d \in Conns \ {c}, s \in Conns : Waits(d, s)' <=> Waits(d, s)
      /\ \A s \in Conns : Waits(c, s)' <=> k <= Len(t) /\ s = t[k]
      /\ \A s \in Conns, d, e \in Conns \ {c} :
           Ordered(waiters[s], d, e) => Ordered(waiters'[s], d, e)
  BY <1>3, StopsQueues
<1>5. /\ \A x : Ahead(c, x)' <=> \E j \in DOMAIN t : j > k /\ t[j] = x
      /\ \A d \in Conns \ {c}, x \in Conns : Ahead(d, x)' <=> Ahead(d, x)
  BY <1>3, StopsReach
<1> SUFFICES ASSUME NEW e \in Conns, NEW d \in Conns,
                    pc'[e] = "farewell", Active(d)', Fellows(e, d)
             PROVE  GoesFirst(e, d)'
  BY DEF Farewells, Fellows
<1>6. e # d
  BY DEF Active
<1>7. CASE e # c /\ d # c
  <2>1. GoesFirst(e, d)
    BY <1>2, <1>7 DEF Farewells
  <2> QED
    BY <1>2, <1>4, <1>5, <1>7, <2>1 DEF GoesFirst
<1>8. CASE d = c
  <2>1. here = "announce" /\ next = "relay" /\ pc[e] = "farewell" /\ e # c
    BY <1>2, <1>6, <1>8 DEF Sending
  <2> QED
    BY <1>8, <2>1, AnnouncesBehind
<1>9. CASE e = c
  <2>1. here = "farewell" /\ k <= Len(t) /\ d # c /\ Active(d)
    BY <1>2, <1>6, <1>9 DEF Sending
  <2>2. pc[d] = "announce" /\ \A x \in Conns : Has(t, x) /\ Live(x) => Ahead(d, x)
    BY <1>9, <2>1 DEF Covered
  <2>3. \A x \in Conns : Ahead(c, x)' /\ Live(x) => Ahead(d, x)
    BY <1>5, <2>2 DEF Has
  <2>4. k \in DOMAIN t /\ t[k] \in Conns /\ Has(t, t[k])
    BY <1>3, <2>1 DEF Stops, Has
  <2>5. Blocks(t[k])
    BY <1>3, <2>1 DEF Stops, SuspendsAt
  <2>6. Live(t[k]) /\ Ahead(d, t[k])
    BY <2>2, <2>4, <2>5 DEF Blocks, Live
  <2>7. ~Waits(d, t[k])
    <3> SUFFICES ASSUME Waits(d, t[k]) PROVE FALSE
      OBVIOUS
    <3>1. Precedes(t[k], t[k]) /\ Member(t[k])
      BY <2>2, <2>4, <2>6 DEF InOrder, Suspended, Sends
    <3>2. Precedes(t[k], t[k])' /\ Member(t[k])'
      BY <1>3, <2>4, <2>6, <3>1 DEF LiveStay
    <3> QED
      BY <2>4, <3>2, NotItself
  <2>8. \A s \in Conns : ~(Waits(c, s)' /\ Waits(d, s)')
    BY <1>4, <2>1, <2>7
  <2>9. \A s \in Conns : Ordered(waiters'[s], c, d)
    BY <2>8 DEF Ordered, Waits, Has
  <2>10. \A s \in Conns : Waits(c, s)' => Ahead(d, s)
    BY <1>4, <2>6
  <2> QED
    BY <1>2, <1>4, <1>5, <1>9, <2>1, <2>2, <2>3, <2>9, <2>10 DEF GoesFirst
<1> QED
  BY <1>7, <1>8, <1>9

\* What the members learn from a peer-join of c that goes on with t.
Tells(c, t) ==
  /\ \A x \in Conns \ {c} :
       peers'[x] = IF x \in Reached(c, t) THEN peers[x] \cup {IdOf[c]} ELSE peers[x]
  /\ \A x \in Conns \ {c} :
       Active(x) /\ NetOf[x] = NetOf[c] /\ sock[x] = "open" => IdOf[c] \in peers[x] \/ Has(t, x)
  /\ \A d \in Conns \ {c} :
       Active(d) /\ NetOf[d] = NetOf[c] /\ sock[c] = "open" =>
         IdOf[d] \in peers'[c] \/ (pc[d] = "announce" /\ Ahead(d, c))
  /\ sock[c] = "open" =>
       \A i \in peers'[c] :
         \/ i \in Present(NetOf[c])'
         \/ \E e \in Conns : pc[e] = "farewell" /\ NetOf[e] = NetOf[c] /\ IdOf[e] = i /\ Ahead(e, c)
  /\ Member(c)' /\ \A n \in Nets : Present(n) \subseteq Present(n)'

\* What they learn from a peer-leave.
Untells(c, t) ==
  /\ \A x \in Conns :
       peers'[x] = IF x \in Reached(c, t) THEN peers[x] \ {IdOf[c]} ELSE peers[x]
  /\ \A x \in Conns \ {c} :
       Active(x) /\ NetOf[x] = NetOf[c] /\ sock[x] = "open" /\ IdOf[c] \in peers[x] =>
         \/ IdOf[c] \in Present(NetOf[c])' \/ Has(t, x)
         \/ \E e \in Conns \ {c} :
              pc[e] = "farewell" /\ NetOf[e] = NetOf[c] /\ IdOf[e] = IdOf[c] /\ Ahead(e, x)
  /\ \A n \in Nets, i \in Ids :
       i \in Present(n) /\ ~(n = NetOf[c] /\ i = IdOf[c]) => i \in Present(n)'

\* The presence sets after a peer-join, and after a peer-leave.
LEMMA TellsAnnounced ==
  ASSUME RegistryInv, RegistryInv', Announced, Stages',
         NEW c \in Conns, NEW t, NEW w, NEW k,
         Sending(c, t, w, k, "announce", "relay"), Tells(c, t)
  PROVE  Announced'
<1>1. TypeOK
  BY DEF RegistryInv
<1>2. /\ \A d \in Conns \ {c} : pc'[d] = pc[d] /\ (Active(d)' <=> Active(d))
      /\ pc'[c] = IF k <= Len(t) THEN "announce" ELSE "relay"
  BY <1>1, SendingStages
<1>3. t \in Seq(Conns) /\ Stops(c, t, w, k, "announce", "relay") /\ sock' = sock
  BY DEF Sending, RouteTo
<1>4. /\ \A x : Ahead(c, x)' <=> \E j \in DOMAIN t : j > k /\ t[j] = x
      /\ \A d \in Conns \ {c}, x \in Conns : Ahead(d, x)' <=> Ahead(d, x)
      /\ \A x \in Conns :
              x \in Reached(c, t) <=>
                \E j \in DOMAIN t : j <= k /\ t[j] = x /\ ~Excluded(c, x) /\ sock[x] = "open"
      /\ \A j \in DOMAIN t : j > k => k <= Len(t)
  BY <1>3, StopsReach
<1> SUFFICES ASSUME NEW x \in Conns, NEW d \in Conns,
                    Active(x)', Active(d)', x # d, NetOf[x] = NetOf[d], sock[x] = "open"
             PROVE  IdOf[d] \in peers'[x] \/ (pc'[d] = "announce" /\ Ahead(d, x)')
  BY <1>3 DEF Announced
<1>5. CASE d # c /\ x # c
  <2>1. IdOf[d] \in peers[x] \/ (pc[d] = "announce" /\ Ahead(d, x))
    BY <1>2, <1>5 DEF Announced
  <2>2. peers[x] \subseteq peers'[x]
    BY <1>5 DEF Tells
  <2> QED
    BY <1>2, <1>4, <1>5, <2>1, <2>2
<1>6. CASE x = c
  <2>1. IdOf[d] \in peers'[c] \/ (pc[d] = "announce" /\ Ahead(d, c))
    BY <1>2, <1>6 DEF Tells
  <2> QED
    BY <1>2, <1>4, <1>6, <2>1
<1>7. CASE d = c
  <2>1. x \in Conns \ {c} /\ Active(x) /\ NetOf[x] = NetOf[c]
    BY <1>2, <1>7
  <2>2. IdOf[c] \in peers[x] \/ Has(t, x)
    BY <2>1 DEF Tells
  <2>3. /\ IdOf[c] \in peers[x] => IdOf[c] \in peers'[x]
        /\ x \in Reached(c, t) => IdOf[c] \in peers'[x]
    BY <2>1 DEF Tells
  <2>4. ASSUME NEW j \in DOMAIN t, t[j] = x
        PROVE  IdOf[c] \in peers'[x] \/ (pc'[c] = "announce" /\ Ahead(c, x)')
    <3>1. CASE j > k
      BY <1>2, <1>4, <2>4, <3>1
    <3>2. CASE ~(j > k)
      <4>1. j <= k
        BY <1>3, <3>2 DEF Stops
      <4>2. IdOf[x] # IdOf[c]
        <5>1. Member(x)' /\ Member(c)' /\ x # c
          BY <1>7, <2>1 DEF Tells, Stages, Stage
        <5> QED
          BY <2>1, <5>1 DEF Member
      <4> QED
        BY <1>4, <2>3, <2>4, <4>1, <4>2 DEF Excluded
    <3> QED
      BY <3>1, <3>2
  <2> QED
    BY <1>7, <2>2, <2>3, <2>4 DEF Has
<1> QED
  BY <1>5, <1>6, <1>7

LEMMA TellsDismissed ==
  ASSUME RegistryInv, Dismissed, Stages',
         NEW c \in Conns, NEW t, NEW w, NEW k,
         Sending(c, t, w, k, "announce", "relay"), Tells(c, t)
  PROVE  Dismissed'
<1>1. TypeOK
  BY DEF RegistryInv
<1>2. /\ \A d \in Conns \ {c} : pc'[d] = pc[d] /\ (Active(d)' <=> Active(d))
      /\ pc'[c] = IF k <= Len(t) THEN "announce" ELSE "relay"
  BY <1>1, SendingStages
<1>3. t \in Seq(Conns) /\ Stops(c, t, w, k, "announce", "relay") /\ sock' = sock
      /\ pc[c] # "farewell"
  BY DEF Sending, RouteTo
<1>4. /\ \A d \in Conns \ {c}, x \in Conns : Ahead(d, x)' <=> Ahead(d, x)
      /\ \A x \in Conns : x \in Reached(c, t) => Has(t, x)
  BY <1>3, StopsReach DEF Has
<1> SUFFICES ASSUME NEW x \in Conns, Active(x)', sock[x] = "open", NEW i \in peers'[x]
             PROVE  \/ i \in Present(NetOf[x])'
                    \/ \E e \in Conns : /\ pc'[e] = "farewell" /\ NetOf[e] = NetOf[x]
                                        /\ IdOf[e] = i /\ Ahead(e, x)'
  BY <1>3 DEF Dismissed
<1>5. ASSUME NEW e \in Conns, pc[e] = "farewell", Ahead(e, x)
      PROVE  pc'[e] = "farewell" /\ Ahead(e, x)'
  BY <1>2, <1>3, <1>4, <1>5
<1>6. CASE x = c
  <2>1. \/ i \in Present(NetOf[c])'
        \/ \E e \in Conns : pc[e] = "farewell" /\ NetOf[e] = NetOf[c] /\ IdOf[e] = i /\ Ahead(e, c)
    BY <1>6 DEF Tells
  <2> QED
    BY <1>5, <1>6, <2>1
<1>7. CASE x # c /\ i \in peers[x]
  <2>1. \/ i \in Present(NetOf[x])
        \/ \E e \in Conns : pc[e] = "farewell" /\ NetOf[e] = NetOf[x] /\ IdOf[e] = i /\ Ahead(e, x)
    BY <1>2, <1>7 DEF Dismissed
  <2>2. i \in Present(NetOf[x]) => i \in Present(NetOf[x])'
    BY ConstantsAssumption DEF Tells
  <2> QED
    BY <1>5, <2>1, <2>2
<1>8. CASE x # c /\ i \notin peers[x]
  <2> PICK R : R = Reached(c, t)
    OBVIOUS
  <2>0. peers'[x] = IF x \in R THEN peers[x] \cup {IdOf[c]} ELSE peers[x]
    <3>1. x \in Conns \ {c}
      BY <1>8
    <3> QED
      BY <3>1 DEF Tells
  <2>1. x \in R /\ i = IdOf[c]
    BY <1>8, <2>0
  <2>2. NetOf[x] = NetOf[c]
    BY <1>4, <2>1 DEF Sending, RouteTo, Has
  <2>3. IdOf[c] \in Present(NetOf[c])'
    BY ConstantsAssumption DEF Tells, Member, Present
  <2> QED
    BY <2>1, <2>2, <2>3
<1> QED
  BY <1>6, <1>7, <1>8

LEMMA UntellsAnnounced ==
  ASSUME RegistryInv, Announced,
         NEW c \in Conns, NEW t, NEW w, NEW k,
         Sending(c, t, w, k, "farewell", "done"), Untells(c, t), Covered(c, t)
  PROVE  Announced'
<1>1. TypeOK
  BY DEF RegistryInv
<1>2. /\ \A d \in Conns \ {c} : pc'[d] = pc[d] /\ (Active(d)' <=> Active(d))
      /\ ~Active(c)'
  BY <1>1, SendingStages
<1>3. t \in Seq(Conns) /\ Stops(c, t, w, k, "farewell", "done") /\ sock' = sock
  BY DEF Sending, RouteTo
<1>4. /\ \A d \in Conns \ {c}, x \in Conns : Ahead(d, x)' <=> Ahead(d, x)
      /\ \A x \in Conns : x \in Reached(c, t) => Has(t, x)
  BY <1>3, StopsReach DEF Has
<1> SUFFICES ASSUME NEW x \in Conns, NEW d \in Conns,
                    Active(x)', Active(d)', x # d, NetOf[x] = NetOf[d], sock[x] = "open"
             PROVE  IdOf[d] \in peers'[x] \/ (pc'[d] = "announce" /\ Ahead(d, x)')
  BY <1>3 DEF Announced
<1>5. x # c /\ d # c /\ Active(x) /\ Active(d)
  BY <1>2
<1>6. IdOf[d] \in peers[x] \/ (pc[d] = "announce" /\ Ahead(d, x))
  BY <1>5 DEF Announced
<1>7. CASE pc[d] = "announce" /\ Ahead(d, x)
  BY <1>2, <1>4, <1>5, <1>7
<1>8. CASE IdOf[d] \in peers[x] /\ ~(x \in Reached(c, t) /\ IdOf[d] = IdOf[c])
  BY <1>8 DEF Untells
<1>9. CASE x \in Reached(c, t) /\ IdOf[d] = IdOf[c]
  <2>1. Has(t, x) /\ Live(x) /\ NetOf[x] = NetOf[c]
    BY <1>4, <1>9 DEF Live, Sending, RouteTo, Has
  <2>2. pc[d] = "announce" /\ Ahead(d, x)
    BY <1>5, <1>9, <2>1 DEF Covered, Fellows
  <2> QED
    BY <1>2, <1>4, <1>5, <2>2
<1> QED
  BY <1>6, <1>7, <1>8, <1>9

LEMMA UntellsDismissed ==
  ASSUME RegistryInv, Dismissed,
         NEW c \in Conns, NEW t, NEW w, NEW k,
         Sending(c, t, w, k, "farewell", "done"), Untells(c, t)
  PROVE  Dismissed'
<1>1. TypeOK
  BY DEF RegistryInv
<1>2. /\ \A d \in Conns \ {c} : pc'[d] = pc[d] /\ (Active(d)' <=> Active(d))
      /\ ~Active(c)' /\ pc'[c] = IF k <= Len(t) THEN "farewell" ELSE "done"
  BY <1>1, SendingStages
<1>3. t \in Seq(Conns) /\ Stops(c, t, w, k, "farewell", "done") /\ sock' = sock
      /\ pc[c] \in {"relay", "farewell"}
  BY DEF Sending, RouteTo
<1>4. /\ \A x : Ahead(c, x)' <=> \E j \in DOMAIN t : j > k /\ t[j] = x
      /\ \A d \in Conns \ {c}, x \in Conns : Ahead(d, x)' <=> Ahead(d, x)
      /\ \A x \in Conns :
              x \in Reached(c, t) <=>
                \E j \in DOMAIN t : j <= k /\ t[j] = x /\ ~Excluded(c, x) /\ sock[x] = "open"
      /\ \A j \in DOMAIN t : j > k => k <= Len(t)
  BY <1>3, StopsReach
<1> SUFFICES ASSUME NEW x \in Conns, Active(x)', sock[x] = "open", NEW i \in peers'[x]
             PROVE  \/ i \in Present(NetOf[x])'
                    \/ \E e \in Conns : /\ pc'[e] = "farewell" /\ NetOf[e] = NetOf[x]
                                        /\ IdOf[e] = i /\ Ahead(e, x)'
  BY <1>3 DEF Dismissed
<1>5. x # c /\ Active(x) /\ i \in peers[x] /\ ~(x \in Reached(c, t) /\ i = IdOf[c])
  BY <1>2 DEF Untells
<1>6. /\ NetOf[x] \in Nets /\ i \in Ids
  BY <1>1, <1>5, ConstantsAssumption DEF TypeOK
<1>7. ASSUME NEW e \in Conns \ {c}, pc[e] = "farewell", Ahead(e, x)
      PROVE  pc'[e] = "farewell" /\ Ahead(e, x)'
  BY <1>2, <1>4, <1>7
<1>8. CASE ~(NetOf[x] = NetOf[c] /\ i = IdOf[c])
  <2>1. \/ i \in Present(NetOf[x])
        \/ \E e \in Conns : pc[e] = "farewell" /\ NetOf[e] = NetOf[x] /\ IdOf[e] = i /\ Ahead(e, x)
    BY <1>5 DEF Dismissed
  <2>2. i \in Present(NetOf[x]) => i \in Present(NetOf[x])'
    BY <1>6, <1>8 DEF Untells
  <2> QED
    BY <1>7, <1>8, <2>1, <2>2
<1>9. CASE NetOf[x] = NetOf[c] /\ i = IdOf[c]
  <2>1. \/ IdOf[c] \in Present(NetOf[c])' \/ Has(t, x)
        \/ \E e \in Conns \ {c} :
             pc[e] = "farewell" /\ NetOf[e] = NetOf[c] /\ IdOf[e] = IdOf[c] /\ Ahead(e, x)
    BY <1>5, <1>9 DEF Untells
  <2>2. ASSUME NEW j \in DOMAIN t, t[j] = x
        PROVE  pc'[c] = "farewell" /\ Ahead(c, x)'
    <3>1. ~(j <= k)
      BY <1>3, <1>4, <1>5, <1>9, <2>2 DEF Excluded
    <3>2. j > k
      BY <1>3, <3>1 DEF Stops
    <3> QED
      BY <1>2, <1>4, <2>2, <3>2
  <2> QED
    BY <1>7, <1>9, <2>1, <2>2 DEF Has
<1> QED
  BY <1>8, <1>9

\* All of it, for a peer-join and for a peer-leave.
LEMMA AnnounceKeeps ==
  ASSUME RegistryInv, RegistryInv', PresenceInv, Stages',
         NEW c \in Conns, NEW t, NEW w, NEW k,
         Sending(c, t, w, k, "announce", "relay"), Covers(c, t), Tells(c, t)
  PROVE  Suspended' /\ InOrder' /\ Farewells' /\ Announced' /\ Dismissed'
<1>1. /\ TypeOK /\ Stages /\ Suspended /\ InOrder /\ Farewells /\ Announced /\ Dismissed
  BY DEF RegistryInv, PresenceInv
<1>2. Suspended'
  BY <1>1, SendingSuspended
<1>3. InOrder'
  BY <1>1, SendingInOrder
<1>4. Farewells'
  BY <1>1, SendingFarewells
<1>5. Announced'
  BY <1>1, TellsAnnounced
<1>6. Dismissed'
  BY <1>1, TellsDismissed
<1> QED
  BY <1>2, <1>3, <1>4, <1>5, <1>6

LEMMA FarewellKeeps ==
  ASSUME RegistryInv, RegistryInv', PresenceInv,
         NEW c \in Conns, NEW t, NEW w, NEW k,
         Sending(c, t, w, k, "farewell", "done"), Covered(c, t), Untells(c, t)
  PROVE  Suspended' /\ InOrder' /\ Farewells' /\ Announced' /\ Dismissed'
<1>1. /\ TypeOK /\ Stages /\ Suspended /\ InOrder /\ Farewells /\ Announced /\ Dismissed
  BY DEF RegistryInv, PresenceInv
<1>2. Suspended'
  BY <1>1, SendingSuspended
<1>3. InOrder'
  BY <1>1, SendingInOrder
<1>4. Farewells'
  BY <1>1, SendingFarewells
<1>5. Announced'
  BY <1>1, UntellsAnnounced
<1>6. Dismissed'
  BY <1>1, UntellsDismissed
<1> QED
  BY <1>2, <1>3, <1>4, <1>5, <1>6

\* No send is left suspended on a socket that has closed, but on one.
LEMMA StopsOneClosed ==
  ASSUME OneClosed, NEW c \in Conns, NEW t \in Seq(Conns), NEW w, NEW k, NEW here, NEW next,
         Stops(c, t, w, k, here, next), Freed(c, w), here # "displace", next # "displace",
         pc \in [Conns -> PC], waiters \in [Conns -> Seq(Conns)], sock' = sock,
         \A d \in Conns \ {c} : old'[d] = old[d]
  PROVE  OneClosed'
<1>1. \A s \in Conns : w[s] # <<>> => waiters[s] # <<>>
  <2> SUFFICES ASSUME NEW s \in Conns, waiters[s] = <<>> PROVE w[s] = <<>>
    OBVIOUS
  <2>1. w[s] \in Seq(Conns) /\ Len(w[s]) \in Nat
    BY DEF Freed
  <2>2. PICK f \in {0, 1} : Len(waiters[s]) = Len(w[s]) + f
    BY DEF Freed
  <2>3. Len(w[s]) = 0
    BY <2>1, <2>2
  <2> QED
    BY <2>1, <2>3
<1>2. ASSUME NEW s \in Conns, sock[s] = "closed", waiters'[s] # <<>>
      PROVE  waiters[s] # <<>>
  <2>1. CASE k <= Len(t)
    <3>1. k \in DOMAIN t /\ t[k] \in Conns
      BY <2>1 DEF Stops
    <3>2. Blocks(t[k])
      BY <2>1, <3>1 DEF Stops, SuspendsAt
    <3>3. t[k] # s
      BY <1>2, <3>2 DEF Blocks
    <3>4. waiters'[s] = w[s]
      BY <2>1, <3>1, <3>3 DEF Stops, Freed
    <3> QED
      BY <1>1, <1>2, <3>4
  <2>2. CASE ~(k <= Len(t))
    BY <1>1, <1>2, <2>2 DEF Stops
  <2> QED
    BY <2>1, <2>2
<1>3. \A d \in Conns : pc'[d] = "displace" => d # c /\ pc[d] = "displace"
  BY DEF Stops
<1>4. \A s \in Conns : Hot(s)' => Hot(s)
  BY <1>2, <1>3 DEF Hot
<1> QED
  BY <1>4 DEF OneClosed

-----------------------------------------------------------------------------
(* Registering. *)

\* No handler of another connection of c's id serves it or is about to.
Alone(c) == \A d \in Conns : Fellows(c, d) /\ (pc[d] = "displace" \/ Active(d)) => c = d

\* c registers in room r, in place of o, whose socket has closed.
Registers(c, r, o) ==
  /\ pc[c] \in {"auth", "displace"} /\ Alone(c)
  /\ rooms' \in [Nets -> ConnOrNone]
  /\ \A n \in Nets : n # NetOf[c] => rooms'[n] = rooms[n]
  /\ rooms'[NetOf[c]] = r /\ rooms[NetOf[c]] \in {None, r}
  /\ NetOf[r] = NetOf[c]
  /\ rooms[NetOf[c]] = None => \A i \in Ids : dict[r][i] = None
  /\ o = Registered(NetOf[c], IdOf[c]) /\ (o \in Conns => ~Live(o))
  /\ \A d \in Conns \ {c} : old'[d] = old[d] /\ room'[d] = room[d]
  /\ sock' = sock
  /\ sock[c] = "open" =>
       \A e, s \in Conns : pc[e] = "farewell" /\ Fellows(e, c) /\ Waits(e, s) => Live(s)
  /\ Enroll(c, r)

\* Everybody else stays, and c is in.
LEMMA RegistersRoster ==
  ASSUME RegistryInv, PresenceInv, NEW c \in Conns, NEW r \in Conns, NEW o, Registers(c, r, o)
  PROVE  /\ KeysExact' /\ Member(c)' /\ ~Member(c) /\ Keeps(o) /\ LiveStay
         /\ \A n \in Nets, i \in Ids :
              ~(n = NetOf[c] /\ i = IdOf[c]) => Registered(n, i)' = Registered(n, i)
         /\ \A x \in Conns : Member(x)' => x = c \/ (Member(x) /\ x # o)
         /\ \A x \in Conns : Active(x) /\ x # c => Member(x) /\ Member(x)'
         /\ \A n \in Nets : Present(n) \subseteq Present(n)'
<1>1. /\ pc[c] \in {"auth", "displace"} /\ rooms' \in [Nets -> ConnOrNone]
      /\ \A n \in Nets : n # NetOf[c] => rooms'[n] = rooms[n]
      /\ rooms'[NetOf[c]] = r /\ rooms[NetOf[c]] \in {None, r}
      /\ NetOf[r] = NetOf[c]
      /\ rooms[NetOf[c]] = None => \A i \in Ids : dict[r][i] = None
      /\ o = Registered(NetOf[c], IdOf[c])
      /\ dict' = [dict EXCEPT ![r][IdOf[c]] = c]
      /\ keys' = [keys EXCEPT ![r] = WithKey(@, IdOf[c])]
      /\ KeysExact
  BY DEF Registers, Enroll, PresenceInv
<1>2. /\ KeysExact' /\ Member(c)' /\ Keeps(o)
      /\ \A n \in Nets, i \in Ids :
           ~(n = NetOf[c] /\ i = IdOf[c]) => Registered(n, i)' = Registered(n, i)
      /\ \A x \in Conns : Member(x)' => x = c \/ (Member(x) /\ x # o)
      /\ \A n \in Nets : Present(n) \subseteq Present(n)'
  BY <1>1, EnrollRoster
<1>3. LiveStay
  <2>1. o \in Conns => ~Live(o)
    BY DEF Registers
  <2> QED
    BY <1>2, <2>1, KeepsLive
<1>4. ~Member(c)
  BY <1>1, Listed
<1>5. ASSUME NEW x \in Conns, Active(x), x # c
      PROVE  Member(x) /\ Member(x)'
  <2>1. Member(x)
    BY <1>5 DEF PresenceInv, Stages, Stage
  <2>2. ~Fellows(c, x)
    BY <1>5 DEF Registers, Alone
  <2>3. x # o
    <3>1. NetOf[c] \in Nets /\ IdOf[c] \in Ids
      BY ConstantsAssumption
    <3>2. x = o => NetOf[x] = NetOf[c] /\ IdOf[x] = IdOf[c]
      BY <1>1, <3>1, EntryOf
    <3> QED
      BY <2>2, <3>2 DEF Fellows
  <2> QED
    BY <1>2, <2>1, <2>3 DEF Keeps
<1> QED
  BY <1>2, <1>3, <1>4, <1>5

LEMMA RegistersStages ==
  ASSUME RegistryInv, PresenceInv, NEW c \in Conns, NEW r \in Conns, NEW o, Registers(c, r, o),
         \A d \in Conns \ {c} : pc'[d] = pc[d],
         pc'[c] \in {"announce", "relay"} \/ (pc'[c] = "done" /\ sock[c] # "open")
  PROVE  Stages'
<1>1. /\ Member(c)' /\ ~Member(c) /\ Keeps(o)
      /\ \A n \in Nets, i \in Ids :
           ~(n = NetOf[c] /\ i = IdOf[c]) => Registered(n, i)' = Registered(n, i)
      /\ \A x \in Conns : Member(x)' => x = c \/ (Member(x) /\ x # o)
      /\ \A x \in Conns : Active(x) /\ x # c => Member(x) /\ Member(x)'
  BY RegistersRoster
<1>2. /\ sock' = sock /\ pc[c] \in {"auth", "displace"}
      /\ \A d \in Conns : d # c => old'[d] = old[d] /\ room'[d] = room[d]
      /\ \A d \in Conns : Fellows(c, d) /\ (pc[d] = "displace" \/ Active(d)) => c = d
  BY DEF Registers, Alone
<1>3. Stage(c)'
  <2>1. sock[c] # "none"
    BY <1>2 DEF PresenceInv, Stages, Stage
  <2> QED
    BY <1>1, <1>2, <2>1 DEF Stage, Active
<1>4. ASSUME NEW d \in Conns, d # c
      PROVE  Stage(d)'
  <2>1. Stage(d) /\ pc'[d] = pc[d] /\ (Active(d)' <=> Active(d))
    BY <1>4 DEF PresenceInv, Stages, Active
  <2>2. ASSUME pc[d] = "displace"
        PROVE  /\ Registered(NetOf[d], IdOf[d])' = old'[d] /\ old'[d] # None
               /\ room'[d] = rooms'[NetOf[d]]
               /\ \A x \in Conns : Fellows(d, x) /\ (pc'[x] = "displace" \/ Active(x)') => d = x
    <3>1. ~Fellows(c, d) /\ ~Fellows(d, c)
      BY <1>2, <1>4, <2>2 DEF Fellows
    <3>2. /\ Registered(NetOf[d], IdOf[d])' = Registered(NetOf[d], IdOf[d])
      BY <1>1, <3>1, ConstantsAssumption DEF Fellows
    <3>3. /\ Registered(NetOf[d], IdOf[d]) = old[d] /\ old[d] # None /\ room[d] = rooms[NetOf[d]]
          /\ \A x \in Conns : Fellows(d, x) /\ (pc[x] = "displace" \/ Active(x)) => d = x
      BY <2>1, <2>2 DEF Stage
    <3>4. rooms'[NetOf[d]] = rooms[NetOf[d]]
      <4>1. rooms[NetOf[d]] # None
        BY <3>3 DEF Registered
      <4> QED
        BY <4>1, ConstantsAssumption DEF Registers
    <3>5. \A x \in Conns : Fellows(d, x) /\ (pc'[x] = "displace" \/ Active(x)') => d = x
      BY <3>1, <3>3 DEF Active
    <3> QED
      BY <1>2, <1>4, <3>2, <3>3, <3>4, <3>5
  <2>3. /\ Active(d) => Member(d)'
        /\ Member(d)' => Member(d)
    BY <1>1, <1>4
  <2>4. /\ pc[d] # "forward"
        /\ pc[d] = "idle" <=> sock[d] = "none"
        /\ Member(d)' => Active(d) \/ (pc[d] = "done" /\ sock[d] # "open")
        /\ pc[d] = "farewell" => sock[d] = "closed"
    BY <2>1, <2>3 DEF Stage
  <2> QED
    BY <1>2, <2>1, <2>2, <2>3, <2>4 DEF Stage
<1> QED
  BY <1>3, <1>4 DEF Stages

\* A handler that is in no send is on no queue.
LEMMA NoneFreed ==
  ASSUME TypeOK, Suspended, NEW c \in Conns, ~Sends(c)
  PROVE  Freed(c, waiters)
<1>1. waiters \in [Conns -> Seq(Conns)]
  BY DEF TypeOK
<1>2. ASSUME NEW s \in Conns
      PROVE  /\ Len(waiters[s]) = Len(waiters[s]) + 0
             /\ \A j \in 1..Len(waiters[s]) :
                  waiters[s][j] = waiters[s][j + 0] /\ waiters[s][j] # c
             /\ 0 = 1 => waiters[s][1] = c
  <2>1. waiters[s] \in Seq(Conns) /\ Len(waiters[s]) \in Nat /\ DOMAIN waiters[s] = 1..Len(waiters[s])
    BY <1>1
  <2>2. ~Has(waiters[s], c)
    BY DEF Suspended, Waits
  <2>3. \A j \in 1..Len(waiters[s]) : j + 0 = j
    OBVIOUS
  <2> QED
    BY <2>1, <2>2, <2>3 DEF Has
<1>3. ASSUME NEW s \in Conns
      PROVE  \E f \in {0, 1} :
               /\ Len(waiters[s]) = Len(waiters[s]) + f
               /\ \A j \in 1..Len(waiters[s]) :
                    waiters[s][j] = waiters[s][j + f] /\ waiters[s][j] # c
               /\ f = 1 => waiters[s][1] = c
  <2>1. 0 \in {0, 1}
    OBVIOUS
  <2> QED
    BY <1>2, <2>1
<1> QED
  BY <1>1, <1>3 DEF Freed

\* A newcomer that can be sent `joined` tells the room.
LEMMA RegistersSending ==
  ASSUME RegistryInv, RegistryInv', PresenceInv,
         NEW c \in Conns, NEW r \in Conns, NEW o, Registers(c, r, o), sock[c] = "open"
  PROVE  PresenceInv'
<1>1. /\ KeysExact' /\ Member(c)' /\ ~Member(c) /\ LiveStay
      /\ \A x \in Conns : Active(x) /\ x # c => Member(x) /\ Member(x)'
      /\ \A n \in Nets : Present(n) \subseteq Present(n)'
  BY RegistersRoster
<1>2. /\ TypeOK /\ TypeOK' /\ KeysExact /\ Stages /\ Suspended /\ OneClosed /\ InOrder
      /\ pc \in [Conns -> PC] /\ waiters \in [Conns -> Seq(Conns)]
      /\ NetOf[c] \in Nets /\ IdOf[c] \in Ids
  BY ConstantsAssumption DEF RegistryInv, PresenceInv, TypeOK
<1>3. PICK t : t = Recipients(NetOf[c])'
  OBVIOUS
<1>4. /\ t \in Seq(Conns)
      /\ \A k \in DOMAIN t : NetOf[t[k]] = NetOf[c] /\ Member(t[k])'
      /\ \A x \in Conns : NetOf[x] = NetOf[c] /\ Member(x)' => Has(t, x)
      /\ \A j, k \in DOMAIN t : j < k => Precedes(t[j], t[k])'
  BY <1>1, <1>2, <1>3, Roster
<1>5. /\ peers' = [Arrived(c, t) EXCEPT
                     ![c] = {j \in Ids : dict'[r][j] # None} \ {IdOf[c]}]
      /\ Broadcast(c, t, waiters, "announce", "relay")
  BY <1>3, Zenon DEF Registers, Enroll
<1>6. PICK k \in 1..(Len(t) + 1) : Stops(c, t, waiters, k, "announce", "relay")
  BY <1>2, <1>4, <1>5, BroadcastStops
<1>7. pc[c] \in {"auth", "displace"} /\ sock' = sock
  BY DEF Registers
<1>8. Freed(c, waiters)
  <2>1. ~Sends(c)
    BY <1>7 DEF Sends
  <2> QED
    BY <1>2, <2>1, NoneFreed
<1>9. RouteTo(c, t, "announce")
  BY <1>4 DEF RouteTo
<1>10. Sending(c, t, waiters, k, "announce", "relay")
  BY <1>1, <1>6, <1>7, <1>8, <1>9 DEF Sending
<1>11. Stages'
  <2>1. /\ \A d \in Conns \ {c} : pc'[d] = pc[d]
        /\ pc'[c] = IF k <= Len(t) THEN "announce" ELSE "relay"
    BY <1>2, <1>10, SendingStages
  <2>2. pc'[c] \in {"announce", "relay"}
    BY <2>1
  <2> QED
    BY <2>1, <2>2, RegistersStages
<1>12. OneClosed'
  <2>1. \A d \in Conns \ {c} : old'[d] = old[d]
    BY DEF Registers
  <2> QED
    BY <1>2, <1>4, <1>6, <1>7, <1>8, <2>1, StopsOneClosed
<1>13. Covers(c, t)
  <2> SUFFICES ASSUME NEW e \in Conns, pc[e] = "farewell", Fellows(e, c)
               PROVE  /\ \A s \in Conns : Waits(e, s) => Live(s) /\ Has(t, s)
                      /\ \A x \in Conns : Ahead(e, x) /\ Live(x) => Has(t, x)
    BY DEF Covers
  <2>1. ASSUME NEW s \in Conns, Waits(e, s)
        PROVE  Live(s) /\ Has(t, s)
    <3>1. Live(s)
      BY <2>1 DEF Registers
    <3>2. NetOf[s] = NetOf[c] /\ Member(s)
      BY <1>2, <2>1, <3>1 DEF Suspended, Fellows
    <3> QED
      BY <1>1, <1>4, <3>1, <3>2 DEF LiveStay
  <2>2. ASSUME NEW x \in Conns, Ahead(e, x), Live(x)
        PROVE  Has(t, x)
    <3>1. Route(e, todo[e])
      BY <1>2 DEF InOrder, Sends
    <3>2. NetOf[x] = NetOf[c] /\ Member(x)
      BY <2>2, <3>1 DEF Route, Ahead, Has, Fellows
    <3> QED
      BY <1>1, <1>4, <2>2, <3>2 DEF LiveStay
  <2> QED
    BY <2>1, <2>2
<1>14. Tells(c, t)
  <2> PICK R, J : R = Reached(c, t) /\ J = {j \in Ids : dict'[r][j] # None}
    OBVIOUS
  <2>1. peers' = [[d \in Conns |-> IF d \in R THEN peers[d] \cup {IdOf[c]} ELSE peers[d]]
                    EXCEPT ![c] = J \ {IdOf[c]}]
    BY <1>5 DEF Arrived
  <2>2. J = Present(NetOf[c])'
    <3>1. rooms'[NetOf[c]] = r /\ r # None
      BY ConstantsAssumption DEF Registers
    <3> QED
      BY <3>1 DEF Present, Registered
  <2>3. \A x \in Conns \ {c} :
          peers'[x] = IF x \in Reached(c, t) THEN peers[x] \cup {IdOf[c]} ELSE peers[x]
    BY <2>1
  <2>4. \A x \in Conns \ {c} :
          Active(x) /\ NetOf[x] = NetOf[c] /\ sock[x] = "open" => Has(t, x)
    BY <1>1, <1>4
  <2>5. peers'[c] = J \ {IdOf[c]}
    BY <2>1
  <2>6. ASSUME NEW d \in Conns \ {c}, Active(d), NetOf[d] = NetOf[c]
        PROVE  IdOf[d] \in peers'[c]
    <3>1. Member(d)' /\ d # None /\ IdOf[d] \in Ids
      BY <1>1, <2>6, ConstantsAssumption
    <3>2. IdOf[d] # IdOf[c] /\ IdOf[d] \in Present(NetOf[c])'
      BY <1>1, <2>6, <3>1 DEF Member, Present
    <3> QED
      BY <2>2, <2>5, <3>2
  <2> QED
    BY <1>1, <2>2, <2>3, <2>4, <2>5, <2>6 DEF Tells
<1>15. Suspended' /\ InOrder' /\ Farewells' /\ Announced' /\ Dismissed'
  BY <1>10, <1>11, <1>13, <1>14, AnnounceKeeps
<1> QED
  BY <1>1, <1>11, <1>12, <1>15 DEF PresenceInv

\* A newcomer whose socket is lost does not.
LEMMA RegistersSilently ==
  ASSUME RegistryInv, PresenceInv,
         NEW c \in Conns, NEW r \in Conns, NEW o, Registers(c, r, o), sock[c] # "open"
  PROVE  PresenceInv'
<1>1. /\ KeysExact' /\ LiveStay
      /\ \A n \in Nets : Present(n) \subseteq Present(n)'
  BY RegistersRoster
<1>2. /\ pc' = [pc EXCEPT ![c] = "done"] /\ UNCHANGED <<todo, waiters, peers>>
      /\ sock' = sock /\ pc[c] \in {"auth", "displace"}
      /\ \A d \in Conns \ {c} : old'[d] = old[d]
  BY DEF Registers, Enroll
<1>3. pc'[c] = "done" /\ \A d \in Conns \ {c} : pc'[d] = pc[d]
  BY <1>2 DEF RegistryInv, TypeOK
<1>4. Stages'
  BY <1>3, RegistersStages
<1>5. OneClosed'
  BY <1>2, <1>3 DEF PresenceInv, OneClosed, Hot
<1>6. Silent
  <2>1. \A d \in Conns : pc'[d] = pc[d]
          \/ {pc[d], pc'[d]} \cap {"announce", "relay", "farewell"} = {}
    BY <1>2, <1>3
  <2> QED
    BY <1>1, <1>2, <2>1 DEF Silent, Live
<1>7. Suspended' /\ InOrder' /\ Farewells' /\ Announced' /\ Dismissed'
  BY <1>6, SilentKeeps DEF PresenceInv
<1> QED
  BY <1>1, <1>4, <1>5, <1>7 DEF PresenceInv

LEMMA RegistersKeeps ==
  ASSUME RegistryInv, RegistryInv', PresenceInv,
         NEW c \in Conns, NEW r \in Conns, NEW o, Registers(c, r, o)
  PROVE  PresenceInv'
BY RegistersSending, RegistersSilently

\* Where no handler can run, no closed socket is waited for.
LEMMA IdleCold ==
  ASSUME TypeOK, Idle, Stages
  PROVE  \A s \in Conns : ~Hot(s)
<1> SUFFICES ASSUME NEW s \in Conns, Hot(s) PROVE FALSE
  OBVIOUS
<1>1. CASE waiters[s] # <<>>
  <2>1. waiters[s] \in Seq(Conns) /\ Head(waiters[s]) \in Conns
    BY <1>1 DEF TypeOK
  <2> QED
    BY <1>1, <2>1 DEF Idle, Runnable, SendsTo, Hot
<1>2. CASE \E c \in Conns : pc[c] = "displace" /\ old[c] = s
  BY <1>2 DEF Idle, Runnable, Hot
<1> QED
  BY <1>1, <1>2 DEF Hot

\* A closed socket that is waited for is such a socket.
LEMMA WaitsHot ==
  ASSUME NEW c, NEW s \in Conns, Waits(c, s), ~Live(s), TypeOK
  PROVE  Hot(s)
<1>1. waiters[s] # <<>>
  BY DEF Waits, Has
<1> QED
  BY <1>1 DEF Hot, Live

\* Of a join that is let in, without Overlap, the id has no other handler.
LEMMA MayJoinAlone ==
  ASSUME ~Overlap, NEW c \in Conns, MayJoin(c)
  PROVE  \A d \in Conns : Fellows(c, d) => pc[d] # "displace" /\ ~Active(d)
BY DEF MayJoin, Fellows, Active

\* A join registers at once or closes what is left of the old socket.
LEMMA JoinKeepsPresence ==
  ASSUME RegistryInv, RegistryInv', PresenceInv, ~Overlap, NEW c \in Conns, Join(c)
  PROVE  PresenceInv'
<1> DEFINE n0 == NetOf[c]
           r == IF rooms[n0] = None THEN c ELSE rooms[n0]
           o == dict[r][IdOf[c]]
<1>1. /\ TypeOK /\ n0 \in Nets /\ IdOf[c] \in Ids /\ c # None /\ Stages
      /\ rooms \in [Nets -> Conns \cup {None}] /\ pc \in [Conns -> PC]
      /\ old \in [Conns -> Conns \cup {None}] /\ room \in [Conns -> Conns \cup {None}]
  BY ConstantsAssumption DEF RegistryInv, TypeOK, PresenceInv
<1>2. r \in Conns /\ NetOf[r] = n0
  BY <1>1, ConstantsAssumption DEF RegistryInv, NetsAgree
<1>3. /\ pc[c] = "auth" /\ FrameFrom(c) /\ MayJoin(c)
      /\ rooms' = [rooms EXCEPT ![n0] = r]
      /\ room' = [room EXCEPT ![c] = r]
      /\ old' = [old EXCEPT ![c] = o]
      /\ \/ Displace(c, r, o)
         \/ ~MustWaitFor(o) /\ Enroll(c, r) /\ UNCHANGED sock
  BY DEF Join
<1>4. /\ rooms[n0] = None => \A i \in Ids : dict[r][i] = None
      /\ o = Registered(n0, IdOf[c])
      /\ rooms[n0] \in {None, r}
  <2>1. \A i \in Ids : dict[c][i] = None
    BY <1>3 DEF RegistryInv, FreshDicts
  <2> QED
    BY <1>1, <2>1 DEF Registered
<1>5. \A d \in Conns : Fellows(c, d) => pc[d] # "displace" /\ ~Active(d)
  BY <1>3, MayJoinAlone
<1> HIDE DEF r, o
<1>6. /\ \A d \in Conns \ {c} : old'[d] = old[d] /\ room'[d] = room[d]
      /\ old'[c] = o /\ room'[c] = r /\ rooms'[n0] = r
      /\ \A n \in Nets : n # n0 => rooms'[n] = rooms[n]
      /\ rooms' \in [Nets -> ConnOrNone]
  BY <1>1, <1>2, <1>3 DEF ConnOrNone
<1>7. CASE ~MustWaitFor(o) /\ Enroll(c, r) /\ UNCHANGED sock
  <2>1. sock[c] = "open" =>
          \A e, s \in Conns : pc[e] = "farewell" /\ Fellows(e, c) /\ Waits(e, s) => Live(s)
    BY <1>1, <1>3, IdleCold, WaitsHot DEF FrameFrom
  <2>2. o \in Conns => ~Live(o)
    BY <1>7, ConstantsAssumption DEF MustWaitFor, Live
  <2>3. Alone(c)
    BY <1>5 DEF Alone
  <2>4. Registers(c, r, o)
    BY <1>2, <1>3, <1>4, <1>6, <1>7, <2>1, <2>2, <2>3 DEF Registers
  <2> QED
    BY <1>2, <2>4, RegistersKeeps
<1>8. CASE Displace(c, r, o)
  <2>1. /\ o # None /\ sock[o] # "closed"
        /\ pc' = [pc EXCEPT ![c] = "displace"]
        /\ sock' = [sock EXCEPT ![o] = "closing"]
        /\ UNCHANGED <<dict, keys, todo, waiters, peers>>
    BY <1>8 DEF Displace, MustWaitFor
  <2>2. o \in Conns /\ Member(o) /\ Fellows(c, o)
    <3>1. o \in Conns
      BY <1>1, <1>2, <2>1 DEF TypeOK, o
    <3>2. NetOf[o] = n0 /\ IdOf[o] = IdOf[c]
      BY <1>1, <1>4, <3>1, EntryOf
    <3> QED
      BY <1>4, <3>1, <3>2 DEF Member, Fellows
  <2>3. sock[o] = "closing"
    <3>1. pc[o] = "done" /\ sock[o] # "open" /\ sock[o] # "none"
      BY <1>1, <1>5, <2>2 DEF Stages, Stage
    <3> QED
      BY <1>1, <2>1, <2>2, <3>1 DEF TypeOK, SockState
  <2>4. sock' = sock
    BY <1>1, <2>1, <2>2, <2>3 DEF TypeOK
  <2>5. rooms' = rooms /\ rooms[n0] # None /\ r = rooms[n0]
    <3>1. rooms[n0] # None
      BY <1>4, <2>1 DEF Registered
    <3>2. r = rooms[n0]
      BY <3>1 DEF r
    <3> QED
      BY <1>1, <1>3, <3>1, <3>2
  <2>6. /\ \A x \in Conns : (Member(x)' <=> Member(x)) /\ (Live(x)' <=> Live(x))
        /\ \A x, y \in Conns : Precedes(x, y)' <=> Precedes(x, y)
        /\ \A n \in Nets : Present(n)' = Present(n)
        /\ \A n \in Nets, i \in Ids : Registered(n, i)' = Registered(n, i)
    BY <2>1, <2>4, <2>5 DEF Member, Live, Precedes, Present, Registered
  <2>7. pc'[c] = "displace" /\ \A d \in Conns \ {c} : pc'[d] = pc[d]
    BY <1>1, <2>1
  <2>8. KeysExact'
    BY <2>1 DEF PresenceInv, KeysExact
  <2>9. Stage(c)'
    <3>1. Registered(NetOf[c], IdOf[c])' = old'[c] /\ old'[c] # None /\ room'[c] = rooms'[NetOf[c]]
      BY <1>1, <1>4, <1>6, <2>1, <2>5, <2>6
    <3>2. \A d \in Conns : Fellows(c, d) /\ (pc'[d] = "displace" \/ Active(d)') => c = d
      BY <1>5, <2>7 DEF Active
    <3>3. ~Member(c)' /\ sock[c] # "none"
      <4>1. ~Member(c)
        BY <1>3, Listed
      <4>2. sock[c] # "none"
        BY <1>1, <1>3 DEF Stages, Stage
      <4> QED
        BY <2>6, <4>1, <4>2
    <3> QED
      BY <2>4, <2>7, <3>1, <3>2, <3>3 DEF Stage, Active
  <2>10. ASSUME NEW d \in Conns, d # c
         PROVE  Stage(d)'
    <3>1. /\ Stage(d) /\ pc'[d] = pc[d] /\ (Active(d)' <=> Active(d))
          /\ old'[d] = old[d] /\ room'[d] = room[d]
      BY <1>1, <1>6, <2>7, <2>10 DEF Stages, Active
    <3>2. pc[d] = "displace" => ~Fellows(d, c)
      BY <1>5, <2>10 DEF Fellows
    <3>3. \A x \in Conns \ {c} : pc'[x] = pc[x] /\ (Active(x)' <=> Active(x))
      BY <2>7 DEF Active
    <3>4. Registered(NetOf[d], IdOf[d])' = Registered(NetOf[d], IdOf[d])
      BY <2>6, ConstantsAssumption
    <3>5. pc[d] = "displace" =>
            \A x \in Conns : Fellows(d, x) /\ (pc'[x] = "displace" \/ Active(x)') => d = x
      BY <3>1, <3>2, <3>3 DEF Stage
    <3> QED
      BY <2>4, <2>5, <2>6, <2>10, <3>1, <3>4, <3>5 DEF Stage
  <2>11. OneClosed'
    <3>1. \A s \in Conns : Hot(s)' => Hot(s)
      <4> SUFFICES ASSUME NEW s \in Conns, Hot(s)' PROVE Hot(s)
        OBVIOUS
      <4>1. s # o
        BY <2>3, <2>4 DEF Hot
      <4> QED
        BY <1>6, <2>1, <2>4, <2>7, <4>1 DEF Hot
    <3> QED
      BY <3>1 DEF PresenceInv, OneClosed
  <2>12. Silent
    <3>1. LiveStay
      BY <2>6 DEF LiveStay
    <3>2. \A d \in Conns : pc'[d] = pc[d]
          \/ {pc[d], pc'[d]} \cap {"announce", "relay", "farewell"} = {}
      BY <1>3, <2>7
    <3> QED
      BY <2>1, <2>4, <2>6, <3>1, <3>2 DEF Silent
  <2>13. Suspended' /\ InOrder' /\ Farewells' /\ Announced' /\ Dismissed'
    BY <2>12, SilentKeeps DEF PresenceInv
  <2> QED
    BY <2>8, <2>9, <2>10, <2>11, <2>13 DEF PresenceInv, Stages
<1> QED
  BY <1>3, <1>7, <1>8

\* The old socket has closed, so no other closed socket is waited for: every
\* peer-leave of the id waits on a member that the peer-join will meet.
LEMMA DisplacedKeepsPresence ==
  ASSUME RegistryInv, RegistryInv', PresenceInv, NEW c \in Conns, Displaced(c)
  PROVE  PresenceInv'
<1> DEFINE r == room[c]
           o == old[c]
<1>1. /\ pc[c] = "displace" /\ sock[o] = "closed"
      /\ UNCHANGED <<rooms, room, old, sock>> /\ Enroll(c, r)
  BY DEF Displaced
<1>2. /\ TypeOK /\ NetOf[c] \in Nets /\ IdOf[c] \in Ids /\ rooms \in [Nets -> ConnOrNone]
      /\ old[c] \in Conns \cup {None} /\ room[c] \in Conns \cup {None}
  BY ConstantsAssumption DEF RegistryInv, TypeOK, ConnOrNone
<1>3. /\ Registered(NetOf[c], IdOf[c]) = o /\ o # None /\ r = rooms[NetOf[c]]
      /\ Alone(c)
  BY <1>1 DEF PresenceInv, Stages, Stage, Alone
<1>4. /\ o \in Conns /\ NetOf[o] = NetOf[c] /\ IdOf[o] = IdOf[c]
      /\ r \in Conns /\ r # None /\ NetOf[r] = NetOf[c]
  <2>1. o \in Conns /\ r # None /\ r \in Conns
    BY <1>2, <1>3 DEF Registered
  <2> QED
    BY <1>2, <1>3, <2>1, EntryOf DEF RegistryInv, NetsAgree
<1>5. ASSUME NEW e \in Conns, NEW s \in Conns, pc[e] = "farewell", Fellows(e, c), Waits(e, s)
      PROVE  Live(s)
  <2> SUFFICES ASSUME ~Live(s) PROVE FALSE
    OBVIOUS
  <2>1. Hot(s)
    BY <1>2, <1>5, WaitsHot
  <2>2. Hot(o)
    BY <1>1 DEF Hot
  <2>3. s = o
    BY <1>4, <2>1, <2>2 DEF PresenceInv, OneClosed
  <2>4. IdOf[s] # IdOf[e]
    BY <1>5 DEF PresenceInv, Suspended
  <2> QED
    BY <1>4, <1>5, <2>3, <2>4 DEF Fellows
<1>6. Registers(c, r, o)
  BY <1>1, <1>2, <1>3, <1>4, <1>5 DEF Registers, Live
<1> QED
  BY <1>4, <1>6, RegistersKeeps

\* The steps of one socket.
LEMMA SocketStepKeepsPresence ==
  ASSUME RegistryInv, PresenceInv, NEW c \in Conns,
         Connect(c) \/ AuthFail(c) \/ Drop(c) \/ SocketClosed(c)
  PROVE  PresenceInv'
<1>1. /\ TypeOK /\ Stages /\ pc \in [Conns -> PC] /\ sock \in [Conns -> SockState]
      /\ UNCHANGED <<rooms, dict, keys, room, old, todo, waiters, peers>>
  BY DEF RegistryInv, TypeOK, PresenceInv, Connect, AuthFail, Drop, SocketClosed, registry
<1>2. \A d \in Conns \ {c} : pc'[d] = pc[d] /\ sock'[d] = sock[d]
  BY <1>1 DEF Connect, AuthFail, Drop, SocketClosed
<1>3. \/ pc[c] = "idle" /\ pc'[c] = "auth" /\ sock[c] = "none" /\ sock'[c] = "open"
      \/ pc[c] = "auth" /\ pc'[c] = "done" /\ sock[c] = "open" /\ sock'[c] = "closing"
      \/ pc[c] = "auth" /\ pc'[c] = "done" /\ sock[c] \in {"closing", "closed"} /\ sock'[c] = sock[c]
      \/ pc'[c] = pc[c] /\ pc[c] # "idle" /\ sock[c] = "open" /\ sock'[c] = "closing"
      \/ pc'[c] = pc[c] /\ pc[c] # "idle" /\ sock[c] = "closing" /\ sock'[c] = "closed" /\ Idle
  <2>1. CASE Connect(c)
    BY <1>1, <2>1 DEF Connect, Stages, Stage
  <2>2. CASE AuthFail(c)
    <3>1. sock[c] # "none"
      BY <1>1, <2>2 DEF AuthFail, Stages, Stage
    <3> QED
      BY <1>1, <2>2, <3>1 DEF AuthFail, SockState
  <2>3. CASE Drop(c)
    BY <1>1, <2>3 DEF Drop, Stages, Stage
  <2>4. CASE SocketClosed(c)
    BY <1>1, <2>4 DEF SocketClosed, Stages, Stage
  <2> QED
    BY <2>1, <2>2, <2>3, <2>4
<1>4. /\ \A x \in Conns : Member(x)' <=> Member(x)
      /\ \A x, y \in Conns : Precedes(x, y)' <=> Precedes(x, y)
      /\ \A n \in Nets : Present(n)' = Present(n)
      /\ \A n \in Nets, i \in Ids : Registered(n, i)' = Registered(n, i)
  BY <1>1 DEF Member, Precedes, Present, Registered
<1>5. /\ \A d \in Conns : Active(d)' <=> Active(d)
      /\ \A d \in Conns : pc'[d] = "displace" <=> pc[d] = "displace"
      /\ \A d \in Conns : Live(d)' => Live(d)
  BY <1>2, <1>3 DEF Active, Live
<1>6. KeysExact'
  BY <1>1 DEF PresenceInv, KeysExact
<1>7. Stages'
  <2> SUFFICES ASSUME NEW d \in Conns PROVE Stage(d)'
    BY DEF Stages
  <2>1. Stage(d)
    BY <1>1 DEF Stages
  <2>2. pc'[d] = "displace" =>
          /\ Registered(NetOf[d], IdOf[d])' = old'[d] /\ old'[d] # None
          /\ room'[d] = rooms'[NetOf[d]]
          /\ \A x \in Conns : Fellows(d, x) /\ (pc'[x] = "displace" \/ Active(x)') => d = x
    BY <1>1, <1>4, <1>5, <2>1, ConstantsAssumption DEF Stage
  <2>3. /\ Active(d)' => Member(d)'
        /\ pc'[d] # "forward"
    BY <1>2, <1>3, <1>4, <1>5, <2>1 DEF Stage
  <2>4. CASE d # c
    BY <1>2, <1>4, <1>5, <2>1, <2>2, <2>3, <2>4 DEF Stage
  <2>5. CASE d = c
    <3>1. pc[c] \in {"idle", "auth"} => ~Member(c)
      BY Listed
    <3>2. /\ pc'[c] = "idle" <=> sock'[c] = "none"
          /\ Member(c)' => Active(c)' \/ (pc'[c] = "done" /\ sock'[c] # "open")
          /\ pc'[c] = "farewell" => sock'[c] = "closed"
      BY <1>3, <1>4, <1>5, <2>1, <2>5, <3>1 DEF Stage
    <3> QED
      BY <2>2, <2>3, <2>5, <3>2 DEF Stage
  <2> QED
    BY <2>4, <2>5
<1>8. OneClosed'
  <2>1. CASE sock'[c] = "closed" /\ sock[c] # "closed"
    <3>1. \A s \in Conns : ~Hot(s)
      BY <1>1, <1>3, <2>1, IdleCold
    <3>2. \A s \in Conns : Hot(s)' => s = c
      BY <1>1, <1>2, <1>5, <3>1 DEF Hot
    <3> QED
      BY <3>2 DEF OneClosed
  <2>2. CASE ~(sock'[c] = "closed" /\ sock[c] # "closed")
    <3>1. \A s \in Conns : sock'[s] = "closed" => sock[s] = "closed"
      BY <1>2, <2>2
    <3>2. \A s \in Conns : Hot(s)' => Hot(s)
      BY <1>1, <1>5, <3>1 DEF Hot
    <3> QED
      BY <3>2 DEF PresenceInv, OneClosed
  <2> QED
    BY <2>1, <2>2
<1>9. Silent
  <2>1. LiveStay
    BY <1>4 DEF LiveStay
  <2>2. \A d \in Conns : pc'[d] = pc[d]
          \/ {pc[d], pc'[d]} \cap {"announce", "relay", "farewell"} = {}
    BY <1>2, <1>3
  <2>3. \A s \in Conns : sock'[s] = "open" => sock[s] = "open" \/ pc[s] = "idle"
    BY <1>2, <1>3
  <2> QED
    BY <1>1, <1>4, <1>5, <2>1, <2>2, <2>3 DEF Silent
<1>10. Suspended' /\ InOrder' /\ Farewells' /\ Announced' /\ Dismissed'
  BY <1>9, SilentKeeps DEF PresenceInv
<1> QED
  BY <1>6, <1>7, <1>8, <1>10 DEF PresenceInv

-----------------------------------------------------------------------------
(* Leaving, and going on. *)

\* A member leaves the room, and its peer-leave sets out.
LEMMA DisconnectedKeepsPresence ==
  ASSUME RegistryInv, RegistryInv', PresenceInv, NEW c \in Conns, Disconnected(c)
  PROVE  PresenceInv'
<1>1. /\ TypeOK /\ TypeOK' /\ KeysExact /\ Stages /\ Suspended /\ OneClosed
      /\ pc \in [Conns -> PC] /\ waiters \in [Conns -> Seq(Conns)]
      /\ NetOf[c] \in Nets /\ IdOf[c] \in Ids
  BY ConstantsAssumption DEF RegistryInv, PresenceInv, TypeOK
<1>2. /\ pc[c] = "relay" /\ sock[c] = "closed" /\ Leave(c, waiters)
      /\ UNCHANGED <<room, old, sock, welcomed>>
  BY DEF Disconnected
<1>3. Member(c)
  BY <1>1, <1>2 DEF Stages, Stage, Active
<1>4. PICK t : t = Recipients(NetOf[c])'
  OBVIOUS
<1>5. /\ dict' = [dict EXCEPT ![rooms[NetOf[c]]][IdOf[c]] = None]
      /\ keys' = [keys EXCEPT ![rooms[NetOf[c]]] = WithoutKey(@, IdOf[c])]
      /\ rooms' = RoomsAfterLeave(NetOf[c], dict')
      /\ peers' = Departed(c, t)
      /\ Broadcast(c, t, waiters, "farewell", "done")
  BY <1>2, <1>3, <1>4, Zenon DEF Leave, OwnsEntry, Member
<1>6. /\ KeysExact' /\ Keeps(c)
      /\ \A x \in Conns : Member(x)' => Member(x) /\ x # c
      /\ \A n \in Nets : rooms'[n] \in {rooms[n], None}
      /\ \A n \in Nets, i \in Ids :
           ~(n = NetOf[c] /\ i = IdOf[c]) => Registered(n, i)' = Registered(n, i)
      /\ \A n \in Nets, i \in Ids :
           i \in Present(n) /\ ~(n = NetOf[c] /\ i = IdOf[c]) => i \in Present(n)'
  BY <1>1, <1>3, <1>5, LeaveRoster
<1>7. /\ t \in Seq(Conns)
      /\ \A k \in DOMAIN t : NetOf[t[k]] = NetOf[c] /\ Member(t[k])'
      /\ \A x \in Conns : NetOf[x] = NetOf[c] /\ Member(x)' => Has(t, x)
      /\ \A j, k \in DOMAIN t : j < k => Precedes(t[j], t[k])'
  BY <1>1, <1>4, <1>6, Roster
<1>8. PICK k \in 1..(Len(t) + 1) : Stops(c, t, waiters, k, "farewell", "done")
  BY <1>1, <1>5, <1>7, BroadcastStops
<1>9. Freed(c, waiters)
  <2>1. ~Sends(c)
    BY <1>2 DEF Sends
  <2> QED
    BY <1>1, <2>1, NoneFreed
<1>10. LiveStay
  BY <1>2, <1>6, KeepsLive DEF Live
<1>11. \A x \in Conns : Fellows(c, x) /\ Member(x) => x = c
  BY <1>3 DEF Fellows, Member
<1>12. Sending(c, t, waiters, k, "farewell", "done")
  <2>1. \A j \in DOMAIN t : IdOf[t[j]] # IdOf[c]
    BY <1>6, <1>7, <1>11 DEF Fellows
  <2>2. RouteTo(c, t, "farewell")
    BY <1>7, <2>1 DEF RouteTo
  <2> QED
    BY <1>2, <1>8, <1>9, <1>10, <2>2 DEF Sending
<1>13. Covered(c, t)
  BY <1>1, <1>11 DEF Covered, Stages, Stage
<1>14. Untells(c, t)
  <2>1. \A x \in Conns :
          peers'[x] = IF x \in Reached(c, t) THEN peers[x] \ {IdOf[c]} ELSE peers[x]
    BY <1>5 DEF Departed
  <2>2. \A x \in Conns \ {c} : Active(x) /\ NetOf[x] = NetOf[c] => Has(t, x)
    BY <1>1, <1>6, <1>7 DEF Keeps, Stages, Stage
  <2> QED
    BY <1>6, <2>1, <2>2 DEF Untells
<1>15. Stages'
  <2>1. /\ \A d \in Conns \ {c} : pc'[d] = pc[d] /\ (Active(d)' <=> Active(d))
        /\ pc'[c] = IF k <= Len(t) THEN "farewell" ELSE "done"
        /\ ~Active(c)'
    BY <1>1, <1>12, SendingStages
  <2>2. Stage(c)'
    <3>1. ~Member(c)' /\ pc'[c] \in {"farewell", "done"} /\ sock'[c] = "closed"
      BY <1>2, <1>6, <2>1
    <3> QED
      BY <2>1, <3>1 DEF Stage
  <2>3. ASSUME NEW d \in Conns, d # c
        PROVE  Stage(d)'
    <3>1. Stage(d) /\ pc'[d] = pc[d] /\ (Active(d)' <=> Active(d))
      BY <1>1, <2>1, <2>3 DEF Stages
    <3>2. /\ Active(d) => Member(d)'
          /\ Member(d)' => Member(d)
      BY <1>6, <2>3, <3>1 DEF Keeps, Stage
    <3>3. ASSUME pc[d] = "displace"
          PROVE  /\ Registered(NetOf[d], IdOf[d])' = old[d] /\ old[d] # None
                 /\ room[d] = rooms'[NetOf[d]]
                 /\ \A x \in Conns : Fellows(d, x) /\ (pc'[x] = "displace" \/ Active(x)') => d = x
      <4>1. /\ Registered(NetOf[d], IdOf[d]) = old[d] /\ old[d] # None /\ room[d] = rooms[NetOf[d]]
            /\ \A x \in Conns : Fellows(d, x) /\ (pc[x] = "displace" \/ Active(x)) => d = x
        BY <3>1, <3>3 DEF Stage
      <4>2. ~Fellows(d, c)
        BY <1>2, <2>3, <4>1 DEF Active
      <4>3. Registered(NetOf[d], IdOf[d])' = Registered(NetOf[d], IdOf[d])
        BY <1>6, <4>2, ConstantsAssumption DEF Fellows
      <4>4. rooms'[NetOf[d]] = rooms[NetOf[d]]
        BY <1>6, <4>1, <4>3, ConstantsAssumption DEF Registered
      <4>5. \A x \in Conns : Fellows(d, x) /\ (pc'[x] = "displace" \/ Active(x)') => d = x
        BY <2>1, <4>1, <4>2
      <4> QED
        BY <4>1, <4>3, <4>4, <4>5
    <3> QED
      BY <1>2, <3>1, <3>2, <3>3 DEF Stage
  <2> QED
    BY <2>2, <2>3 DEF Stages
<1>16. OneClosed'
  BY <1>1, <1>2, <1>7, <1>8, <1>9, StopsOneClosed
<1>17. Suspended' /\ InOrder' /\ Farewells' /\ Announced' /\ Dismissed'
  BY <1>12, <1>13, <1>14, FarewellKeeps
<1> QED
  BY <1>6, <1>15, <1>16, <1>17 DEF PresenceInv

\* A step that leaves the registry as it is.
SameRooms == UNCHANGED <<rooms, dict, keys, room, old, sock>>

LEMMA SameRoomsStay ==
  ASSUME PresenceInv, SameRooms
  PROVE  /\ KeysExact' /\ LiveStay
         /\ \A x \in Conns : Member(x)' <=> Member(x)
         /\ \A x, y : Precedes(x, y)' <=> Precedes(x, y)
         /\ \A n \in Nets : Present(n)' = Present(n)
         /\ \A n \in Nets, i \in Ids : Registered(n, i)' = Registered(n, i)
<1>1. /\ \A x \in Conns : Member(x)' <=> Member(x)
      /\ \A x, y : Precedes(x, y)' <=> Precedes(x, y)
      /\ \A n \in Nets : Present(n)' = Present(n)
      /\ \A n \in Nets, i \in Ids : Registered(n, i)' = Registered(n, i)
  BY DEF SameRooms, Member, Precedes, Present, Registered
<1>2. KeysExact'
  BY DEF SameRooms, PresenceInv, KeysExact
<1> QED
  BY <1>1, <1>2 DEF LiveStay

\* c goes on: it stays the one handler of its id, or ends.
LEMMA SameRoomsStages ==
  ASSUME PresenceInv, SameRooms, NEW c \in Conns,
         \A d \in Conns \ {c} : pc'[d] = pc[d],
         \/ pc[c] = "announce" /\ pc'[c] \in {"announce", "relay"}
         \/ pc[c] = "farewell" /\ pc'[c] \in {"farewell", "done"}
  PROVE  Stages'
<1>1. /\ \A x \in Conns : Member(x)' <=> Member(x)
      /\ \A n \in Nets, i \in Ids : Registered(n, i)' = Registered(n, i)
  BY SameRoomsStay
<1>2. \A d \in Conns : /\ Active(d)' <=> Active(d)
                       /\ pc'[d] = "displace" <=> pc[d] = "displace"
  BY DEF Active
<1>3. /\ room' = room /\ old' = old /\ rooms' = rooms /\ sock' = sock
  BY DEF SameRooms
<1> SUFFICES ASSUME NEW d \in Conns PROVE Stage(d)'
  BY DEF Stages
<1>4. Stage(d)
  BY DEF PresenceInv, Stages
<1>5. pc'[d] = "displace" =>
          /\ Registered(NetOf[d], IdOf[d])' = old'[d] /\ old'[d] # None
          /\ room'[d] = rooms'[NetOf[d]]
          /\ \A x \in Conns : Fellows(d, x) /\ (pc'[x] = "displace" \/ Active(x)') => d = x
  BY <1>1, <1>2, <1>3, <1>4, ConstantsAssumption DEF Stage
<1>6. Active(d)' => Member(d)'
  BY <1>1, <1>2, <1>4 DEF Stage
<1>7. CASE d # c
  BY <1>1, <1>2, <1>3, <1>4, <1>5, <1>6, <1>7 DEF Stage
<1>8. CASE d = c
  <2>1. /\ pc'[c] # "forward"
        /\ pc'[c] = "idle" <=> sock[c] = "none"
        /\ Member(c) => Active(c)' \/ (pc'[c] = "done" /\ sock[c] # "open")
        /\ pc'[c] = "farewell" => sock[c] = "closed"
    BY <1>2, <1>4, <1>8 DEF Stage, Active
  <2> QED
    BY <1>1, <1>3, <1>5, <1>6, <1>8, <2>1 DEF Stage
<1> QED
  BY <1>7, <1>8

\* The head of a queue is taken off it.
LEMMA HeadFreed ==
  ASSUME TypeOK, Suspended, NEW c \in Conns, NEW s \in Conns, SendsTo(c, s),
         NEW w, w = [waiters EXCEPT ![s] = Tail(@)]
  PROVE  Freed(c, w) /\ Waits(c, s) /\ waiters[s] # <<>> /\ waiters[s][1] = c
<1>1. /\ waiters \in [Conns -> Seq(Conns)] /\ waiters[s] # <<>> /\ Head(waiters[s]) = c
  BY DEF TypeOK, SendsTo
<1>2. PICK a : a = waiters[s]
  OBVIOUS
<1>3. /\ a \in Seq(Conns) /\ a # <<>> /\ Len(a) \in Nat /\ Len(a) # 0 /\ DOMAIN a = 1..Len(a)
      /\ a[1] = c /\ Tail(a) \in Seq(Conns) /\ Len(Tail(a)) = Len(a) - 1
      /\ \A j \in 1..Len(Tail(a)) : Tail(a)[j] = a[j + 1]
  BY <1>1, <1>2, HeadTailProperties
<1>4. Waits(c, s)
  BY <1>2, <1>3 DEF Waits, Has
<1>5. w \in [Conns -> Seq(Conns)] /\ w[s] = Tail(a) /\ \A x \in Conns : x # s => w[x] = waiters[x]
  BY <1>1, <1>2, <1>3
<1>6. ASSUME NEW x \in Conns, x # s
      PROVE  /\ Len(waiters[x]) = Len(w[x]) + 0
             /\ \A j \in 1..Len(w[x]) : w[x][j] = waiters[x][j + 0] /\ w[x][j] # c
             /\ 0 = 1 => waiters[x][1] = c
  <2>1. PICK q : q = waiters[x]
    OBVIOUS
  <2>2. q \in Seq(Conns) /\ Len(q) \in Nat /\ DOMAIN q = 1..Len(q)
    BY <1>1, <2>1
  <2>3. ~Has(q, c) /\ w[x] = q
    BY <1>4, <1>5, <1>6, <2>1 DEF Suspended, Waits
  <2>4. Len(q) = Len(q) + 0
    BY <2>2
  <2>5. ASSUME NEW j \in 1..Len(q)
        PROVE  q[j] = q[j + 0] /\ q[j] # c
    <3>1. j + 0 = j
      OBVIOUS
    <3> QED
      BY <2>2, <2>3, <3>1 DEF Has
  <2>6. 0 # 1
    OBVIOUS
  <2>7. \A j \in 1..Len(w[x]) : w[x][j] = waiters[x][j + 0] /\ w[x][j] # c
    BY <2>1, <2>3, <2>5, Zenon
  <2>8. Len(waiters[x]) = Len(w[x]) + 0
    BY <2>1, <2>3, <2>4, Zenon
  <2> QED
    BY <2>6, <2>7, <2>8, Zenon
<1>7. /\ Len(waiters[s]) = Len(w[s]) + 1
      /\ \A j \in 1..Len(w[s]) : w[s][j] = waiters[s][j + 1] /\ w[s][j] # c
      /\ 1 = 1 => waiters[s][1] = c
  <2>1. Len(a) = Len(Tail(a)) + 1
    BY <1>3
  <2>2. \A j \in 1..Len(Tail(a)) : Tail(a)[j] = a[j + 1] /\ a[j + 1] # c
    <3> TAKE j \in 1..Len(Tail(a))
    <3>1. j + 1 \in DOMAIN a /\ 1 \in DOMAIN a /\ j + 1 # 1
      BY <1>3
    <3> QED
      BY <1>2, <1>3, <3>1 DEF Suspended, Distinct
  <2> QED
    BY <1>2, <1>3, <1>5, <2>1, <2>2
<1>8. ASSUME NEW x \in Conns
      PROVE  \E f \in {0, 1} :
               /\ Len(waiters[x]) = Len(w[x]) + f
               /\ \A j \in 1..Len(w[x]) : w[x][j] = waiters[x][j + f] /\ w[x][j] # c
               /\ f = 1 => waiters[x][1] = c
  <2>1. 0 \in {0, 1} /\ 1 \in {0, 1}
    OBVIOUS
  <2>2. CASE x = s
    BY <1>7, <2>1, <2>2
  <2>3. CASE x # s
    BY <1>6, <2>1, <2>3
  <2> QED
    BY <2>2, <2>3
<1>9. Freed(c, w)
  BY <1>5, <1>8 DEF Freed
<1> QED
  BY <1>1, <1>2, <1>3, <1>4, <1>9

\* On a socket that has closed, or while no handler can run, nothing overtakes.
LEMMA HeadAlone ==
  ASSUME TypeOK, Stages, Suspended, OneClosed, NEW c \in Conns, NEW s \in Conns, Resumable(c, s),
         NEW e \in Conns, e # c, \A x \in Conns : Ordered(waiters[x], e, c)
  PROVE  \A x \in Conns : Waits(e, x) => Live(x) /\ ~Waits(c, x)
<1>1. SendsTo(c, s) /\ (sock[s] = "closed" \/ (sock[s] = "open" /\ Idle))
  BY DEF Resumable
<1>2. Waits(c, s) /\ waiters[s] # <<>> /\ waiters[s][1] = c /\ waiters[s] \in Seq(Conns)
  BY <1>1, HeadFreed DEF TypeOK
<1>3. ~Waits(e, s)
  <2> SUFFICES ASSUME Waits(e, s) PROVE FALSE
    OBVIOUS
  <2>1. PICK q : q = waiters[s]
    OBVIOUS
  <2>2. DOMAIN q = 1..Len(q) /\ Len(q) \in Nat /\ q[1] = c /\ Ordered(q, e, c) /\ Has(q, e)
    BY <1>2, <2>1 DEF Waits
  <2>3. PICK j \in DOMAIN q : q[j] = e
    BY <2>2 DEF Has
  <2>4. 1 \in DOMAIN q /\ j >= 1
    BY <2>2, <2>3
  <2>5. j < 1
    BY <2>2, <2>3, <2>4 DEF Ordered
  <2> QED
    BY <2>2, <2>3, <2>5
<1>4. ASSUME NEW x \in Conns, Waits(e, x)
      PROVE  Live(x) /\ ~Waits(c, x)
  <2>1. ~Waits(c, x)
    BY <1>2, <1>3, <1>4 DEF Suspended
  <2>2. ASSUME ~Live(x) PROVE FALSE
    <3>1. Hot(x)
      BY <1>4, <2>2, WaitsHot
    <3>2. sock[s] = "closed"
      BY <1>1, <3>1, IdleCold
    <3>3. Hot(s)
      BY <1>2, <3>2 DEF Hot
    <3> QED
      BY <1>3, <1>4, <3>1, <3>3 DEF OneClosed
  <2> QED
    BY <2>1, <2>2
<1> QED
  BY <1>4

\* What a broadcast that goes on has in common.
LEMMA GoesOn ==
  ASSUME RegistryInv, PresenceInv, SameRooms, NEW c \in Conns, NEW s \in Conns, SendsTo(c, s),
         NEW here, NEW next,
         \/ here = "announce" /\ next = "relay"
         \/ here = "farewell" /\ next = "done",
         pc[c] = here,
         Broadcast(c, todo[c], [waiters EXCEPT ![s] = Tail(@)], here, next)
  PROVE  \E w, k : /\ Sending(c, todo[c], w, k, here, next)
                   /\ Stages' /\ OneClosed'
<1>1. /\ TypeOK /\ Suspended /\ OneClosed /\ InOrder
      /\ pc \in [Conns -> PC] /\ waiters \in [Conns -> Seq(Conns)]
  BY DEF RegistryInv, PresenceInv, TypeOK
<1>2. PICK w : w = [waiters EXCEPT ![s] = Tail(@)]
  OBVIOUS
<1>3. PICK t : t = todo[c]
  OBVIOUS
<1>4. Freed(c, w)
  BY <1>1, <1>2, HeadFreed
<1>5. /\ Route(c, t) /\ t \in Seq(Conns)
  BY <1>1, <1>3 DEF InOrder, Sends, Route
<1>6. PICK k \in 1..(Len(t) + 1) : Stops(c, t, w, k, here, next)
  BY <1>1, <1>2, <1>3, <1>5, BroadcastStops
<1>7. /\ LiveStay /\ sock' = sock
      /\ \A x \in Conns : Member(x)' <=> Member(x)
      /\ \A x, y : Precedes(x, y)' <=> Precedes(x, y)
  BY SameRoomsStay DEF SameRooms
<1>8. RouteTo(c, t, here)
  <2>1. \A j \in DOMAIN t : t[j] \in Conns
    BY <1>5
  <2> QED
    BY <1>5, <1>7, <2>1 DEF Route, RouteTo
<1>9. Sending(c, t, w, k, here, next)
  BY <1>4, <1>6, <1>7, <1>8 DEF Sending
<1>10. Stages'
  <2>1. /\ \A d \in Conns \ {c} : pc'[d] = pc[d]
        /\ pc'[c] = IF k <= Len(t) THEN here ELSE next
    BY <1>1, <1>9, SendingStages
  <2>2. \/ pc[c] = "announce" /\ pc'[c] \in {"announce", "relay"}
        \/ pc[c] = "farewell" /\ pc'[c] \in {"farewell", "done"}
    BY <2>1
  <2> QED
    BY <2>1, <2>2, SameRoomsStages
<1>11. OneClosed'
  <2>1. \A d \in Conns \ {c} : old'[d] = old[d]
    BY DEF SameRooms
  <2>2. here # "displace" /\ next # "displace"
    OBVIOUS
  <2> QED
    BY <1>1, <1>4, <1>5, <1>6, <1>7, <2>1, <2>2, StopsOneClosed
<1> QED
  BY <1>3, <1>9, <1>10, <1>11

\* A peer-join goes on behind the peer-leaves of its id, and a peer-leave
\* ahead of the peer-join.
LEMMA ResumeAnnounceKeepsPresence ==
  ASSUME RegistryInv, RegistryInv', PresenceInv, NEW c \in Conns, ResumeAnnounce(c)
  PROVE  PresenceInv'
<1>1. /\ TypeOK /\ Stages /\ Suspended /\ OneClosed /\ InOrder /\ Farewells /\ Announced /\ Dismissed
      /\ NetOf[c] \in Nets /\ IdOf[c] \in Ids
  BY ConstantsAssumption DEF RegistryInv, PresenceInv
<1>2. pc[c] = "announce" /\ SameRooms /\ Active(c)
  BY DEF ResumeAnnounce, SameRooms, registry, Active
<1>3. PICK s \in Conns :
        /\ Resumable(c, s)
        /\ peers' = Arrived(c, todo[c])
        /\ Broadcast(c, todo[c], [waiters EXCEPT ![s] = Tail(@)], "announce", "relay")
  BY DEF ResumeAnnounce
<1>4. PICK w, k : Sending(c, todo[c], w, k, "announce", "relay") /\ Stages' /\ OneClosed'
  BY <1>2, <1>3, GoesOn DEF Resumable
<1>5. PICK t : t = todo[c]
  OBVIOUS
<1>6. \A x \in Conns : Has(t, x) <=> Ahead(c, x)
  BY <1>5 DEF Ahead
<1>7. /\ KeysExact' /\ \A n \in Nets : Present(n)' = Present(n)
      /\ \A x \in Conns : Member(x)' <=> Member(x)
  BY <1>2, SameRoomsStay
<1>8. Covers(c, t)
  <2> SUFFICES ASSUME NEW e \in Conns, pc[e] = "farewell", e # c, Fellows(e, c)
               PROVE  /\ \A x \in Conns : Waits(e, x) => Live(x) /\ Has(t, x)
                      /\ \A x \in Conns : Ahead(e, x) /\ Live(x) => Has(t, x)
    BY DEF Covers
  <2>1. GoesFirst(e, c)
    BY <1>1, <1>2 DEF Farewells
  <2>2. \A x \in Conns : Waits(e, x) => Live(x) /\ ~Waits(c, x)
    BY <1>1, <1>3, <2>1, HeadAlone DEF GoesFirst
  <2> QED
    BY <1>6, <2>1, <2>2 DEF GoesFirst
<1>9. Tells(c, t)
  <2> PICK R : R = Reached(c, t)
    OBVIOUS
  <2>1. peers' = [d \in Conns |-> IF d \in R THEN peers[d] \cup {IdOf[c]} ELSE peers[d]]
    BY <1>3, <1>5 DEF Arrived
  <2>2. c \notin R
    BY <1>2 DEF Reached, Excluded
  <2>3. \A x \in Conns \ {c} :
          Active(x) /\ NetOf[x] = NetOf[c] /\ sock[x] = "open" => IdOf[c] \in peers[x] \/ Has(t, x)
    BY <1>1, <1>2, <1>6 DEF Announced
  <2>4. \A d \in Conns \ {c} :
          Active(d) /\ NetOf[d] = NetOf[c] /\ sock[c] = "open" =>
            IdOf[d] \in peers'[c] \/ (pc[d] = "announce" /\ Ahead(d, c))
    BY <1>1, <1>2, <2>1, <2>2 DEF Announced
  <2>5. sock[c] = "open" =>
          \A i \in peers'[c] :
            \/ i \in Present(NetOf[c])'
            \/ \E e \in Conns : pc[e] = "farewell" /\ NetOf[e] = NetOf[c] /\ IdOf[e] = i /\ Ahead(e, c)
    BY <1>1, <1>2, <1>7, <2>1, <2>2 DEF Dismissed
  <2>6. Member(c)'
    BY <1>1, <1>2, <1>7 DEF Stages, Stage
  <2> QED
    BY <1>7, <2>1, <2>3, <2>4, <2>5, <2>6 DEF Tells
<1>10. Suspended' /\ InOrder' /\ Farewells' /\ Announced' /\ Dismissed'
  BY <1>4, <1>5, <1>8, <1>9, AnnounceKeeps
<1> QED
  BY <1>4, <1>7, <1>10 DEF PresenceInv

LEMMA ResumeFarewellKeepsPresence ==
  ASSUME RegistryInv, RegistryInv', PresenceInv, NEW c \in Conns, ResumeFarewell(c)
  PROVE  PresenceInv'
<1>1. /\ TypeOK /\ Stages /\ Suspended /\ OneClosed /\ InOrder /\ Farewells /\ Announced /\ Dismissed
      /\ NetOf[c] \in Nets /\ IdOf[c] \in Ids
  BY ConstantsAssumption DEF RegistryInv, PresenceInv
<1>2. pc[c] = "farewell" /\ SameRooms
  <2>1. pc[c] = "farewell" /\ sock' = SocketAfter(c)
        /\ UNCHANGED <<rooms, dict, keys, room, old>>
    BY DEF ResumeFarewell, registry
  <2>2. sock[c] = "closed"
    BY <1>1, <2>1 DEF Stages, Stage
  <2> QED
    BY <2>1, <2>2 DEF SocketAfter, SameRooms
<1>3. PICK s \in Conns :
        /\ Resumable(c, s)
        /\ peers' = Departed(c, todo[c])
        /\ Broadcast(c, todo[c], [waiters EXCEPT ![s] = Tail(@)], "farewell", "done")
  BY DEF ResumeFarewell
<1>4. PICK w, k : Sending(c, todo[c], w, k, "farewell", "done") /\ Stages' /\ OneClosed'
  BY <1>2, <1>3, GoesOn DEF Resumable
<1>5. PICK t : t = todo[c]
  OBVIOUS
<1>6. \A x \in Conns : Has(t, x) <=> Ahead(c, x)
  BY <1>5 DEF Ahead
<1>7. /\ KeysExact' /\ \A n \in Nets : Present(n)' = Present(n)
  BY <1>2, SameRoomsStay
<1>8. Covered(c, t)
  BY <1>1, <1>2, <1>6 DEF Covered, Farewells, GoesFirst
<1>9. Untells(c, t)
  <2>1. \A x \in Conns :
          peers'[x] = IF x \in Reached(c, t) THEN peers[x] \ {IdOf[c]} ELSE peers[x]
    BY <1>3, <1>5 DEF Departed
  <2>2. ASSUME NEW x \in Conns \ {c}, Active(x), NetOf[x] = NetOf[c], sock[x] = "open",
               IdOf[c] \in peers[x]
        PROVE  \/ IdOf[c] \in Present(NetOf[c])' \/ Has(t, x)
               \/ \E e \in Conns \ {c} :
                    pc[e] = "farewell" /\ NetOf[e] = NetOf[c] /\ IdOf[e] = IdOf[c] /\ Ahead(e, x)
    <3>1. \/ IdOf[c] \in Present(NetOf[x])
          \/ \E e \in Conns :
               pc[e] = "farewell" /\ NetOf[e] = NetOf[x] /\ IdOf[e] = IdOf[c] /\ Ahead(e, x)
      BY <1>1, <2>2 DEF Dismissed
    <3> QED
      BY <1>1, <1>6, <1>7, <2>2, <3>1
  <2> QED
    BY <1>7, <2>1, <2>2 DEF Untells
<1>10. Suspended' /\ InOrder' /\ Farewells' /\ Announced' /\ Dismissed'
  BY <1>4, <1>5, <1>8, <1>9, FarewellKeeps
<1> QED
  BY <1>4, <1>7, <1>10 DEF PresenceInv

-----------------------------------------------------------------------------
(* The theorem. *)

\* PresenceInv is inductive, with RegistryInv, and gives PresenceExact.
LEMMA InitPresence == Init => PresenceInv
<1> SUFFICES ASSUME Init PROVE PresenceInv
  OBVIOUS
<1>1. /\ \A n \in Nets : rooms[n] = None
      /\ \A c \in Conns : pc[c] = "idle" /\ sock[c] = "none" /\ waiters[c] = <<>> /\ keys[c] = <<>>
  BY DEF Init
<1>2. \A c \in Conns : ~Active(c) /\ ~Sends(c) /\ ~Hot(c) /\ ~Member(c)
  BY <1>1, ConstantsAssumption DEF Active, Sends, Hot, Member, Registered
<1>3. \A c, s \in Conns : ~Waits(c, s)
  BY <1>1 DEF Waits, Has
<1>4. KeysExact /\ \A s \in Conns : Distinct(waiters[s])
  BY <1>1 DEF KeysExact, Distinct, HasKey
<1>5. Stages
  BY <1>1, <1>2 DEF Stages, Stage
<1>6. Suspended /\ OneClosed /\ InOrder
  BY <1>2, <1>3, <1>4 DEF Suspended, OneClosed, InOrder
<1>7. Farewells /\ Announced /\ Dismissed
  BY <1>1, <1>2 DEF Farewells, Announced, Dismissed
<1> QED
  BY <1>4, <1>5, <1>6, <1>7 DEF PresenceInv

LEMMA StutterKeepsPresence ==
  ASSUME PresenceInv, UNCHANGED vars
  PROVE  PresenceInv'
<1>1. UNCHANGED <<rooms, dict, keys, pc, room, old, todo, sock, waiters, peers>>
  BY DEF vars
<1> USE DEF Active, Sends, Live, Member, Waits, Ahead, Precedes, Hot, Present, Registered
<1>2. KeysExact' /\ Stages'
  BY <1>1 DEF PresenceInv, KeysExact, Stages, Stage
<1>3. Suspended' /\ OneClosed'
  BY <1>1 DEF PresenceInv, Suspended, OneClosed
<1>4. InOrder' /\ Farewells'
  BY <1>1 DEF PresenceInv, InOrder, Route, Farewells, GoesFirst
<1>5. Announced' /\ Dismissed'
  BY <1>1 DEF PresenceInv, Announced, Dismissed
<1> QED
  BY <1>2, <1>3, <1>4, <1>5 DEF PresenceInv

LEMMA NextKeepsPresence ==
  ASSUME RegistryInv, RegistryInv', PresenceInv, ~Overlap, Senders = {}, [Next]_vars
  PROVE  PresenceInv'
<1>1. CASE UNCHANGED vars
  BY <1>1, StutterKeepsPresence
<1>2. ASSUME NEW c \in Conns, Connect(c) \/ AuthFail(c) \/ Drop(c) \/ SocketClosed(c)
      PROVE  PresenceInv'
  BY <1>2, SocketStepKeepsPresence
<1>3. ASSUME NEW c \in Conns, Join(c)
      PROVE  PresenceInv'
  BY <1>3, JoinKeepsPresence
<1>4. ASSUME NEW c \in Conns, NEW i \in Ids, Relay(c, i)
      PROVE  PresenceInv'
  BY <1>4 DEF Relay
<1>5. ASSUME NEW c \in Conns, Step(c)
      PROVE  PresenceInv'
  <2>1. CASE Displaced(c)
    BY <2>1, DisplacedKeepsPresence
  <2>2. CASE Disconnected(c)
    BY <2>2, DisconnectedKeepsPresence
  <2>3. CASE ResumeAnnounce(c)
    BY <2>3, ResumeAnnounceKeepsPresence
  <2>4. CASE ResumeFarewell(c)
    BY <2>4, ResumeFarewellKeepsPresence
  <2>5. CASE ResumeForward(c)
    BY <2>5 DEF ResumeForward, PresenceInv, Stages, Stage
  <2> QED
    BY <1>5, <2>1, <2>2, <2>3, <2>4, <2>5 DEF Step, Resume
<1> QED
  BY <1>1, <1>2, <1>3, <1>4, <1>5 DEF Next

LEMMA PresenceInvExact == PresenceInv => PresenceExact
<1> SUFFICES ASSUME PresenceInv, Quiet PROVE PresenceExact
  BY DEF PresenceExact, PresenceComplete, PresenceSound
<1>1. \A c \in Conns : pc[c] \notin {"announce", "farewell"}
  BY DEF Quiet
<1>2. \A c \in Conns : Serving(c) => Active(c)
  BY DEF PresenceInv, Stages, Stage, Serving, Active
<1>3. PresenceComplete
  BY <1>1, <1>2 DEF PresenceInv, Announced, PresenceComplete
<1>4. PresenceSound
  BY <1>1, <1>2 DEF PresenceInv, Dismissed, PresenceSound
<1> QED
  BY <1>3, <1>4 DEF PresenceExact

\* Whenever presence has settled, a member knows of the members being served
\* and of no one who has left: the peer-join and peer-leave broadcasts of
\* _register and of the handler's `finally` leave every client with the room
\* as it is, however they are suspended on slow and closing sockets.  For ids
\* that come back once their earlier handler has left the room, and while no
\* client relays: a relay that fails ends its handler while the socket is
\* still closing, and a peer-leave waiting there can be overtaken.
THEOREM PresenceSettles == ~Overlap /\ Senders = {} => (Spec => []PresenceExact)
<1> SUFFICES ASSUME ~Overlap, Senders = {} PROVE Spec => []PresenceExact
  OBVIOUS
<1>1. Init => PresenceInv
  BY InitPresence
<1>2. RegistryInv /\ RegistryInv' /\ PresenceInv /\ [Next]_vars => PresenceInv'
  BY NextKeepsPresence
<1>3. PresenceInv => PresenceExact
  BY PresenceInvExact
<1>4. Spec => []RegistryInv
  BY RegistryInvariant
<1> QED
  BY <1>1, <1>2, <1>3, <1>4, PTL DEF Spec
=============================================================================

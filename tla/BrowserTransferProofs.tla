----------------------- MODULE BrowserTransferProofs -----------------------
(***************************************************************************)
(* Transfers between any two nodes serve files as FileService promises,    *)
(* for any number of transfers, any sizes and any Window, although a page  *)
(* reads before it offers and hashes before it hands over.  It rests on    *)
(* a request being in one place at a time: on its way, being read, offered *)
(* or refused, each once, until the receiver has taken the offer.          *)
(***************************************************************************)
EXTENDS BrowserTransfer, FileTransferProofs

Types == {"get", "no-file", "file-offer", "file-accept", "file-done"}

Once(queue, t, x) ==
  \A j, k \in DOMAIN queue : queue[j] = Msg(t, x) /\ queue[k] = Msg(t, x) => j = k

Asking(x) == UnderWay(up, "get", x)
Refusing(x) == UnderWay(down, "no-file", x)
Offering(x) == UnderWay(down, "file-offer", x)

\* No message crosses a link that is not up, and none of these is sent twice.
Channels ==
  /\ link # "up" => up = <<>> /\ down = <<>>
  /\ \A x \in Xids : Once(up, "get", x) /\ Once(down, "no-file", x) /\ Once(down, "file-offer", x)

OnePlace ==
  \A x \in Xids :
    /\ Asking(x) => ~Refusing(x) /\ ~Offering(x) /\ x \notin reading
    /\ Refusing(x) => ~Offering(x) /\ x \notin reading
    /\ Offering(x) => x \notin reading

\* A request is open as long as it is anywhere, and content is complete when
\* it is being hashed.
Open ==
  \A x \in Xids :
    /\ Asking(x) \/ Refusing(x) \/ Offering(x) \/ x \in reading =>
         result[x] = "asked" /\ recv[x] = "none" /\ x \notin hashing
    /\ recv[x] # "none" => result[x] = "asked" /\ x \notin hashing
    /\ x \in hashing => result[x] = "asked" /\ got[x] = Size[x]

PageInv == TransferInv /\ PageTypeOK /\ Channels /\ OnePlace /\ Open

-----------------------------------------------------------------------------
(* Messages. *)

LEMMA SameMsg ==
  ASSUME NEW s, NEW t, NEW x, NEW y
  PROVE  Msg(s, x) = Msg(t, y) <=> s = t /\ x = y
<1>1. Msg(s, x) = Msg(t, y) => Msg(s, x).type = Msg(t, y).type /\ Msg(s, x).xid = Msg(t, y).xid
  OBVIOUS
<1> QED
  BY <1>1 DEF Msg

\* What a message sent changes.
LEMMA Sending ==
  ASSUME NEW q \in Seq(Message), NEW t \in Types, NEW x \in Xids
  PROVE  /\ Append(q, Msg(t, x)) \in Seq(Message)
         /\ \A s \in Types, y \in Xids :
              /\ UnderWay(Append(q, Msg(t, x)), s, y) <=> UnderWay(q, s, y) \/ (s = t /\ y = x)
              /\ Once(q, s, y) /\ ~(s = t /\ y = x /\ UnderWay(q, s, y)) => Once(Append(q, Msg(t, x)), s, y)
<1> DEFINE r == Append(q, Msg(t, x))
<1>1. r \in Seq(Message)
  BY AppendTyped DEF Types
<1>2. /\ DOMAIN q = 1..Len(q) /\ DOMAIN r = 1..Len(q) + 1 /\ Len(q) \in Nat
      /\ r[Len(q) + 1] = Msg(t, x) /\ \A k \in DOMAIN q : r[k] = q[k]
  <2> HIDE DEF Msg
  <2>1. Msg(t, x) \in Message
    BY DEF Msg, Message, Types
  <2> QED
    BY <2>1
<1>3. /\ \A k \in DOMAIN r : k \in DOMAIN q \/ k = Len(q) + 1
      /\ \A k \in DOMAIN q : k \in DOMAIN r
      /\ Len(q) + 1 \in DOMAIN r
  BY <1>2
<1> HIDE DEF r
<1>4. ASSUME NEW s \in Types, NEW y \in Xids
      PROVE  /\ UnderWay(r, s, y) <=> UnderWay(q, s, y) \/ (s = t /\ y = x)
             /\ Once(q, s, y) /\ ~(s = t /\ y = x /\ UnderWay(q, s, y)) => Once(r, s, y)
  <2>1. Msg(s, y) = Msg(t, x) <=> s = t /\ y = x
    BY SameMsg
  <2>2. UnderWay(r, s, y) <=> UnderWay(q, s, y) \/ (s = t /\ y = x)
    BY <1>2, <1>3, <2>1 DEF UnderWay
  <2>3. Once(q, s, y) /\ ~(s = t /\ y = x /\ UnderWay(q, s, y)) => Once(r, s, y)
    BY <1>2, <1>3, <2>1 DEF UnderWay, Once
  <2> QED
    BY <2>2, <2>3
<1> QED
  BY <1>1, <1>4 DEF r

\* What a message taken changes.
LEMMA TakingOne ==
  ASSUME NEW q \in Seq(Message), NEW t \in Types, NEW x \in Xids, Takes(q, t, x)
  PROVE  /\ Tail(q) \in Seq(Message) /\ UnderWay(q, t, x)
         /\ Once(q, t, x) => ~UnderWay(Tail(q), t, x)
         /\ \A s \in Types, y \in Xids :
              /\ UnderWay(Tail(q), s, y) => UnderWay(q, s, y)
              /\ ~(s = t /\ y = x) /\ UnderWay(q, s, y) => UnderWay(Tail(q), s, y)
              /\ Once(q, s, y) => Once(Tail(q), s, y)
<1> DEFINE r == Tail(q)
<1>1. /\ r \in Seq(Message) /\ DOMAIN q = 1..Len(q) /\ DOMAIN r = 1..Len(q) - 1 /\ Len(q) \in Nat \ {0}
      /\ q[1] = Msg(t, x) /\ \A k \in DOMAIN r : r[k] = q[k + 1]
  <2> HIDE DEF Msg
  <2> QED
    BY DEF Takes
<1>2. /\ 1 \in DOMAIN q
      /\ \A k \in DOMAIN r : k + 1 \in DOMAIN q /\ k + 1 # 1
      /\ \A k \in DOMAIN q : k = 1 \/ (k - 1 \in DOMAIN r /\ r[k - 1] = q[k])
      /\ \A j, k \in DOMAIN r : j + 1 = k + 1 => j = k
  BY <1>1
<1> HIDE DEF r
<1>3. UnderWay(q, t, x)
  BY <1>1, <1>2 DEF UnderWay
<1>4. Once(q, t, x) => ~UnderWay(r, t, x)
  BY <1>1, <1>2 DEF UnderWay, Once
<1>5. ASSUME NEW s \in Types, NEW y \in Xids
      PROVE  /\ UnderWay(r, s, y) => UnderWay(q, s, y)
             /\ ~(s = t /\ y = x) /\ UnderWay(q, s, y) => UnderWay(r, s, y)
             /\ Once(q, s, y) => Once(r, s, y)
  <2>1. Msg(s, y) = Msg(t, x) <=> s = t /\ y = x
    BY SameMsg
  <2>2. UnderWay(r, s, y) => UnderWay(q, s, y)
    BY <1>1, <1>2 DEF UnderWay
  <2>3. ~(s = t /\ y = x) /\ UnderWay(q, s, y) => UnderWay(r, s, y)
    BY <1>1, <1>2, <2>1 DEF UnderWay
  <2>4. Once(q, s, y) => Once(r, s, y)
    BY <1>1, <1>2 DEF Once
  <2> QED
    BY <2>2, <2>3, <2>4
<1> QED
  BY <1>1, <1>3, <1>4, <1>5 DEF r

LEMMA NothingUnderWay ==
  ASSUME NEW t, NEW x PROVE ~UnderWay(<<>>, t, x) /\ Once(<<>>, t, x)
BY DEF UnderWay, Once
-----------------------------------------------------------------------------
(* The invariant. *)

LEMMA PageInitial == PageInit => PageInv
<1> SUFFICES ASSUME PageInit PROVE PageInv
  OBVIOUS
<1>1. TransferInv
  <2>1. TypeOK
    BY DEF PageInit, Idle, TypeOK
  <2>2. CountersOrdered /\ DeliveredIntact
    BY FileAssumption DEF PageInit, Idle, CountersOrdered, DeliveredIntact
  <2> QED
    BY <2>1, <2>2 DEF TransferInv
<1>2. PageTypeOK
  BY <1>1 DEF PageInit, PageTypeOK, TransferInv
<1>3. Channels /\ OnePlace /\ Open
  BY NothingUnderWay DEF PageInit, Idle, Channels, OnePlace, Open, Asking, Refusing, Offering
<1> QED
  BY <1>1, <1>2, <1>3 DEF PageInv

\* What an open request is, from its place.
LEMMA LinkUp ==
  ASSUME PageInv
  PROVE  (up # <<>> \/ down # <<>> => link = "up") /\ up \in Seq(Message) /\ down \in Seq(Message)
BY DEF PageInv, Channels, TransferInv, TypeOK

\* The steps of the host that pages and Python nodes share.
LEMMA SharedKeeps ==
  ASSUME PageInv, NEW x \in Xids, Shared(x), Still, UNCHANGED pages
  PROVE  PageInv'
<1>1. TransferInv'
  BY HostKeepsInv DEF PageInv, Shared, HostSteps
<1>2. PageTypeOK'
  BY <1>1 DEF TransferInv, PageInv, PageTypeOK, Still, TypeOK
<1>3. up \in Seq(Message) /\ down \in Seq(Message) /\ (up # <<>> \/ down # <<>> => link = "up")
  BY LinkUp
<1>4. CASE UNCHANGED <<link, up, down, result, recv, got>>
  BY <1>1, <1>2, <1>4
  DEF PageInv, Channels, OnePlace, Open, Asking, Refusing, Offering, Still
<1>5. CASE OnAccept(x)
  <2>1. Takes(up, "file-accept", x) /\ up' = Tail(up) /\ UNCHANGED <<link, down, result, recv, got>>
    BY <1>5 DEF OnAccept, receiver
  <2>2. \A y \in Xids : /\ Asking(y)' <=> Asking(y)
                        /\ Once(up, "get", y) => Once(up', "get", y)
    BY <1>3, <2>1, TakingOne DEF Asking, Types
  <2>3. Channels'
    BY <1>3, <2>1, <2>2 DEF PageInv, Channels, Takes
  <2> QED
    BY <1>1, <1>2, <2>1, <2>2, <2>3 DEF PageInv, OnePlace, Open, Refusing, Offering, Still
<1>6. CASE down' = Append(down, Msg("file-done", x)) /\ link = "up" /\ UNCHANGED <<link, up, result, recv, got>>
  <2>1. \A y \in Xids : /\ Refusing(y)' <=> Refusing(y)
                        /\ Offering(y)' <=> Offering(y)
                        /\ Once(down, "no-file", y) => Once(down', "no-file", y)
                        /\ Once(down, "file-offer", y) => Once(down', "file-offer", y)
    BY <1>3, <1>6, Sending DEF Refusing, Offering, Types
  <2>2. Channels'
    BY <1>6, <2>1 DEF PageInv, Channels
  <2> QED
    BY <1>1, <1>2, <1>6, <2>1, <2>2 DEF PageInv, OnePlace, Open, Asking, Still
<1> QED
  BY <1>4, <1>5, <1>6 DEF Shared, OnOpen, Stream, StreamRaises, Flush, receiver

\* The steps of the receiver that they share.
LEMMA CommonKeeps ==
  ASSUME PageInv, NEW x \in Xids, Common(x), Still, UNCHANGED pages
  PROVE  PageInv'
<1>1. TransferInv'
  BY ReceiverKeepsInv DEF PageInv, Common, ReceiverSteps
<1>2. PageTypeOK'
  BY <1>1 DEF TransferInv, PageInv, PageTypeOK, Still, TypeOK
<1>3. up \in Seq(Message) /\ down \in Seq(Message) /\ (up # <<>> \/ down # <<>> => link = "up")
  BY LinkUp
<1>4. CASE OnChannel(x)
  BY <1>1, <1>2, <1>4
  DEF PageInv, Channels, OnePlace, Open, Asking, Refusing, Offering, Still, OnChannel, receiver
<1>5. CASE OnNoFile(x)
  <2>1. /\ Takes(down, "no-file", x) /\ down' = Tail(down) /\ UNCHANGED <<link, up, recv, got>>
        /\ result' = [result EXCEPT ![x] = "absent"]
    BY <1>5 DEF OnNoFile
  <2>2. /\ Refusing(x) /\ ~Refusing(x)'
        /\ \A y \in Xids : /\ Refusing(y)' => Refusing(y)
                           /\ Offering(y)' <=> Offering(y)
                           /\ Once(down', "no-file", y) /\ Once(down', "file-offer", y)
    BY <1>3, <2>1, TakingOne DEF Refusing, Offering, Types, PageInv, Channels
  <2>3. Channels'
    BY <1>3, <2>1, <2>2 DEF PageInv, Channels, Takes
  <2>4. OnePlace'
    BY <2>1, <2>2 DEF PageInv, OnePlace, Asking, Still
  <2>5. Open'
    BY <2>1, <2>2 DEF PageInv, OnePlace, Open, Asking, Still, TransferInv, TypeOK
  <2> QED
    BY <1>1, <1>2, <2>3, <2>4, <2>5 DEF PageInv
<1>6. CASE OnOffer(x)
  <2>1. /\ Takes(down, "file-offer", x) /\ down' = Tail(down) /\ up' = Append(up, Msg("file-accept", x))
        /\ recv' = [recv EXCEPT ![x] = "taking"] /\ got' = [got EXCEPT ![x] = 0]
        /\ UNCHANGED <<link, result>>
    BY <1>6 DEF OnOffer
  <2>2. /\ Offering(x) /\ ~Offering(x)'
        /\ \A y \in Xids : /\ Refusing(y)' <=> Refusing(y)
                           /\ Offering(y)' => Offering(y)
                           /\ Once(down', "no-file", y) /\ Once(down', "file-offer", y)
    BY <1>3, <2>1, TakingOne DEF Refusing, Offering, Types, PageInv, Channels
  <2>3. \A y \in Xids : (Asking(y)' <=> Asking(y)) /\ Once(up', "get", y)
    BY <1>3, <2>1, Sending DEF Asking, Types, PageInv, Channels
  <2>4. Channels'
    BY <1>3, <2>1, <2>2, <2>3 DEF PageInv, Channels, Takes
  <2>5. OnePlace'
    BY <2>1, <2>2, <2>3 DEF PageInv, OnePlace, Still
  <2>6. Open'
    BY <2>1, <2>2, <2>3 DEF PageInv, OnePlace, Open, Still, TransferInv, TypeOK
  <2> QED
    BY <1>1, <1>2, <2>4, <2>5, <2>6 DEF PageInv
<1> QED
  BY <1>4, <1>5, <1>6 DEF Common
\* The host's own steps, of a page and of a Python node.
LEMMA HostKeeps ==
  ASSUME PageInv, NEW x \in Xids, UNCHANGED pages,
         \/ PageOnGet(x) \/ ReadDone(x) \/ ReadFails(x) \/ PageShares(x) \/ PageSendFile(x)
         \/ (OnGet(x) \/ ShareChanges(x) \/ SendFile(x)) /\ Still
  PROVE  PageInv'
<1>1. up \in Seq(Message) /\ down \in Seq(Message) /\ (up # <<>> \/ down # <<>> => link = "up")
  BY LinkUp
<1>2. CASE (ShareChanges(x) /\ Still) \/ PageShares(x)
  <2>1. ShareChanges(x) /\ Still
    BY <1>2 DEF PageShares, Still
  <2>2. TransferInv'
    BY <2>1, HostKeepsInv DEF PageInv
  <2> QED
    BY <2>1, <2>2 DEF PageInv, PageTypeOK, TransferInv, TypeOK, Channels, OnePlace, Open, Asking, Refusing,
    Offering, Still, ShareChanges, receiver
<1>3. CASE (OnGet(x) /\ Still) \/ PageOnGet(x)
  <2>1. /\ Takes(up, "get", x) /\ up' = Tail(up)
        /\ UNCHANGED <<link, share, receiver, task, chan, sent, flushed, hashing>>
    BY <1>3 DEF OnGet, PageOnGet, Still, host
  <2>2. /\ Asking(x) /\ ~Asking(x)' /\ up' \in Seq(Message)
        /\ \A y \in Xids : /\ Asking(y)' => Asking(y)
                           /\ Once(up', "get", y)
    BY <1>1, <2>1, TakingOne DEF Asking, Types, PageInv, Channels
  <2>3. link = "up"
    BY <1>1, <2>1 DEF Takes
  <2>4. ~Refusing(x) /\ ~Offering(x) /\ x \notin reading /\ result[x] = "asked" /\ recv[x] = "none" /\ x \notin hashing
    BY <2>2 DEF PageInv, OnePlace, Open
  <2>5. CASE down' = Append(down, Msg("file-offer", x)) /\ held' = held \cup {x} /\ UNCHANGED reading
    <3>1. /\ down' \in Seq(Message) /\ Offering(x)'
          /\ \A y \in Xids : /\ Refusing(y)' <=> Refusing(y)
                             /\ Offering(y)' <=> Offering(y) \/ y = x
                             /\ Once(down', "no-file", y) /\ Once(down', "file-offer", y)
      BY <1>1, <2>4, <2>5, Sending DEF Refusing, Offering, Types, PageInv, Channels
    <3>2. TransferInv'
      BY <2>1, <2>2, <2>5, <3>1 DEF PageInv, TransferInv, TypeOK, CountersOrdered, DeliveredIntact, receiver
    <3>3. PageTypeOK' /\ Channels'
      BY <2>1, <2>2, <2>3, <2>5, <3>1, <3>2 DEF PageInv, PageTypeOK, TransferInv, TypeOK, Channels
    <3>4. OnePlace' /\ Open'
      BY <2>1, <2>2, <2>4, <2>5, <3>1 DEF PageInv, OnePlace, Open, receiver
    <3> QED
      BY <3>2, <3>3, <3>4 DEF PageInv
  <2>6. CASE down' = Append(down, Msg("no-file", x)) /\ UNCHANGED <<held, reading>>
    <3>1. /\ down' \in Seq(Message) /\ Refusing(x)'
          /\ \A y \in Xids : /\ Refusing(y)' <=> Refusing(y) \/ y = x
                             /\ Offering(y)' <=> Offering(y)
                             /\ Once(down', "no-file", y) /\ Once(down', "file-offer", y)
      BY <1>1, <2>4, <2>6, Sending DEF Refusing, Offering, Types, PageInv, Channels
    <3>2. TransferInv'
      BY <2>1, <2>2, <2>6, <3>1 DEF PageInv, TransferInv, TypeOK, CountersOrdered, DeliveredIntact, receiver
    <3>3. PageTypeOK' /\ Channels'
      BY <2>1, <2>2, <2>3, <2>6, <3>1, <3>2 DEF PageInv, PageTypeOK, TransferInv, TypeOK, Channels
    <3>4. OnePlace' /\ Open'
      BY <2>1, <2>2, <2>4, <2>6, <3>1 DEF PageInv, OnePlace, Open, receiver
    <3> QED
      BY <3>2, <3>3, <3>4 DEF PageInv
  <2>7. CASE reading' = reading \cup {x} /\ UNCHANGED <<down, held>>
    <3>1. \A y \in Xids : /\ Refusing(y)' <=> Refusing(y)
                          /\ Offering(y)' <=> Offering(y)
      BY <2>7 DEF Refusing, Offering
    <3>2. TransferInv'
      BY <2>1, <2>2, <2>7 DEF PageInv, TransferInv, TypeOK, CountersOrdered, DeliveredIntact, receiver
    <3>3. PageTypeOK' /\ Channels'
      BY <2>1, <2>2, <2>3, <2>7, <3>2 DEF PageInv, PageTypeOK, TransferInv, TypeOK, Channels
    <3>4. OnePlace' /\ Open'
      BY <2>1, <2>2, <2>4, <2>7, <3>1 DEF PageInv, OnePlace, Open, receiver
    <3> QED
      BY <3>2, <3>3, <3>4 DEF PageInv
  <2> QED
    BY <1>3, <2>5, <2>6, <2>7 DEF OnGet, PageOnGet, Offers, Still, host
<1>4. CASE (SendFile(x) /\ Still) \/ PageSendFile(x)
  <2>1. /\ result[x] = "unasked" /\ result' = [result EXCEPT ![x] = "asked"]
        /\ UNCHANGED <<link, share, up, recv, got, task, chan, sent, flushed, hashing>>
    BY <1>4 DEF SendFile, PageSendFile, Still, host
  <2>2. ~Asking(x) /\ ~Refusing(x) /\ ~Offering(x) /\ x \notin reading /\ recv[x] = "none" /\ x \notin hashing
    BY <2>1 DEF PageInv, Open
  <2>3. result'[x] = "asked" /\ \A y \in Xids : y # x => result'[y] = result[y]
    BY <2>1 DEF PageInv, TransferInv, TypeOK
  <2>4. CASE link = "up" /\ down' = Append(down, Msg("file-offer", x)) /\ held' = held \cup {x} /\ UNCHANGED reading
    <3>1. /\ down' \in Seq(Message) /\ Offering(x)'
          /\ \A y \in Xids : /\ Refusing(y)' <=> Refusing(y)
                             /\ Offering(y)' <=> Offering(y) \/ y = x
                             /\ Once(down', "no-file", y) /\ Once(down', "file-offer", y)
      BY <1>1, <2>2, <2>4, Sending DEF Refusing, Offering, Types, PageInv, Channels
    <3>2. TransferInv'
      BY <2>1, <2>4, <3>1 DEF PageInv, TransferInv, TypeOK, CountersOrdered, DeliveredIntact
    <3>3. PageTypeOK' /\ Channels'
      BY <2>1, <2>4, <3>1, <3>2 DEF PageInv, PageTypeOK, TransferInv, TypeOK, Channels
    <3>4. OnePlace' /\ Open'
      BY <2>1, <2>2, <2>3, <2>4, <3>1 DEF PageInv, OnePlace, Open, Asking
    <3> QED
      BY <3>2, <3>3, <3>4 DEF PageInv
  <2>5. CASE reading' = reading \cup {x} /\ UNCHANGED <<down, held>>
    <3>1. TransferInv'
      BY <2>1, <2>5 DEF PageInv, TransferInv, TypeOK, CountersOrdered, DeliveredIntact
    <3>2. PageTypeOK' /\ Channels'
      BY <2>1, <2>5, <3>1 DEF PageInv, PageTypeOK, TransferInv, TypeOK, Channels
    <3>3. OnePlace' /\ Open'
      BY <2>1, <2>2, <2>3, <2>5 DEF PageInv, OnePlace, Open, Asking, Refusing, Offering
    <3> QED
      BY <3>1, <3>2, <3>3 DEF PageInv
  <2> QED
    BY <1>4, <2>4, <2>5 DEF SendFile, PageSendFile, Offers, Still, host
<1>5. CASE ReadDone(x) \/ ReadFails(x)
  <2>1. /\ x \in reading /\ reading' = reading \ {x} /\ held' \subseteq Xids
        /\ UNCHANGED <<link, share, up, receiver, task, chan, sent, flushed, hashing>>
    BY <1>5 DEF ReadDone, ReadFails, vars, receiver, PageInv, TransferInv, TypeOK
  <2>2. ~Asking(x) /\ ~Refusing(x) /\ ~Offering(x) /\ result[x] = "asked" /\ recv[x] = "none" /\ x \notin hashing
    BY <2>1 DEF PageInv, OnePlace, Open
  <2>3. CASE link = "up" /\ down' = Append(down, Msg("file-offer", x))
    <3>1. /\ down' \in Seq(Message) /\ Offering(x)'
          /\ \A y \in Xids : /\ Refusing(y)' <=> Refusing(y)
                             /\ Offering(y)' <=> Offering(y) \/ y = x
                             /\ Once(down', "no-file", y) /\ Once(down', "file-offer", y)
      BY <1>1, <2>2, <2>3, Sending DEF Refusing, Offering, Types, PageInv, Channels
    <3>2. TransferInv'
      BY <2>1, <2>3, <3>1 DEF PageInv, TransferInv, TypeOK, CountersOrdered, DeliveredIntact, receiver
    <3>3. PageTypeOK' /\ Channels'
      BY <2>1, <2>3, <3>1, <3>2 DEF PageInv, PageTypeOK, TransferInv, TypeOK, Channels
    <3>4. OnePlace' /\ Open'
      BY <2>1, <2>2, <2>3, <3>1 DEF PageInv, OnePlace, Open, Asking, receiver
    <3> QED
      BY <3>2, <3>3, <3>4 DEF PageInv
  <2>4. CASE UNCHANGED down
    <3>1. TransferInv'
      BY <2>1, <2>4 DEF PageInv, TransferInv, TypeOK, CountersOrdered, DeliveredIntact, receiver
    <3>2. PageTypeOK' /\ Channels'
      BY <2>1, <2>4, <3>1 DEF PageInv, PageTypeOK, TransferInv, TypeOK, Channels
    <3>3. OnePlace' /\ Open'
      BY <2>1, <2>2, <2>4 DEF PageInv, OnePlace, Open, Asking, Refusing, Offering, receiver
    <3> QED
      BY <3>1, <3>2, <3>3 DEF PageInv
  <2> QED
    BY <1>5, <2>3, <2>4 DEF ReadDone, ReadFails, vars
<1> QED
  BY <1>2, <1>3, <1>4, <1>5
\* The receiver's own steps, of a page and of a Python node.  The first two
\* lemmas are of the end of a transfer: there is no other content than that of
\* the open request.
LEMMA Finished ==
  ASSUME PageInv, NEW x \in Xids, NEW st \in {"taking", "done"}, recv[x] # "none",
         NEW n \in Nat, n <= Size[x], got' = [got EXCEPT ![x] = n],
         UNCHANGED <<link, up, reading, hashing>>,
         \A y \in Xids : (Refusing(y)' <=> Refusing(y)) /\ (Offering(y)' <=> Offering(y)),
         MaybeFinish(st, n, x)
  PROVE  OnePlace' /\ Open'
<1>1. ~Asking(x) /\ ~Refusing(x) /\ ~Offering(x) /\ x \notin reading /\ x \notin hashing /\ result[x] = "asked"
  BY DEF PageInv, Open
<1>2. \A y \in Xids \ {x} : recv'[y] = recv[y] /\ result'[y] = result[y] /\ got'[y] = got[y]
  BY DEF MaybeFinish, PageInv, TransferInv, TypeOK
<1>3. recv'[x] # "none" => result'[x] = "asked"
  BY <1>1 DEF MaybeFinish, PageInv, TransferInv, TypeOK
<1>4. OnePlace'
  BY DEF PageInv, OnePlace, Asking
<1>5. Open'
  BY <1>1, <1>2, <1>3 DEF PageInv, Open, Asking
<1> QED
  BY <1>4, <1>5

LEMMA PageFinished ==
  ASSUME PageInv, NEW x \in Xids, NEW st \in {"taking", "done"}, recv[x] # "none",
         NEW n \in Nat, n <= Size[x], got' = [got EXCEPT ![x] = n],
         UNCHANGED <<link, up, reading, result>>,
         \A y \in Xids : (Refusing(y)' <=> Refusing(y)) /\ (Offering(y)' <=> Offering(y)),
         PageFinish(st, n, x)
  PROVE  /\ OnePlace' /\ Open' /\ hashing' \subseteq Xids
         /\ recv' \in [Xids -> {"none", "taking", "done"}]
<1>1. ~Asking(x) /\ ~Refusing(x) /\ ~Offering(x) /\ x \notin reading /\ result[x] = "asked"
  BY DEF PageInv, Open
<1>2. /\ recv' \in [Xids -> {"none", "taking", "done"}] /\ hashing' \subseteq Xids
      /\ \A y \in Xids \ {x} : /\ recv'[y] = recv[y] /\ got'[y] = got[y]
                               /\ y \in hashing' <=> y \in hashing
  BY DEF PageFinish, PageInv, TransferInv, TypeOK, PageTypeOK
<1>3. x \notin hashing /\ got'[x] = n
  BY DEF PageInv, Open, TransferInv, TypeOK
<1>4. x \in hashing' => recv'[x] = "none" /\ got'[x] = Size[x]
  <2>1. x \in hashing' => Complete(st, n, x)
    BY <1>3 DEF PageFinish
  <2>2. Complete(st, n, x) => n = Size[x]
    BY FileAssumption DEF Complete
  <2>3. Complete(st, n, x) => recv'[x] = "none"
    BY DEF PageFinish, PageInv, TransferInv, TypeOK
  <2> QED
    BY <1>3, <2>1, <2>2, <2>3
<1>5. OnePlace'
  BY DEF PageInv, OnePlace, Asking
<1>6. Open'
  BY <1>1, <1>2, <1>4 DEF PageInv, Open, Asking
<1> QED
  BY <1>2, <1>5, <1>6

LEMMA ReceiverKeeps ==
  ASSUME PageInv, NEW x \in Xids, UNCHANGED pages,
         \/ PageOnDone(x) \/ PageOnData(x) \/ Hashed(x)
         \/ (OnDone(x) \/ OnData(x) \/ RequestGet(x)) /\ Still
  PROVE  PageInv'
<1>1. up \in Seq(Message) /\ down \in Seq(Message) /\ (up # <<>> \/ down # <<>> => link = "up")
  BY LinkUp
<1>2. CASE RequestGet(x) /\ Still
  <2>1. /\ link = "up" /\ result[x] = "unasked" /\ result' = [result EXCEPT ![x] = "asked"]
        /\ up' = Append(up, Msg("get", x))
        /\ UNCHANGED <<link, share, down, recv, got, reading, hashing>>
    BY <1>2 DEF RequestGet, Still
  <2>2. ~Asking(x) /\ ~Refusing(x) /\ ~Offering(x) /\ x \notin reading /\ recv[x] = "none" /\ x \notin hashing
    BY <2>1 DEF PageInv, Open
  <2>3. \A y \in Xids : (Asking(y)' <=> Asking(y) \/ y = x) /\ Once(up', "get", y)
    BY <1>1, <2>1, <2>2, Sending DEF Asking, Types, PageInv, Channels
  <2>4. result'[x] = "asked" /\ \A y \in Xids : y # x => result'[y] = result[y]
    BY <2>1 DEF PageInv, TransferInv, TypeOK
  <2>5. TransferInv'
    BY <1>2, ReceiverKeepsInv DEF PageInv
  <2>6. PageTypeOK' /\ Channels'
    BY <2>1, <2>3, <2>5 DEF PageInv, PageTypeOK, TransferInv, TypeOK, Channels
  <2>7. OnePlace' /\ Open'
    BY <2>1, <2>2, <2>3, <2>4 DEF PageInv, OnePlace, Open, Refusing, Offering
  <2> QED
    BY <2>5, <2>6, <2>7 DEF PageInv
<1>3. ASSUME \/ Takes(down, "file-done", x) /\ down' = Tail(down)
             \/ UNCHANGED down
      PROVE  \A y \in Xids : /\ Refusing(y)' <=> Refusing(y)
                             /\ Offering(y)' <=> Offering(y)
                             /\ Once(down', "no-file", y) /\ Once(down', "file-offer", y)
  <2>1. CASE Takes(down, "file-done", x) /\ down' = Tail(down)
    BY <1>1, <2>1, TakingOne DEF Refusing, Offering, Types, PageInv, Channels
  <2>2. CASE UNCHANGED down
    BY <2>2 DEF Refusing, Offering, PageInv, Channels
  <2> QED
    BY <1>3, <2>1, <2>2
<1>4. CASE OnDone(x) /\ Still
  <2>1. /\ Takes(down, "file-done", x) /\ down' = Tail(down) /\ got' = [got EXCEPT ![x] = got[x]]
        /\ UNCHANGED <<link, share, up, got, reading, hashing>>
    BY <1>4 DEF OnDone, Still, PageInv, TransferInv, TypeOK
  <2>2. TransferInv'
    BY <1>4, ReceiverKeepsInv DEF PageInv, ReceiverSteps
  <2>3. PageTypeOK' /\ Channels'
    BY <1>1, <1>3, <2>1, <2>2 DEF PageInv, PageTypeOK, TransferInv, TypeOK, Channels, Takes
  <2>4. got[x] \in Nat /\ got[x] <= Size[x]
    BY FileAssumption DEF PageInv, TransferInv, TypeOK, CountersOrdered
  <2>5. OnePlace' /\ Open'
    <3>1. CASE recv[x] = "none"
      <4>1. UNCHANGED <<recv, result>>
        BY <1>4, <3>1 DEF OnDone
      <4> QED
        BY <1>3, <2>1, <4>1 DEF PageInv, OnePlace, Open, Asking
    <3>2. CASE recv[x] # "none"
      <4>1. MaybeFinish("done", got[x], x)
        BY <1>4, <3>2 DEF OnDone
      <4> QED
        BY <1>3, <2>1, <2>4, <3>2, <4>1, Finished
    <3> QED
      BY <3>1, <3>2
  <2> QED
    BY <2>2, <2>3, <2>5 DEF PageInv
<1>5. CASE PageOnDone(x)
  <2>1. /\ Takes(down, "file-done", x) /\ down' = Tail(down) /\ got' = [got EXCEPT ![x] = got[x]]
        /\ UNCHANGED <<link, share, up, got, result, host, reading>>
    BY <1>5 DEF PageOnDone, PageInv, TransferInv, TypeOK
  <2>2. got[x] \in Nat /\ got[x] <= Size[x] /\ down' \in Seq(Message)
    <3>1. got[x] \in Nat /\ got[x] <= Size[x]
      BY FileAssumption DEF PageInv, TransferInv, TypeOK, CountersOrdered
    <3>2. down' \in Seq(Message)
      BY <1>1, <2>1, TakingOne DEF Types
    <3> QED
      BY <3>1, <3>2
  <2>3. OnePlace' /\ Open' /\ hashing' \subseteq Xids /\ recv' \in [Xids -> {"none", "taking", "done"}]
    <3>1. CASE recv[x] = "none"
      <4>1. UNCHANGED <<recv, hashing>>
        BY <1>5, <3>1 DEF PageOnDone
      <4> QED
        BY <1>3, <2>1, <4>1 DEF PageInv, OnePlace, Open, Asking, PageTypeOK, TransferInv, TypeOK
    <3>2. CASE recv[x] # "none"
      <4>1. PageFinish("done", got[x], x)
        BY <1>5, <3>2 DEF PageOnDone
      <4> QED
        BY <1>3, <2>1, <2>2, <3>2, <4>1, PageFinished
    <3> QED
      BY <3>1, <3>2
  <2>4. TransferInv'
    BY <2>1, <2>2, <2>3 DEF PageInv, TransferInv, TypeOK, CountersOrdered, DeliveredIntact, host
  <2>5. PageTypeOK' /\ Channels'
    BY <1>1, <1>3, <2>1, <2>3, <2>4 DEF PageInv, PageTypeOK, TransferInv, TypeOK, Channels, Takes
  <2> QED
    BY <2>3, <2>4, <2>5 DEF PageInv
<1>6. CASE (OnData(x) /\ Still) \/ PageOnData(x)
  <2>1. /\ link = "up" /\ got[x] < flushed[x] /\ recv[x] # "none" /\ got' = [got EXCEPT ![x] = got[x] + 1]
        /\ UNCHANGED <<link, share, up, down, host, reading>>
    BY <1>6 DEF OnData, PageOnData, Still
  <2>2. /\ recv[x] \in {"taking", "done"} /\ got[x] + 1 \in Nat
        /\ got[x] + 1 <= Size[x] /\ got[x] + 1 <= flushed[x]
    <3>1. recv[x] \in {"taking", "done"}
      BY <2>1 DEF PageInv, TransferInv, TypeOK
    <3>2. /\ got[x] \in Nat /\ flushed[x] \in Nat /\ sent[x] \in Nat /\ Size[x] \in Nat
          /\ flushed[x] <= sent[x] /\ sent[x] <= Size[x]
      BY FileAssumption DEF PageInv, TransferInv, TypeOK, CountersOrdered
    <3> QED
      BY <2>1, <3>1, <3>2
  <2>3. \A y \in Xids : (Refusing(y)' <=> Refusing(y)) /\ (Offering(y)' <=> Offering(y))
    BY <1>3, <2>1
  <2>4. CASE OnData(x) /\ Still
    <3>1. MaybeFinish(recv[x], got[x] + 1, x) /\ UNCHANGED hashing
      BY <2>4 DEF OnData, Still
    <3>2. OnePlace' /\ Open'
      BY <2>1, <2>2, <2>3, <3>1, Finished
    <3>3. TransferInv'
      BY <2>4, ReceiverKeepsInv DEF PageInv, ReceiverSteps
    <3>4. PageTypeOK' /\ Channels'
      BY <2>1, <3>1, <3>3 DEF PageInv, PageTypeOK, TransferInv, TypeOK, Channels
    <3> QED
      BY <3>2, <3>3, <3>4 DEF PageInv
  <2>5. CASE PageOnData(x)
    <3>1. PageFinish(recv[x], got[x] + 1, x) /\ UNCHANGED result
      BY <2>5 DEF PageOnData
    <3>2. OnePlace' /\ Open' /\ hashing' \subseteq Xids /\ recv' \in [Xids -> {"none", "taking", "done"}]
      BY <2>1, <2>2, <2>3, <3>1, PageFinished
    <3>3. TransferInv'
      BY <2>1, <2>2, <3>1, <3>2 DEF PageInv, TransferInv, TypeOK, CountersOrdered, DeliveredIntact, host
    <3>4. PageTypeOK' /\ Channels'
      BY <2>1, <3>2, <3>3 DEF PageInv, PageTypeOK, TransferInv, TypeOK, Channels
    <3> QED
      BY <3>2, <3>3, <3>4 DEF PageInv
  <2> QED
    BY <1>6, <2>4, <2>5
<1>7. CASE Hashed(x)
  <2>1. /\ x \in hashing /\ hashing' = hashing \ {x} /\ got[x] = Size[x]
        /\ UNCHANGED <<link, share, up, down, recv, got, host, reading>>
        /\ result' = [result EXCEPT ![x] = "ok"]
    BY <1>7 DEF Hashed, PageInv, Open
  <2>2. ~Asking(x) /\ ~Refusing(x) /\ ~Offering(x) /\ x \notin reading /\ recv[x] = "none"
    BY <2>1 DEF PageInv, Open
  <2>3. result' \in [Xids -> {"unasked", "asked", "absent", "ok", "bad"}] /\ DeliveredIntact'
        /\ \A y \in Xids \ {x} : result'[y] = result[y]
    BY <2>1 DEF PageInv, TransferInv, TypeOK, DeliveredIntact
  <2>4. TransferInv'
    BY <2>1, <2>3 DEF PageInv, TransferInv, TypeOK, CountersOrdered, host
  <2>5. PageTypeOK' /\ Channels'
    BY <2>1, <2>4 DEF PageInv, PageTypeOK, TransferInv, TypeOK, Channels
  <2>6. OnePlace' /\ Open'
    BY <2>1, <2>2, <2>3 DEF PageInv, OnePlace, Open, Asking, Refusing, Offering
  <2> QED
    BY <2>4, <2>5, <2>6 DEF PageInv
<1> QED
  BY <1>2, <1>4, <1>5, <1>6, <1>7
\* Every step of either end keeps it, and the link opening or being lost.
LEMMA PageStep == PageInv /\ [PageNext]_bvars => PageInv'
<1> SUFFICES ASSUME PageInv, [PageNext]_bvars PROVE PageInv'
  OBVIOUS
<1>1. CASE UNCHANGED bvars
  BY <1>1 DEF bvars, vars, PageInv, TransferInv, TypeOK, CountersOrdered, DeliveredIntact, PageTypeOK,
  Channels, OnePlace, Open, Asking, Refusing, Offering
<1>2. CASE LinkOpens
  BY <1>2 DEF LinkOpens, PageInv, TransferInv, TypeOK, CountersOrdered, DeliveredIntact, PageTypeOK,
  Channels, OnePlace, Open, Asking, Refusing, Offering, receiver, host
<1>3. CASE Cut /\ UNCHANGED <<pages, reading, hashing>>
  <2>1. TransferInv'
    BY <1>3, TransferStep DEF PageInv, Next
  <2>2. up' = <<>> /\ down' = <<>> /\ link' = "cut" /\ UNCHANGED <<receiver, host, pages, reading, hashing>>
    BY <1>3 DEF Cut
  <2>3. PageTypeOK'
    BY <2>1, <2>2 DEF PageInv, PageTypeOK, TransferInv, TypeOK
  <2>4. \A y \in Xids : /\ ~Asking(y)' /\ ~Refusing(y)' /\ ~Offering(y)'
                        /\ Once(up', "get", y) /\ Once(down', "no-file", y) /\ Once(down', "file-offer", y)
    BY <2>2, NothingUnderWay DEF Asking, Refusing, Offering
  <2>5. Channels' /\ OnePlace' /\ Open'
    BY <2>2, <2>4 DEF PageInv, Channels, OnePlace, Open, receiver
  <2> QED
    BY <2>1, <2>3, <2>5 DEF PageInv
<1>4. ASSUME NEW x \in Xids, UserSteps(x) PROVE PageInv'
  BY <1>4, HostKeeps, ReceiverKeeps DEF UserSteps
<1>5. ASSUME NEW x \in Xids, HostEnd(x) PROVE PageInv'
  BY <1>5, SharedKeeps, HostKeeps DEF HostEnd
<1>6. ASSUME NEW x \in Xids, ReceiverEnd(x) PROVE PageInv'
  BY <1>6, CommonKeeps, ReceiverKeeps DEF ReceiverEnd
<1> QED
  BY <1>1, <1>2, <1>3, <1>4, <1>5, <1>6 DEF PageNext

\* In every reachable state a request is in one place, and the counters are in
\* order, whichever ends are pages.
THEOREM PagesInvariant == PageSpec => []PageInv
BY PageInitial, PageStep, PTL DEF PageSpec

\* No user of a page or of a Python node is handed a file that is not whole.
THEOREM PageFilesIntact == PageSpec => []DeliveredIntact
<1>1. PageInv => DeliveredIntact
  BY DEF PageInv, TransferInv
<1> QED
  BY <1>1, PagesInvariant, PTL

\* Nor does the send buffer of a host, page or not, exceed Window by more than a
\* chunk.
THEOREM PageBufferBounded == PageSpec => []BufferBounded
<1>1. PageInv => BufferBounded
  <2> SUFFICES ASSUME PageInv, NEW x \in Xids PROVE Buffered(x) <= Window + 1
    BY DEF BufferBounded
  <2>1. sent[x] \in Nat /\ flushed[x] \in Nat /\ sent[x] <= flushed[x] + Window + 1
    BY DEF PageInv, TransferInv, TypeOK, CountersOrdered
  <2> QED
    BY <2>1, FileAssumption DEF Buffered
<1> QED
  BY <1>1, PagesInvariant, PTL

-----------------------------------------------------------------------------
(* What the host keeps, if no file is sent before the channel is open. *)

Accepting(x) == UnderWay(up, "file-accept", x)
Waiting(x) == Offering(x) \/ Accepting(x)

Held ==
  /\ link = "up" => \A x \in held : Waiting(x)
  /\ link = "opening" => reading = {} /\ held = {}

LEMMA HeldKeeps ==
  ASSUME Held, UNCHANGED link,
         link = "opening" => reading' \subseteq reading /\ held' \subseteq held,
         link = "up" => \A y \in held' : Waiting(y)' \/ (y \in held /\ ~Waiting(y))
  PROVE  Held'
BY DEF Held

LEMMA HostHolds ==
  ASSUME PageInv, PageInv', Held, ~Early, NEW x \in Xids, HostEnd(x) \/ UserSteps(x)
  PROVE  Held'
<1>1. up \in Seq(Message) /\ down \in Seq(Message) /\ (up # <<>> \/ down # <<>> => link = "up")
      /\ held \subseteq Xids
  BY LinkUp DEF PageInv, TransferInv, TypeOK
<1>2. CASE UNCHANGED <<link, up, down, held>> /\ (link = "up" \/ reading' \subseteq reading)
  BY <1>2, HeldKeeps DEF Held, Waiting, Offering, Accepting
<1>3. CASE link = "up" /\ UNCHANGED <<link, down, held>> /\ up' = Append(up, Msg("get", x))
  <2>1. \A y \in Xids : Accepting(y)' <=> Accepting(y)
    BY <1>1, <1>3, Sending DEF Accepting, Types
  <2> QED
    BY <1>1, <1>3, <2>1, HeldKeeps DEF Held, Waiting, Offering
<1>4. CASE Takes(up, "get", x) /\ up' = Tail(up) /\ UNCHANGED link /\ UNCHANGED <<down, held>>
  <2>1. \A y \in Xids : Accepting(y)' <=> Accepting(y)
    BY <1>1, <1>4, TakingOne DEF Accepting, Types
  <2> QED
    BY <1>1, <1>4, <2>1, HeldKeeps DEF Held, Waiting, Offering, Takes
<1>5. ASSUME NEW t \in Types, UNCHANGED link, link = "up", down' = Append(down, Msg(t, x)),
             \/ Takes(up, "get", x) /\ up' = Tail(up)
             \/ UNCHANGED up,
             held' = held \/ (t = "file-offer" /\ held' = held \cup {x})
      PROVE  Held'
  <2>1. \A y \in Xids : Accepting(y)' <=> Accepting(y)
    <3>1. CASE Takes(up, "get", x) /\ up' = Tail(up)
      BY <1>1, <3>1, TakingOne DEF Accepting, Types
    <3>2. CASE UNCHANGED up
      BY <3>2 DEF Accepting
    <3> QED
      BY <1>5, <3>1, <3>2
  <2>2. \A y \in Xids : Offering(y)' <=> Offering(y) \/ (t = "file-offer" /\ y = x)
    BY <1>1, <1>5, Sending DEF Offering, Types
  <2> QED
    BY <1>1, <1>5, <2>1, <2>2, HeldKeeps DEF Held, Waiting
<1>6. CASE OnAccept(x)
  <2>1. Takes(up, "file-accept", x) /\ up' = Tail(up) /\ held' = held \ {x} /\ UNCHANGED <<link, down>>
    BY <1>6 DEF OnAccept
  <2>2. \A y \in Xids : y # x => (Accepting(y)' <=> Accepting(y))
    BY <1>1, <2>1, TakingOne DEF Accepting, Types
  <2> QED
    BY <1>1, <2>1, <2>2, HeldKeeps DEF Held, Waiting, Offering, Takes
<1>7. CASE ReadDone(x)
  <2>1. CASE link = "up"
    BY <1>5, <1>7, <2>1 DEF ReadDone, Types
  <2>2. CASE link = "opening"
    BY <1>7, <2>2 DEF ReadDone, Held
  <2>3. CASE link = "cut"
    BY <1>7, <2>3 DEF ReadDone, Held
  <2> QED
    BY <2>1, <2>2, <2>3 DEF PageInv, TransferInv, TypeOK
<1>8. CASE (OnGet(x) /\ Still) \/ PageOnGet(x)
  <2>1. Takes(up, "get", x) /\ up' = Tail(up) /\ UNCHANGED link /\ link = "up"
    BY <1>1, <1>8 DEF OnGet, PageOnGet, Takes
  <2> QED
    BY <1>4, <1>5, <1>8, <2>1 DEF OnGet, PageOnGet, Offers, Types, host
<1>9. CASE SendFile(x)
  BY <1>5, <1>9 DEF SendFile, Offers, Types
<1>10. CASE Stream(x)
  <2>1. CASE Reach(x) = Size[x]
    BY <1>5, <1>10, <2>1 DEF Stream, Types
  <2>2. CASE Reach(x) # Size[x]
    BY <1>2, <1>10, <2>2 DEF Stream
  <2> QED
    BY <2>1, <2>2
<1>11. CASE RequestGet(x)
  BY <1>3, <1>11 DEF RequestGet, host
<1>12. CASE PageSendFile(x)
  BY <1>2, <1>12 DEF PageSendFile, host
<1>13. CASE (OnOpen(x) \/ StreamRaises(x) \/ Flush(x)) /\ Still
  BY <1>2, <1>13 DEF OnOpen, StreamRaises, Flush, Still
<1>14. CASE (ShareChanges(x) /\ Still) \/ PageShares(x) \/ ReadFails(x)
  BY <1>2, <1>14 DEF ShareChanges, PageShares, ReadFails, Still, host, vars
<1> QED
  BY <1>6, <1>7, <1>8, <1>9, <1>10, <1>11, <1>12, <1>13, <1>14 DEF HostEnd, UserSteps, Shared

LEMMA ReceiverHolds ==
  ASSUME PageInv, PageInv', Held, NEW x \in Xids, ReceiverEnd(x)
  PROVE  Held'
<1>1. up \in Seq(Message) /\ down \in Seq(Message) /\ (up # <<>> \/ down # <<>> => link = "up")
      /\ held \subseteq Xids
  BY LinkUp DEF PageInv, TransferInv, TypeOK
<1>2. CASE UNCHANGED <<link, up, down, held, reading>>
  BY <1>2 DEF Held, Waiting, Offering, Accepting
<1>3. ASSUME NEW t \in {"no-file", "file-done"}, Takes(down, t, x), down' = Tail(down),
             UNCHANGED <<link, up, held, reading>>
      PROVE  Held'
  <2>1. \A y \in Xids : Offering(y)' <=> Offering(y)
    BY <1>1, <1>3, TakingOne DEF Offering, Types
  <2> QED
    BY <1>1, <1>3, <2>1 DEF Held, Waiting, Accepting
<1>4. CASE OnOffer(x) /\ Still
  <2>1. /\ Takes(down, "file-offer", x) /\ down' = Tail(down) /\ up' = Append(up, Msg("file-accept", x))
        /\ UNCHANGED <<link, held, reading>>
    BY <1>4 DEF OnOffer, host, Still
  <2>2. \A y \in Xids : y # x => (Offering(y)' <=> Offering(y))
    BY <1>1, <2>1, TakingOne DEF Offering, Types
  <2>3. \A y \in Xids : Accepting(y)' <=> Accepting(y) \/ y = x
    BY <1>1, <2>1, Sending DEF Accepting, Types
  <2> QED
    BY <1>1, <2>1, <2>2, <2>3 DEF Held, Waiting
<1>5. CASE (OnNoFile(x) \/ OnDone(x)) /\ Still
  BY <1>3, <1>5 DEF OnNoFile, OnDone, host, Still
<1>6. CASE PageOnDone(x)
  BY <1>3, <1>6 DEF PageOnDone, host
<1>7. CASE (OnChannel(x) \/ OnData(x)) /\ Still
  BY <1>2, <1>7 DEF OnChannel, OnData, host, Still
<1>8. CASE PageOnData(x) \/ Hashed(x)
  BY <1>2, <1>8 DEF PageOnData, Hashed, host
<1> QED
  BY <1>4, <1>5, <1>6, <1>7, <1>8 DEF ReceiverEnd, Common

LEMMA HeldStep == ~Early /\ PageInv /\ PageInv' /\ Held /\ [PageNext]_bvars => Held'
<1> SUFFICES ASSUME ~Early, PageInv, PageInv', Held, [PageNext]_bvars PROVE Held'
  OBVIOUS
<1>1. CASE UNCHANGED bvars
  BY <1>1 DEF bvars, vars, Held, Waiting, Offering, Accepting
<1>2. CASE LinkOpens
  BY <1>2 DEF LinkOpens, Held, host
<1>3. CASE Cut
  BY <1>3 DEF Cut, Held
<1> QED
  BY <1>1, <1>2, <1>3, HostHolds, ReceiverHolds DEF PageNext

\* A host keeps content only for an offer or an accept under way while the link
\* lasts, so serving files does not fill its memory, although a page reads whole
\* files in the background, if its user sends none before the channel is open.
\* (The content of a file that is sent earlier is kept for good.)
THEOREM PageHoldsOffers == ~Early => (PageSpec => []PageHolds)
<1> SUFFICES ASSUME ~Early PROVE PageSpec => []PageHolds
  OBVIOUS
<1>1. PageInit => Held
  BY DEF PageInit, Idle, Held
<1>2. PageInv /\ PageInv' /\ Held /\ [PageNext]_bvars => Held'
  BY HeldStep
<1>3. PageInv /\ Held => PageHolds
  BY DEF PageInv, Held, PageHolds, HeldForAnOffer, Waiting, Offering, Accepting
<1> QED
  BY <1>1, <1>2, <1>3, PagesInvariant, PTL DEF PageSpec
-----------------------------------------------------------------------------
(* What a transfer is to FileService, and how each step looks there. *)

Seen(x) ==
  IF x \in hashing THEN "yes"
  ELSE IF result[x] # "asked" THEN result[x]
  ELSE IF link = "cut" THEN "lost"
  ELSE IF Asking(x) THEN "asked"
  ELSE IF Refusing(x) THEN "no" ELSE "yes"

View == [x \in Xids |-> IF x \in hashing THEN "yes" ELSE Status[x]]

LEMMA ViewIsSeen == View = [x \in Xids |-> Seen(x)]
<1> SUFFICES ASSUME NEW x \in Xids
             PROVE  (IF x \in hashing THEN "yes" ELSE Status[x]) = Seen(x)
  BY DEF View
<1> QED
  BY DEF Status, Seen, Asking, Refusing

\* A step that is one of FileService's, or none, where x is concerned.
SeenStep(x) ==
  \/ Seen(x)' = Seen(x)
  \/ /\ UNCHANGED share
     /\ \/ Seen(x) = "unasked" /\ Seen(x)' \in {"asked", "yes"}
        \/ Seen(x) = "asked" /\ Seen(x)' = IF x \in share THEN "yes" ELSE "no"
        \/ Seen(x) = "yes" /\ Seen(x)' = "ok"
        \/ Seen(x) = "no" /\ Seen(x)' = "absent"

LEMMA OneSeen ==
  ASSUME NEW x \in Xids, SeenStep(x), share' \subseteq Xids, UNCHANGED share \/ Seen(x)' = Seen(x),
         NEW s, s = Seen(x)',
         \A y \in Xids \ {x} : Seen(y)' = Seen(y)
  PROVE  [PageService!Next]_(PageService!service)
<1>1. View' = [View EXCEPT ![x] = s]
  <2>1. View' = [y \in Xids |-> Seen(y)']
    <3> SUFFICES ASSUME NEW y \in Xids
                 PROVE  (IF y \in hashing THEN "yes" ELSE Status[y])' = Seen(y)'
      BY DEF View
    <3> QED
      BY DEF Status, Seen, Asking, Refusing
  <2> QED
    BY <2>1, ViewIsSeen
<1>2. View[x] = Seen(x)
  BY ViewIsSeen
<1>4. CASE s = Seen(x)
  <2>1. View' = View
    BY <1>1, <1>2, <1>4, ViewIsSeen
  <2> QED
    BY <2>1 DEF PageService!Next, PageService!ShareChanges, View
<1>5. CASE s # Seen(x)
  <2>1. UNCHANGED share
    BY <1>5
  <2>2. PageService!Becomes(x, s)
    BY <1>1, <2>1 DEF PageService!Becomes, View
  <2>3. Seen(x) = [y \in Xids |-> IF y \in hashing THEN "yes" ELSE Status[y]][x]
    BY <1>2 DEF View
  <2>4. /\ Seen(x) = "unasked" /\ s = "asked" => PageService!Ask(x)
        /\ Seen(x) = "unasked" /\ s = "yes" => PageService!Push(x)
    BY <2>2, <2>3 DEF PageService!Ask, PageService!Push
  <2>5. Seen(x) = "asked" /\ s = (IF x \in share THEN "yes" ELSE "no") => PageService!Look(x)
    <3>1. CASE x \in share
      BY <2>2, <2>3, <3>1 DEF PageService!Look, PageService!Becomes
    <3>2. CASE x \notin share
      BY <2>2, <2>3, <3>2 DEF PageService!Look, PageService!Becomes
    <3> QED
      BY <3>1, <3>2
  <2>6. (Seen(x) = "yes" /\ s = "ok") \/ (Seen(x) = "no" /\ s = "absent") => PageService!Tell(x)
    BY <2>2, <2>3 DEF PageService!Tell
  <2>7. PageService!Ask(x) \/ PageService!Push(x) \/ PageService!Look(x) \/ PageService!Tell(x)
    BY <1>5, <2>4, <2>5, <2>6 DEF SeenStep
  <2> QED
    BY <2>7 DEF PageService!Next
<1> QED
  BY <1>4, <1>5
\* What no other transfer sees of a step about x, and what x does.
Elsewhere(x) ==
  /\ link' = link
  /\ \A y \in Xids \ {x} : /\ result'[y] = result[y] /\ (y \in hashing' <=> y \in hashing)
                           /\ Asking(y)' <=> Asking(y)
                           /\ Refusing(y)' <=> Refusing(y)
Steps(x) == Elsewhere(x) /\ SeenStep(x) /\ (UNCHANGED share \/ Seen(x)' = Seen(x))

LEMMA SeenElsewhere ==
  ASSUME NEW x \in Xids, Elsewhere(x), NEW y \in Xids \ {x}
  PROVE  Seen(y)' = Seen(y)
BY DEF Elsewhere, Seen

\* Nothing that FileService sees.
LEMMA Unseen ==
  ASSUME NEW x \in Xids, UNCHANGED <<link, result, hashing>>,
         \A y \in Xids : (Asking(y)' <=> Asking(y)) /\ (Refusing(y)' <=> Refusing(y))
  PROVE  Steps(x)
<1>1. Seen(x)' = Seen(x)
  BY DEF Seen
<1> QED
  BY <1>1 DEF Steps, Elsewhere, SeenStep

LEMMA HostSeen ==
  ASSUME PageInv, NEW x \in Xids, UserSteps(x) \/ HostEnd(x)
  PROVE  Steps(x)
<1>1. up \in Seq(Message) /\ down \in Seq(Message) /\ (up # <<>> \/ down # <<>> => link = "up")
  BY LinkUp
<1>2. CASE UNCHANGED <<link, up, down, result, hashing>>
  BY <1>2, Unseen DEF Asking, Refusing
<1>3. CASE UNCHANGED <<link, up, result, hashing>>
           /\ (down' = Append(down, Msg("file-offer", x)) \/ down' = Append(down, Msg("file-done", x)))
  <2>1. ASSUME NEW t \in {"file-offer", "file-done"}, down' = Append(down, Msg(t, x))
        PROVE  \A y \in Xids : Refusing(y)' <=> Refusing(y)
    BY <1>1, <2>1, Sending DEF Refusing, Types
  <2>2. \A y \in Xids : Refusing(y)' <=> Refusing(y)
    BY <1>3, <2>1
  <2> QED
    BY <1>3, <2>2, Unseen DEF Asking
<1>4. CASE OnAccept(x) /\ Still
  <2>1. \A y \in Xids : Asking(y)' <=> Asking(y)
    BY <1>1, <1>4, TakingOne DEF OnAccept, Asking, Types
  <2> QED
    BY <1>4, <2>1, Unseen DEF OnAccept, Refusing, receiver, Still
<1>5. CASE (OnGet(x) /\ Still) \/ PageOnGet(x)
  <2>1. /\ Takes(up, "get", x) /\ up' = Tail(up) /\ UNCHANGED <<link, share, result, hashing>>
    BY <1>5 DEF OnGet, PageOnGet, receiver, Still
  <2>2. Asking(x) /\ ~Asking(x)' /\ \A y \in Xids \ {x} : Asking(y)' <=> Asking(y)
    BY <1>1, <2>1, TakingOne DEF Asking, Types, PageInv, Channels
  <2>3. ~Refusing(x) /\ result[x] = "asked" /\ x \notin hashing /\ link = "up"
    BY <1>1, <2>1, <2>2 DEF PageInv, OnePlace, Open, Takes
  <2>4. CASE x \in share
    <3>1. \A y \in Xids : Refusing(y)' <=> Refusing(y)
      <4>1. down' = Append(down, Msg("file-offer", x)) \/ UNCHANGED down
        BY <1>5, <2>4 DEF OnGet, PageOnGet, Offers
      <4>2. CASE down' = Append(down, Msg("file-offer", x))
        BY <1>1, <4>2, Sending DEF Refusing, Types
      <4>3. CASE UNCHANGED down
        BY <4>3 DEF Refusing
      <4> QED
        BY <4>1, <4>2, <4>3
    <3>2. Seen(x) = "asked" /\ Seen(x)' = "yes"
      BY <2>1, <2>2, <2>3, <3>1 DEF Seen
    <3> QED
      BY <2>1, <2>2, <2>4, <3>1, <3>2 DEF Steps, Elsewhere, SeenStep
  <2>5. CASE x \notin share
    <3>1. down' = Append(down, Msg("no-file", x))
      BY <1>5, <2>5 DEF OnGet, PageOnGet
    <3>2. \A y \in Xids : Refusing(y)' <=> Refusing(y) \/ y = x
      BY <1>1, <3>1, Sending DEF Refusing, Types
    <3>3. Seen(x) = "asked" /\ Seen(x)' = "no"
      BY <2>1, <2>2, <2>3, <3>2 DEF Seen
    <3> QED
      BY <2>1, <2>2, <2>5, <3>2, <3>3 DEF Steps, Elsewhere, SeenStep
  <2> QED
    BY <2>4, <2>5
<1>6. CASE (SendFile(x) /\ Still) \/ PageSendFile(x) \/ (RequestGet(x) /\ Still)
  <2>1. /\ result[x] = "unasked" /\ result' = [result EXCEPT ![x] = "asked"] /\ link # "cut"
        /\ UNCHANGED <<link, share, hashing>>
    BY <1>6 DEF SendFile, PageSendFile, RequestGet, Still
  <2>2. ~Asking(x) /\ ~Refusing(x) /\ x \notin hashing
    BY <2>1 DEF PageInv, Open
  <2>3. result'[x] = "asked" /\ \A y \in Xids \ {x} : result'[y] = result[y]
    BY <2>1 DEF PageInv, TransferInv, TypeOK
  <2>4. \A y \in Xids : Refusing(y)' <=> Refusing(y)
    <3>1. down' = Append(down, Msg("file-offer", x)) \/ UNCHANGED down
      BY <1>6 DEF SendFile, PageSendFile, RequestGet, Offers
    <3>2. CASE down' = Append(down, Msg("file-offer", x))
      BY <1>1, <3>2, Sending DEF Refusing, Types
    <3>3. CASE UNCHANGED down
      BY <3>3 DEF Refusing
    <3> QED
      BY <3>1, <3>2, <3>3
  <2>5. \A y \in Xids \ {x} : Asking(y)' <=> Asking(y)
    <3>1. up' = Append(up, Msg("get", x)) \/ UNCHANGED up
      BY <1>6 DEF SendFile, PageSendFile, RequestGet
    <3>2. CASE up' = Append(up, Msg("get", x))
      BY <1>1, <3>2, Sending DEF Asking, Types
    <3>3. CASE UNCHANGED up
      BY <3>3 DEF Asking
    <3> QED
      BY <3>1, <3>2, <3>3
  <2>6. Seen(x) = "unasked" /\ Seen(x)' \in {"asked", "yes"}
    BY <2>1, <2>2, <2>3, <2>4 DEF Seen
  <2> QED
    BY <2>1, <2>3, <2>4, <2>5, <2>6 DEF Steps, Elsewhere, SeenStep
<1>7. CASE Stream(x) /\ Still
  BY <1>2, <1>3, <1>7 DEF Stream, receiver, Still
<1>8. CASE (OnOpen(x) \/ StreamRaises(x) \/ Flush(x) \/ ShareChanges(x)) /\ Still
  BY <1>2, <1>8 DEF OnOpen, StreamRaises, Flush, ShareChanges, receiver, Still
<1>9. CASE PageShares(x) \/ ReadDone(x) \/ ReadFails(x)
  BY <1>2, <1>3, <1>9 DEF PageShares, ShareChanges, ReadDone, ReadFails, receiver, vars
<1> QED
  BY <1>4, <1>5, <1>6, <1>7, <1>8, <1>9 DEF UserSteps, HostEnd, Shared

\* The end of a transfer, at a Python node and at a page.
LEMMA FinishSeen ==
  ASSUME PageInv, NEW x \in Xids, link = "up", recv[x] # "none", UNCHANGED <<link, share, up>>,
         \A y \in Xids : Refusing(y)' <=> Refusing(y),
         NEW st, NEW n \in Nat, n <= Size[x],
         \/ MaybeFinish(st, n, x) /\ UNCHANGED hashing
         \/ PageFinish(st, n, x) /\ UNCHANGED result
  PROVE  Steps(x)
<1>1. ~Asking(x) /\ ~Refusing(x) /\ x \notin hashing /\ result[x] = "asked"
  BY DEF PageInv, Open
<1>2. Seen(x) = "yes" /\ ~Asking(x)' /\ ~Refusing(x)'
  BY <1>1 DEF Seen, Asking
<1>3. CASE MaybeFinish(st, n, x) /\ UNCHANGED hashing
  <2>1. UNCHANGED result \/ result' = [result EXCEPT ![x] = "ok"]
    <3>1. Complete(st, n, x) => n = Size[x]
      BY FileAssumption DEF Complete
    <3> QED
      BY <1>3, <3>1 DEF MaybeFinish
  <2>2. result'[x] \in {"asked", "ok"} /\ \A y \in Xids \ {x} : result'[y] = result[y]
    BY <1>1, <2>1 DEF PageInv, TransferInv, TypeOK
  <2>3. Seen(x)' \in {"yes", "ok"}
    BY <1>1, <1>2, <1>3, <2>2 DEF Seen
  <2> QED
    BY <1>2, <1>3, <2>2, <2>3 DEF Steps, Elsewhere, SeenStep, Asking
<1>4. CASE PageFinish(st, n, x) /\ UNCHANGED result
  <2>1. \A y \in Xids \ {x} : y \in hashing' <=> y \in hashing
    BY <1>4 DEF PageFinish
  <2>2. Seen(x)' = "yes"
    BY <1>1, <1>2, <1>4 DEF Seen
  <2> QED
    BY <1>2, <1>4, <2>1, <2>2 DEF Steps, Elsewhere, SeenStep, Asking
<1> QED
  BY <1>3, <1>4

LEMMA ReceiverSeen ==
  ASSUME PageInv, NEW x \in Xids, ReceiverEnd(x)
  PROVE  Steps(x)
<1>1. up \in Seq(Message) /\ down \in Seq(Message) /\ (up # <<>> \/ down # <<>> => link = "up")
  BY LinkUp
<1>2. CASE OnNoFile(x) /\ Still
  <2>1. /\ Takes(down, "no-file", x) /\ down' = Tail(down) /\ UNCHANGED <<link, share, up, hashing>>
        /\ result' = [result EXCEPT ![x] = "absent"]
    BY <1>2 DEF OnNoFile, Still
  <2>2. Refusing(x) /\ \A y \in Xids \ {x} : Refusing(y)' <=> Refusing(y)
    BY <1>1, <2>1, TakingOne DEF Refusing, Types
  <2>3. ~Asking(x) /\ result[x] = "asked" /\ x \notin hashing /\ link = "up"
    BY <1>1, <2>1, <2>2 DEF PageInv, OnePlace, Open, Takes
  <2>4. result'[x] = "absent" /\ \A y \in Xids \ {x} : result'[y] = result[y]
    BY <2>1 DEF PageInv, TransferInv, TypeOK
  <2>5. Seen(x) = "no" /\ Seen(x)' = "absent"
    BY <2>1, <2>2, <2>3, <2>4 DEF Seen
  <2> QED
    BY <2>1, <2>2, <2>4, <2>5 DEF Steps, Elsewhere, SeenStep, Asking
<1>3. CASE OnOffer(x) /\ Still
  <2>1. \A y \in Xids : Refusing(y)' <=> Refusing(y)
    BY <1>1, <1>3, TakingOne DEF OnOffer, Refusing, Types
  <2>2. \A y \in Xids : Asking(y)' <=> Asking(y)
    BY <1>1, <1>3, Sending DEF OnOffer, Asking, Types
  <2> QED
    BY <1>3, <2>1, <2>2, Unseen DEF OnOffer, Still
<1>4. CASE OnChannel(x) /\ Still
  BY <1>4, Unseen DEF OnChannel, receiver, Still, Asking, Refusing
<1>5. got[x] \in Nat /\ got[x] <= Size[x]
  BY FileAssumption DEF PageInv, TransferInv, TypeOK, CountersOrdered
<1>6. CASE (OnDone(x) /\ Still) \/ PageOnDone(x)
  <2>1. Takes(down, "file-done", x) /\ down' = Tail(down) /\ UNCHANGED <<link, share, up>> /\ link = "up"
    BY <1>1, <1>6 DEF OnDone, PageOnDone, Takes
  <2>2. \A y \in Xids : Refusing(y)' <=> Refusing(y)
    BY <1>1, <2>1, TakingOne DEF Refusing, Types
  <2>3. CASE recv[x] = "none"
    <3>1. UNCHANGED <<result, hashing>>
      BY <1>6, <2>3 DEF OnDone, PageOnDone, Still
    <3> QED
      BY <2>1, <2>2, <3>1, Unseen DEF Asking
  <2>4. CASE recv[x] # "none"
    <3>1. \/ MaybeFinish("done", got[x], x) /\ UNCHANGED hashing
          \/ PageFinish("done", got[x], x) /\ UNCHANGED result
      BY <1>6, <2>4 DEF OnDone, PageOnDone, Still
    <3> QED
      BY <1>5, <2>1, <2>2, <2>4, <3>1, FinishSeen
  <2> QED
    BY <2>3, <2>4
<1>7. CASE (OnData(x) /\ Still) \/ PageOnData(x)
  <2>1. /\ link = "up" /\ got[x] < flushed[x] /\ recv[x] # "none" /\ UNCHANGED <<link, share, up, down>>
        /\ \/ MaybeFinish(recv[x], got[x] + 1, x) /\ UNCHANGED hashing
           \/ PageFinish(recv[x], got[x] + 1, x) /\ UNCHANGED result
    BY <1>7 DEF OnData, PageOnData, Still
  <2>2. got[x] + 1 \in Nat /\ got[x] + 1 <= Size[x]
    <3>1. /\ got[x] \in Nat /\ flushed[x] \in Nat /\ sent[x] \in Nat /\ Size[x] \in Nat
          /\ flushed[x] <= sent[x] /\ sent[x] <= Size[x]
      BY FileAssumption DEF PageInv, TransferInv, TypeOK, CountersOrdered
    <3> QED
      BY <2>1, <3>1
  <2>3. \A y \in Xids : Refusing(y)' <=> Refusing(y)
    BY <2>1 DEF Refusing
  <2> QED
    BY <2>1, <2>2, <2>3, FinishSeen
<1>8. CASE Hashed(x)
  <2>1. /\ x \in hashing /\ hashing' = hashing \ {x} /\ got[x] = Size[x] /\ result' = [result EXCEPT ![x] = "ok"]
        /\ UNCHANGED <<link, share, up, down>>
    BY <1>8 DEF Hashed, PageInv, Open
  <2>2. result'[x] = "ok" /\ \A y \in Xids \ {x} : result'[y] = result[y]
    BY <2>1 DEF PageInv, TransferInv, TypeOK
  <2>3. Seen(x) = "yes" /\ Seen(x)' = "ok"
    BY <2>1, <2>2 DEF Seen
  <2> QED
    BY <2>1, <2>2, <2>3 DEF Steps, Elsewhere, SeenStep, Asking, Refusing
<1> QED
  BY <1>2, <1>3, <1>4, <1>6, <1>7, <1>8 DEF ReceiverEnd, Common

\* A cut loses what is open, but for what is being hashed.
LEMMA CutSeen ==
  ASSUME PageInv, Cut, UNCHANGED <<pages, reading, hashing>>
  PROVE  PageService!Lose
<1> DEFINE arrived == hashing
<1>1. link = "up" /\ link' = "cut" /\ UNCHANGED <<share, result, hashing>>
  BY DEF Cut, receiver
<1>2. arrived \in SUBSET {x \in Xids : View[x] = "yes"}
  BY DEF PageInv, PageTypeOK, View
<1>3. \A x \in Xids : View[x] = Seen(x)
  BY ViewIsSeen
<1>4. \A x \in Xids : Seen(x)' = IF Seen(x) \in {"asked", "yes", "no"} /\ x \notin arrived THEN "lost" ELSE Seen(x)
  BY <1>1 DEF Seen, PageInv, TransferInv, TypeOK
<1>5. View' = [x \in Xids |-> Seen(x)']
  <2> SUFFICES ASSUME NEW y \in Xids
               PROVE  (IF y \in hashing THEN "yes" ELSE Status[y])' = Seen(y)'
    BY DEF View
  <2> QED
    BY DEF Status, Seen, Asking, Refusing
<1>6. View' = [x \in Xids |-> IF View[x] \in {"asked", "yes", "no"} /\ x \notin arrived THEN "lost" ELSE View[x]]
  BY <1>3, <1>4, <1>5
<1> HIDE DEF arrived
<1> QED
  BY <1>1, <1>2, <1>6 DEF PageService!Lose, View

LEMMA ServesStep == PageInv /\ PageInv' /\ [PageNext]_bvars => [PageService!Next]_(PageService!service)
<1> SUFFICES ASSUME PageInv, PageInv', [PageNext]_bvars PROVE [PageService!Next]_(PageService!service)
  OBVIOUS
<1>1. CASE UNCHANGED bvars
  <2>1. UNCHANGED <<share, View>>
    BY <1>1 DEF bvars, vars, View, Status, UnderWay
  <2> QED
    BY <2>1 DEF PageService!service, View
<1>2. CASE LinkOpens
  <2>1. UNCHANGED <<share, View>>
    BY <1>2 DEF LinkOpens, receiver, View, Status, UnderWay
  <2> QED
    BY <2>1 DEF PageService!service, View
<1>3. CASE Cut /\ UNCHANGED <<pages, reading, hashing>>
  BY <1>3, CutSeen DEF PageService!Next
<1>4. ASSUME NEW x \in Xids, UserSteps(x) \/ HostEnd(x) \/ ReceiverEnd(x)
      PROVE  [PageService!Next]_(PageService!service)
  <2>1. Steps(x)
    BY <1>4, HostSeen, ReceiverSeen
  <2>2. share' \subseteq Xids
    BY DEF PageInv, TransferInv, TypeOK
  <2>3. \A y \in Xids \ {x} : Seen(y)' = Seen(y)
    BY <2>1, SeenElsewhere DEF Steps
  <2> QED
    BY <2>1, <2>2, <2>3, OneSeen DEF Steps
<1> QED
  BY <1>1, <1>2, <1>3, <1>4 DEF PageNext

\* Whichever ends are pages, and although a page reads and hashes while other
\* messages are handled, a transfer is what FileService promises: the host
\* looks at its share once, between the request and the answer, and the answer
\* is what it saw, with the file whole.
THEOREM PagesServe == PageSpec => PageServes
<1>1. PageInit => PageService!Init
  <2> SUFFICES ASSUME PageInit PROVE PageService!Init
    OBVIOUS
  <2>1. View = [x \in Xids |-> "unasked"]
    BY DEF PageInit, Idle, View, Status
  <2>2. share \in SUBSET Xids
    BY DEF PageInit, Idle
  <2> QED
    BY <2>1, <2>2 DEF PageService!Init, View
<1>2. PageInv /\ PageInv' /\ [PageNext]_bvars => [PageService!Next]_(PageService!service)
  BY ServesStep
<1> QED
  BY <1>1, <1>2, PagesInvariant, PTL DEF PageSpec, PageServes, PageService!Spec
=============================================================================

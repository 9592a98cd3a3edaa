# YAW/2 in TLA+

YAW/2 is a small peer-to-peer messenger. A *signaling server* lets nodes that
know the name of a network find each other and relays sealed boxes between
them; the nodes then talk over WebRTC. This directory models the parts of it
that are hard to test: handlers of one event loop that interleave at every
`await`, presence that reaches different nodes in different orders, two nodes
that bring up a session while keys, offers and answers of several attempts are
under way, pages and programs that reconnect against a server that limits them,
file transfers over channels that are not ordered against each other, a room
whose members several tasks offer to, identities and keyrings that two programs
or two stores share, and files that are written when a program may be killed. Paths below are relative to the repository.

    cd tla
    tlc -config server_overlap.cfg MCSignalingServer    # any run of PROJECT.json
    tlapm SignalingServerProofs.tla                     # any module of proofs

## 1. Inventory

| component | source | state | operations | interacts with |
|---|---|---|---|---|
| signaling server: handlers and registry | `signaling/server.py` | `rooms` (network -> dict of id -> socket), `meta`, the status file, one handler task per socket | connect, authenticate, join, displace an older socket of the same id, announce, relay, leave | frames to and from every client; the status file is read by `yawpeers.py` |
| signaling server: rate limits | `signaling/server.py` | `_conn_hist`, `_conc`, `msg_times` | admit a connection, count it, drop a frame | guards the handlers |
| signaling client (Python) | `cli/yaw2/signaling.py` | the socket, the presence set `peers`, the backoff | handshake, send, pump, reconnect | calls back into `Node` |
| session negotiation (Python) | `cli/yaw2/peer.py` | `Node.peers`, one `YawPeer` per attempt: connection, ephemeral keys, flags | presence and box callbacks, the periodic sweep, accepting a key, offer timer, offer and answer, hello | signaling client, keyring, aiortc |
| file transfer (Python) | `cli/yaw2/peer.py` | `_send`, `_recv`, the tasks of `_stream_file` | get, offer, accept, stream, done | data channels, file share |
| browser client | `web/yaw2.js`, `web/index.html` | all of the above in one page | the same protocol with other timers and start-up | server, keychain |
| keyring | `cli/yaw2/keyring.py`, `web/yaw2.js` | trusted ids and nicknames, one file or a localStorage entry | accept, rename, remove, import, save | `Node._trusted` |
| identity storage | `cli/spike_peer.py`, `cli/yaw2/identity.py`, `web/yaw2.js`, `desktop/src-tauri/src/lib.rs` | the seed, in a file, the keychain or localStorage | load or create, import, export | every start |
| file share | `cli/yaw2/fileshare.py`, `web/yaw2.js` | a directory, or the files a page's user picked | resolve, list, read | file transfer |
| key backup, protocol vectors, configuration, command-line programs, admin tool, desktop shell, deployment, vendored libsodium | see `PROJECT.json` | none of their own that changes | | |

What makes each of them hard, and what makes it correct:

* **Server.** No locks: a handler may be suspended in every `send` (a slow
  reader) and in the `close` of the socket it displaces, and what it read before
  (`room`, `old`) may be stale after. Correct means: nobody is registered
  without being listed and welcomed, no empty room stays, no handler removes its
  successor, what members believe of each other is right when things settle,
  and no handler waits for ever.
* **Rate limits.** Windows at their limit; attempts that are refused count too.
  Correct means: limits hold over every window, counters do not drift, nobody
  who keeps trying is shut out for good.
* **Signaling client.** It has to keep retrying, and a send of another task may
  go out before the handshake is over.
* **Session negotiation.** Ekeys, offers, answers, presence, a timer, a sweep
  and users race; frames are lost with a socket. Correct means: two nodes get a
  session if and only if each has accepted the other; both ends agree on whose
  keys protect it; a node that requires forward secrecy has nothing less; what
  the user is told is true; a working link is not churned.
* **File transfer.** `file-done` and the content race. Correct means: whole
  files or none, bounded memory, every request answered.
* **Browser client.** The same protocol with handlers that overlap, sends that
  fail silently and another start-up.
* **Keyring, identity.** Kills and partial failures between two writes; two
  stores, one of which may fail; two programs. Correct means: what the user was
  told is what the next start finds.
* **File share.** Two implementations that resolve and list paths, a folder that
  changes while it is browsed. Correct means: what is listed can be fetched, and
  nothing outside the folder can.

`PROJECT.json` lists every hazard at its line, with the properties that would
catch it or the reason why none does yet.

## 2. Plan

Written in this order:

1. `SignalingServer` with `SignalingServerProofs`: the registry is what
   everything else relies on.
2. `Session`: one offerer, one answerer and the client's pump between them, with
   `SessionProofs`.
3. `FileTransfer` and its abstract specification `FileService`, with
   `FileTransferProofs`.
4. `Reconnect`: the handshake, the backoff and the start of Python and browser
   clients against the server's windows and counters, with `ReconnectProofs`.
5. `BrowserSession`, which extends `Session` with the browser's node.
6. `Home` with `HomeProofs`: keyring, identity and backup under kills.
7. `SeedStore`: keychain and localStorage as two copies of one seed.
8. `BrowserTransfer`, which extends `FileTransfer` with the page's side and
   implements the same `FileService`, with `BrowserTransferProofs`.
9. `Roster`: one node in a room of several, with the set its tasks share, and
   `RosterProofs`.
10. `ShareTree`: the two file shares and a visitor, with each other as reference.
11. `SharedKeyring`: several programs on one keyring.
12. `MCHome`: the four models of what one user's programs keep, in one run, with
   `MCHomeProofs`.

An abstract registry (per network a set of members) was considered for
`SignalingServer` and left out: it would hold only while no handler displaces
another, and `SuccessorSafe`, `WelcomedFirst`, `PresenceComplete` and
`PresenceSound` say what it would say.

The theorems follow the runs: every safety property that a run checks is proved
as well where it holds for all constants (section 5 says which do not, and why).

## 3. Modules

### SignalingServer (`signaling/server.py`)

A connection is a constant with the id and network it proves; `Conns` bounds how
many there are. `pc[c]` is the point at which the handler of `c` is: `idle`,
`auth` (waiting for the join frame), `displace` (in `await old.close()`),
`announce` (broadcasting peer-join), `relay` (in the receive loop), `forward`
(in a send to a target), `farewell` (broadcasting peer-leave), `done`. A room
is a Python dict that handlers hold by reference, so dicts are objects of their
own: `dict[r]` is the dict that connection `r` created, `rooms[n]` says which
dict network `n` has now, `room[c]` which one the handler of `c` holds. This is
what makes the stale reference of `server.py:145` visible. `keys` is the
insertion order, which `_broadcast` follows, `todo` what is left of the
broadcast a handler is in, `peers` what the client behind a connection believes
(`Signaling.peers`).

| action | code |
|---|---|
| `Connect`, `AuthFail`, `Join` | `_serve` 118-157 up to the first suspension |
| `Displaced` | the rest of the join after `await old.close()` |
| `Relay`, `Disconnected` | the relay loop 160-181; its end and the clean-up 185-194 |
| `ResumeAnnounce`, `ResumeFarewell`, `ResumeForward` | a handler goes on after a send that had to wait |
| `Drop`, `SocketClosed` | a client or the network goes away; the closing handshake ends |

A send suspends only if the reader is in `Slow`; otherwise a broadcast runs
through; a send to a closing socket waits for it to close. Sends to one socket
are served in the order in which they began.
Signatures are a valid or an invalid join, frames are the four the server
sends. `Overlap` says whether an id may join again while an earlier connection
is still being served (that is displacement) or only after it has been taken out
of the room, perhaps with its peer-leave still under way.

### Session (`cli/yaw2/peer.py`, `cli/yaw2/signaling.py`)

Two nodes, `off` with the smaller id and `ans`. `OPeers` and `APeers` are the
`YawPeer` objects that each node may create; an object that nothing refers to
any more is used again, so the number bounds attempts that are mixed up, not
attempts. Since connection and ephemeral key pair are made with the object, a
box carries the object it came from (`src`), the one whose ephemeral key it is sealed
for (`key`) and, with an answer, the one whose offer it answers (`to`); it opens if
the keys fit (`Opens`), as the try-both of `_open` does. A connection meets
another only if each was given the other's description, and is bound to the
first one it was given, which is how WebRTC credentials work. `mode` holds the
settings of a behaviour: `forward_secret` and `require_fs` of both nodes (a 2.0
node is one without forward secrecy), how many sockets each may open (`Sockets`),
and whose user may change his mind (`Fickle`).
`Matched` pairs two ends that were given each other's descriptions.

| action | code |
|---|---|
| `Connect`, `Blip`, `ServerNotices` | a node's socket: `Signaling.connect`, and the server's side of losing one |
| `PeerJoin`, `PeerLeave`, `FromPeer` | the pump, `_on_join`, `_on_leave`, `_on_from` with `on_box` and all it calls |
| `StartSweep`, `Reconcile`, `Accept` | the end of `Node.start`, `_reconcile`, `Node.accept` |
| `OfferTimer` | `_offer_timer` |
| `OfferGathered`, `AnswerGathered` | what follows `setLocalDescription`, which waits for candidates |
| `Forget` | `keyring.remove`: trust is taken back, and nothing else is |
| `LinkUp`, `LinkCut`, `EndFails`, `IceFails`, `Hello` | aiortc, and the `hello` that verifies |
| `Stale` | `RETRY_AFTER` |

A task runs until it waits, so `TryConnect` with `StartOffer` is one step. An
exception goes where it does in the code: in the pump it loses the frames that
are queued and forces a reconnection (`PumpFails`), in `_reconcile` it ends the
sweep (`recon = "dead"`), elsewhere only the task. The user of a `Fickle` node
may forget the other at any moment, and accept it again: what was under way
goes on, since trust is only looked at when a box or an id arrives.

### FileTransfer (`cli/yaw2/peer.py`) and FileService

One link, one direction; a transfer is named by its xid from the request on.
`up` and `down` are the ordered `yaw` channel, `sent`, `flushed` and `got` count
chunks of the transfer's own channel. `Stream` is one run of `_stream_file`
between two sleeps: `send` does not wait, so it queues chunks until more than
`Window` are buffered, and sends `file-done` while chunks are still in the
buffer, which is the race the code was once caught by. `Cut` loses everything on
its way; tasks that wait then wait for ever, as they do in the code.

`FileService` is what a host promises: it looks at its share once between the
request and the answer and answers what it found, with the whole file.
`ServesFiles` says that `FileTransfer` implements it (a run checks it as `PageServes`,
of which it is the case without pages) under the mapping `Status`,
which reads a transfer's state off where its messages are. When the link is lost the
service keeps what it has delivered and may lose the rest.

### BrowserTransfer (`web/yaw2.js`, `web/index.html`)

Extends `FileTransfer`; `pages` says which ends are pages, neither if one likes, and
an end that is not
takes the steps of `FileTransfer` (`OnGet`, `OnDone`, `OnData`), as a page does
where the two programs do the same (`Shared`, `Common`). A page differs in four things:
it reads a file before it offers it (`PageOnGet` or `PageSendFile`, then `ReadDone`
or, for a file in `Changing`, `ReadFails`); it takes a finished transfer out of
its table and hashes it afterwards (`PageOnDone`, `PageOnData`, then `Hashed`);
its share only grows (`PageShares`); and its user may send to a peer whose
channel is still being opened (`Early`), where `_dc` drops what it is given.

### Roster (`cli/yaw2/peer.py`, `cli/yaw2/signaling.py`)

One node that offers, in a room of `Others` that come and go. `known` is
`Signaling.peers`, `room` what the server has. Three tasks offer: `start`
iterates over the very set that `connect` returned (`first`, which the pump
changes until a reconnection replaces it: `same`; `StartNext`, `StartRaises`),
the pump handles frames and reconnects (`PeerJoin`, `PeerLeave`, `Reconnect`),
the sweep works through a copy (`SweepBegins`, `Visit`). Each is suspended in
`_try_connect` while its offer gathers (`Gathered`), and what the send raises if the
socket has gone meanwhile ends `start` or the sweep, and is caught in the pump.
The exchange between two nodes, which `Session` has in full, is one step here
(`LinkUp`), and the hello over its channel another (`Hello`), since a link that
fails before it is offered again and one that fails after it is not: `verified` is
never set back, and `_try_connect` leaves such a peer alone until a peer-leave pops
it (`peer.py:402`, `410`). `link[p]` is `"none"`, `"fresh"` or `"stale"` (an offer,
younger or older than `RETRY_AFTER`), `"open"`, `"up"` (verified), or `"lost"`
(verified, and failed since).

### BrowserSession (`web/yaw2.js`)

Extends `Session` with what a page does otherwise; `mode.page` says which nodes
are pages, and state, boxes, connections and environment are those of `Session`.
`Page...` operators are the functions of the same name in `Peer` and `Node` of
`yaw2.js`. A page differs in four things:

* `onmessage` starts an async handler and does not wait for it, so a page takes
  boxes up while it gathers: there is no `Busy`, and `answers[p]` counts the
  handlers of offers that gather, with what each remembers (`usedEph`).
* `sendTo` swallows errors: a box for a socket that is down is lost (`SendTo`)
  and no task ends, so nothing corresponds to `PumpFails` or a dead sweep.
* A browser's connection that gets another offer begins anew with the other end,
  or refuses it; aiortc stays with the first (`Rebinds`).
* There is no `require_fs`.

### Reconnect (`signaling/server.py`, `cli/yaw2/signaling.py`, `web/yaw2.js`)

Clients behind one address. Time is an action of its own, `Tick`, and a window is
the sequence of the ages of what it counts. A client dials when its delay is
over; `Admit` and `Refuse` are `_allow_connection` with the counting before the
check; `Join` is `joined` and displaces other sockets of the identity;
`SendsEarly` is a `send_to` of another task on a socket that has not joined
(`signaling.py:23` assigns it before the handshake), which the server answers by
closing; `Drop` loses a socket whose handler lives on as a ghost until the
keepalive finds out. A Python program whose first connection fails ends with the
exception of `connect`; a page's `start` fails on an error event only, and goes
on reconnecting behind it (`start` is then `raised` or `hung`).

### Home (`cli/yaw2/keyring.py`, `cli/spike_peer.py`, `cli/export_key.py`)

The files in `~/.yaw` and one backup, a peer process that is started, quits or is
killed, and `export_key.py` beside it. `open(_, "w")` empties a file and close
writes it, as two steps: `Change`, `Write`, `Replace` are `_save`; `Mint`,
`Minted` are the first start; `ImportKey`/`ImportedKey` and
`ExportKey`/`ExportedKey` the two commands. `yes` and `no` record what the user
was told of contacts and has not changed since, `promised` the identity he was
told the next start has. `Killed` ends a program, not the machine: nothing is
said of data the kernel has not written. One peer process at a time uses a home.
`SharedKeyring` has several.

### SharedKeyring (`cli/yaw2/keyring.py`, `web/yaw2.js`)

Several programs of one user: tabs, which save at once to localStorage, or
Python peers, which open, write and rename a temporary file of one name. Each
loads the keyring once and saves all of its own memory. A file is an inode that a
program may still have open when another has renamed it (`file`). `yes` and `no`
are what any of the programs has told its user and not changed since. `page` and
`together`, which kind they are and whether two may run at once, are chosen at the start.

### SeedStore (`web/yaw2.js`, `web/index.html`, `desktop/src-tauri/src/lib.rs`)

The page's seed in keychain and localStorage. Three tasks call `seedGet` and
`seedSet` (the page's own load, Connect, and Restore key) and wait for the
keychain, which serves calls in order (`calls`); each call may fail
(`MaxFaults`), and then the code falls back to localStorage: `Lookup` and `Put`.
`Reload` leaves calls behind that are served with nobody waiting. `owned` is the
identity that was stored when the page was opened, `told` the one it said it had
restored, `cleared` whether the user has cleared localStorage.

### ShareTree (`cli/yaw2/fileshare.py`, `web/yaw2.js`, `web/index.html`)

A folder as a function from paths (sequences of names) to kinds, which may change
(`still` is false from then on) while a visitor, a page's panel or somebody who types, sends requests that are
answered in order. `Resolve`, `Listing` and `Read` are `FileShare` with its
splitting of backslashes, stripping of blanks (`Parts`), dotfiles and symlinks
(`Real`); `PageListing` and `PageRead` are the map of a page. Each is the
reference of the other where a folder has neither symlinks nor dotfiles
(`HostsAgree`). `Inner` is the page's stripping of slashes at both ends, while
`Parts` strips them only at the end. Names are atoms, and `Split`, `LTrim`
and `RTrim` say what a name becomes: `strip()` takes blanks from the outer ends of a
whole path, so `LTrim` is for its first name and `RTrim` for its last.

### MCHome

`Home`, `SeedStore`, `SharedKeyring` and `ShareTree` share no state, so that one
run has them all: a behaviour is one of the model that `part` names, and the
other three rest in one state. The three that are instances are `Store`, `Ring`
and `Folder`. The assumptions on their constants (`SeedAssumption`,
`ShareAssumption`) are stated there. The folder is a parameter: `home.cfg` gives it
the names, places, links and typed paths of the module (`FewPlaces` and so on).

## 4. Runs

Every property of a passing run has a mutant of the code's definition that
breaks it under the same configuration (the operators whose name ends in
`_Something`, with a comment that names the bug).

| run | module | instance | what it shows |
|---|---|---|---|
| `server_overlap` | `MCSignalingServer` | three connections of one id, one slow member, all relaying | `RegistryInv` and its parts; `SuccessorSafe`: an entry is removed only by the handler that made it |
| `server_presence` | `MCSignalingServer` | three ids, one reconnects, a slow reader, no relays | `PresenceExact`: presence is complete and sound once handlers are quiet |
| `server_live` | `MCSignalingServer` | two slow ids that displace, relay and close | every handler of a dead socket ends, every displacing join gets through |
| `session_mix` | `MCSession` | two 2.1 nodes, or a requiring answerer and an offerer of either version, the offerer's socket lost once; or two 2.1 nodes whose answerer forgets; three attempts, the link lost once, one exchange late | `KeysAgree`, `RequireHonoured`, `OpenLinkSettled`; `OffererHonest`: what the offerer's user is told of forward secrecy is true, though sockets are lost and an ekey is late |
| `session_live` | `MCBrowserSession` | two Python nodes of any versions whose answerer forgets; a page and a Python node, either way round, or two pages, whose answerer forgets or whose offerer loses its socket; keys accepted at any two moments | `Meet` and `BothTrust`: a session if and only if both accepted for good; `KeysAgree`; `ClaimsHonest`: what a user is told of forward secrecy is true; `LinkReached`; `ForgottenStaysOut`: a node that does not trust begins nothing |
| `file_transfer` | `MCBrowserTransfer` | an empty, a small and a large file at once, pages at neither, either or both ends, a file that changes under a page, the link may be cut | `DeliveredIntact`, `BufferBounded`, `PageHolds` (memory is held for an offer only), `PageAnswered`, `PageServes` (the refinement of `FileService`) |
| `reconnect` | `MCReconnect` | a page and a Python client of one address, four faults | `ConcExact`; `LimitsHold`: `ConnCapped` and `RelayCapped`, over every window; `Recovers` |
| `roster` | `Roster` | two others, two joins or leaves, two faults | `RosterExact`: a pump that has read all frames knows the room; `EachLinked`: who stays is offered to until a link is verified |
| `home` | `MCHome` | what one user's programs keep, see below | |

`home` has nine properties. Of the files of a Python peer: `ToldIsKept`,
`SameIdentity`, `ACopyRemains`, under three kills. Of a page's seed:
`SeedKept` (`NextStartSame`, where no call failed, and `SavedSomewhere`, whatever
failed), `OwnOrRestored` (`OnlyFreshMints` and `RestoreStays`). Of the keyring of
two programs: `KeyringShared` (`TurnsKeep`: one after the other they keep what
either was told, and `NoGhosts`: two at once bring back no contact that none of them
has in memory or had when it last quit). Of the folder: `ClickLeads` (a row leads to what it names) and
`FolderServed` (`Confined`, `PythonOmits`, `HostsAgree`).

Three runs show where the code does not do what a document, a docstring or the
text it shows its user says; each checks the one property that states it, and
finds it violated. `PROJECT.json` has them as findings.

* `server_orphan_room`: a join that waits for the socket it displaces keeps a
  reference to a room that the other handler drops; the newcomer is served but
  registered in a dict that nobody looks at.
* `session_require_stuck`: with forward secrecy required, one late ekey makes
  the first attempt fail; the answerer keeps its `YawPeer` with the first key
  and ignores every later ekey, so no later attempt succeeds either.
* `session_sweep`: a sweep during an outage raises and is never started again.

Further configurations are not in `PROJECT.json` and are run by hand, for example
`tlc -config roster_start.cfg Roster`; each ends with a violation as well.

* `server_two_sockets` (`MCSignalingServer`): two joins of one id wait for the
  same old socket; both are served, one of them in no room.
* `server_stale_entry` (`MCSignalingServer`): `joined` is sent outside the `try` whose
  `finally` cleans up (`server.py:155`), so an entry whose socket fails there stays.
* `session_blip` (`MCSession`): a socket lost for a moment makes the other node
  forget the `YawPeer` of a link that stays open.
* `session_claim` (`MCSession`): an answerer's user is told of a session what belongs to
  a later offer: `session_fs` is set anew on a connection that stays bound to the
  first (`peer.py:184`), here after a link lost before its hello.
* `session_forgotten` (`MCSession`): a session comes up, or stays, with an id that
  the user has removed.
* `roster_start` (`Roster`): without any fault, a join while `start` waits makes its
  iteration raise, and the program ends.
* `roster_lost` (`Roster`): one loss of a verified link, and it is not offered again,
  though "the offerer also re-offers a link that has failed"
  (`docs/yaw2-implementation.md:254`).
* `seed_minted_over`, `seed_not_in_keychain` (`SeedStore`): one keychain call that
  fails is taken for an empty keychain, or leaves the key outside of it for good.
  A restore whose call fails puts the restored identity behind the old one.
* `seed_restore_raced` (`SeedStore`): a restore on a first start is overwritten by
  the identity that the page's own load mints.
* `browser_read_fails` (`MCBrowserTransfer`), `share_unreadable` (`MCShareTree`): a
  get of a file that cannot be read is never answered, by a page or by a Python node.
* `browser_send_early` (`MCBrowserTransfer`): a file sent before the channel is open
  goes nowhere.
* `share_dots`, `share_odd_names` (`MCShareTree`): a page lists dotfiles; names with
  a backslash or an outer blank are listed and cannot be got.
* `keyring_tabs`, `keyring_raises` (`SharedKeyring`): a tab saves over what another
  has accepted; two peers rename one temporary file, and the second raises.

The models also reach, without a run of their own: with relays in
`server_presence`, a peer-leave held up at one member that arrives after the
peer-join of the same id, so that the member takes a present peer for absent
(`server.py:193`; a sender's handler ends when its target's socket is dying,
which is why that run has none); an identity file
left empty by a kill, which no start can read (`spike_peer.py:55`); a page whose
first connection failed and that is started again, so that two of its sockets
displace each other for ever (`index.html:302`, `IdOf <- OnePerson`); and an
entry of `Node.peers` for someone who left while the socket was down
(`peer.py:366`). What `session_claim` shows happens also when the *answerer* loses its
socket or, where a page answers, when an exchange is late; `ClaimsHonest`, which
speaks of both ends, is checked without such losses, and `OffererHonest` with them.

### Bounds, and why they are enough

* Connections: displacement needs two of an id, a successor of a successor
  three; a bystander shows what others see. One network: networks share nothing
  but `rooms` and `meta`, whose keys contain them; the proofs are for any number.
* `OPeers` has three and `APeers` two objects: the attempt that is under way,
  the one it replaces, and one that is an orphan with a timer.
* `Sockets`, `MaxCuts`, `MaxLate` bound how often a node opens a socket, a link
  is lost and an exchange takes longer than `RETRY_AFTER` or the ICE checks wait:
  once or twice, since every effect in the code is of one loss on another.
  `Blip` never takes a node's last socket.
* `reconnect`: delays of 1 and 2 ticks, a window of 4. `ConnMax = 4` is what two
  clients at the longest delay need in a window; with 3, `Recovers` fails, since
  attempts that are refused count. With the code's 30 s, 60 s and 30 attempts
  that is 15 clients behind one address. Four faults reach the longest delay and
  the limit for both.
* `home`: three identities are the minted one, the one of a foreign backup and
  another; a kill in each of the two programs, and one more.
* `session_live`: forgetting and accepting is unbounded; the attempts of three
  `OPeers` are there to be cut short. `OpenLinkSettled` speaks of replacing
  only, and `LinkReached` of the offerer's end, because of what `session_blip`
  shows.
* `roster`: two others let a task be in the middle of one while the other moves;
  two moves are a leave and a return, two faults a socket and a link, or the
  socket while its loss is being repaired.
* `home` has two programs on one keyring, which is what one temporary file takes to
  go wrong; with two contacts one is changed while another is only carried along.
  A page has three identities to mint and one backup: a minted one may be
  replaced, and replace another; two calls of the keychain fail, the one that reads
  and the one that writes. A page is reloaded with at most two calls under way, as
  often as one likes. The folder has a file of one name in the root and in a
  folder, so that a path taken for another shows, a dotfile, a symlink within and
  one that leaves. With two requests under way, answers meet a panel that has
  moved on.
* Transfers: three at once with 0, 1 and 3 chunks and `Window = 1`, so that one
  has no chunk, one fits, and one has to wait for its buffer.
* `CHECK_DEADLOCK FALSE` stands where the system may stop: clients that have
  left for good, transfers that are over, a sweep or a program that has died, a peer that
  cannot start. `reconnect` does without it: clients dial for ever.

### Fairness

* Server (`server_live`): the event loop runs every handler that is ready, a
  join is answered or timed out (`JOIN_TIMEOUT`), a closing socket is closed
  (the closing handshake has a timeout), and no send is suspended for ever (a
  client that does not read misses its pings). These steps wait for the loop to
  be idle, so the fairness is strong. Nothing makes a client connect, join, relay
  or leave.
* Python nodes (`session_live` and `session_require_stuck`): tasks that are ready
  run, the pump reconnects, timers and ICE checks expire, the offerer sweeps
  (`while True` with a sleep). The checks of ICE have a time limit that is not
  begun anew when a user changes his mind, so `IceFails` has strong fairness.
  Nothing makes a user accept or forget a key or a socket or a link fail.
* Pages (`session_live`): the same, and nothing stops their `setInterval`. `Meet`
  speaks of pairs that lose no socket; `LinkReached` of pairs with a page, and it
  assumes that a Python offerer's sweep is alive, which `session_sweep` shows not
  to be given; a page's always is.
* `reconnect`: time goes on, timers fire, the server answers a join and pings.
  Nothing makes a client start or send, or a socket fail.
* Transfers: both event loops run and SCTP delivers; a page's read
  of a file ends, with its content or without, and hashing ends. Nothing changes
  a share, sends a file or cuts a link.
* `roster`: the loop runs every task, time passes, an offer that is made again
  and again to someone who stays is answered in the end (strong fairness of
  `LinkUp`; that this is so is what `Session` is about), and a hello arrives over a
  channel that stays (`Hello`). `EachLinked` promises a verified link once, not one
  that comes back after it has failed, and is
  conditional on the program and its sweep being alive, which `roster_start` and
  `session_sweep` show not to be given.

## 5. Proofs

`SignalingServerProofs` proves, for any connections, ids, networks and slow
readers, the type invariant, `MembersInMeta`, `NoEmptyRoom`, `WelcomedFirst`,
`StatusFresh` and the action property `SuccessorSafe`. The only assumption is
`ConstantsAssumption`: every connection has an id and a network, `Slow` and
`Senders` are connections, and `None` is not one. None of these is inductive alone. `RegistryInv` adds what they rest on:

* `NetsAgree`: a dict belongs to the network of the connection that made it, and
  a handler only holds dicts of its own network; without it a leave could touch
  another network's room.
* `EntriesSound`: an entry is under the id its connection proved, in the dict its
  handler holds, and that handler is past its join; this is what makes the test
  `room.get(node_id) is ws` (`server.py:188`) mean *mine*, and gives
  `SuccessorSafe`.
* `FreshDicts`: the dict of a connection that has not joined is empty and known
  to nobody, so creating a room cannot overwrite one.
* `DisplacersKnowRoom`: a join that waits already holds its room.
* `KeysCover`: the insertion order lists every entry, so iterating over a dict
  meets all of them.

The proof has one lemma for a step that registers, one for a step that leaves
the registry alone, and one for a leave; every action is one of the three, or
one followed by sends.

`PresenceSettles` proves `PresenceExact` for any connections, ids, networks and slow
readers, from two hypotheses. `~Overlap`: an id comes back when its earlier handler
has left the room; it may still be sending its peer-leave. `Senders = {}`: nobody
relays. Neither can be left out, for the same reason: a connection that is no longer
in the room but whose socket is not closed holds up a peer-leave, and the peer-join
of the same id, which does not go there any more, overtakes it.

* With relays (`server_presence` with `Senders = {x1, y1}`) TLC finds it: a relay that
  fails ends a handler whose socket has yet to close, and a peer-leave is suspended
  on that socket.
* With `Overlap` four or five connections are too few (TLC finds nothing in 20
  million states); the argument fails with six, and TLC confirms the behaviour step
  by step: `x2` and `x3` wait for the old `x1` to close, `z1` announces itself and is
  suspended on `x1`, and its socket closes. When `x1` closes, `x2` registers, `z1`
  goes on, finds itself disconnected and sends its peer-leave, suspended on
  `x2`, a slow reader; then `x3` takes the entry of `x2` (`server.py:146`). `z2`, of the
  id of `z1`, joins and reaches `y1` at once; when `x2` has read, the
  peer-leave of `z1` reaches `y1` as well, which takes `z2` for absent.

What the proof shows is why broadcasts that suspend at every slow member
(`server.py:193`) still arrive in the right order. `PresenceInv` says:

* `KeysExact`, `InOrder`: every broadcast meets the members in the order of the dict,
  and a step never changes the order of two that stay (`EnrollRoster`,
  `LeaveRoster`), so one that waits at a member has exactly the later ones ahead.
* `Suspended`: a broadcast waits in one queue, on a member that keeps its entry
  until its socket has closed.
* `Farewells` (`GoesFirst`): a peer-leave under way is ahead of the peer-join of the
  same id at every member and in every queue. A peer-join sets out behind it
  (`AnnouncesBehind`): it stops at the member where the peer-leave waits, or earlier.
* `OneClosed`: the loop runs whoever can run before it takes in another event, so
  at most one closed socket is waited for. Without it two sends would resume at once and
  in any order, one of them past the other.
* `Stages`: a handler at work holds its entry; one that displaces is alone with its id.
* `Announced`, `Dismissed`: what a member has not heard is still coming to it; with
  nothing under way they are `PresenceComplete` and `PresenceSound`.

TLC was run on each conjunct before it was proved, with four and five connections
and one to three slow readers (7.7 million states).

`SessionProofs` proves five properties for any numbers of attempts and sockets, each
of `Session` (`Spec`) and, in a theorem of its own, of `BrowserSession` (`PageSpec`):

| property | of `Spec` | of `PageSpec` |
|---|---|---|
| `KeysAgree` | `KeysAlwaysAgree` | `PageKeysAgree` |
| `RequireHonoured` | `RequirementHonoured` | `PageRequirementHonoured` |
| `BothTrust` | `TrustIsMutual` | `PageTrustIsMutual` |
| `OpenLinkSettled` (of steps) | `OpenLinkKept` | `PageOpenLinkKept` |
| `ForgottenStaysOut` (of steps) | `ForgottenBeginsNothing` | `PageForgottenBeginsNothing` |

`SessionAssumption` says what may be in `mode` (a page does not require forward
secrecy, since it has no such setting). `KeysAgree` compares two ends that never see each other's state, and
what makes it true is how one offer travels. `KeyInv` follows it:

* `Unmade`: an attempt that has not offered yet is unknown to the answerer: no
  offer of its is queued, no live connection is bound to it.
* `OneOffer`: an attempt has one offer under way, and while it is, nobody is
  bound to it. An offer that came twice could be answered once with and once
  without ephemeral keys.
* `Sealed(p, q)`: `p`'s offer is behind it, `q` holds `p`'s ephemeral key, and if
  `q` is bound to `p` that was under ephemeral keys. This holds from the moment
  `q` is going to answer under ephemeral keys (`Answering`), while that answer is
  under way (`Answered`) and when the offerer has taken it (`Bound`).
* `Frames`, `Roles`: what is in whose inbox, and whose keys are whose.

Without `OneOffer` and `Unmade` none of the others is inductive: an answerer that
replaced its connection could be offered the same attempt again. `TrustInv`,
`RequireInv` and `LinkInv` say of one end what `BothTrust`, `RequireHonoured` and
`OpenLinkSettled` say of the session. A handler changes several connections
before it waits (a new `YawPeer`, then the box), so the invariant takes
connections, inboxes and the page's handlers of offers as parameters; there is a
lemma for each part, and `Effect` says what any step but `LinkUp` may do to a
connection, from which the action properties follow. `ForgottenStaysOut` of a
node whose user has forgotten the other needs that no box of the other, a
gathered description or a timer turns into a new attempt.

It also proves the offerer's half of `ClaimsHonest`, `OffererHonest`, which
`session_mix` checks: `OffererToldTrue`, of `Spec` and any environment, and
`PageOffererToldTrue`, of `PageSpec` where the answerer is a Python node
(`~Page["ans"]`). `session_fs` is whatever the last answer set it to, also one that the
connection is not bound to, so the proof is about the order of boxes
(`HonestInv`, which TLC found true of 3.2 million states of each before it
was proved). `KeyedFirst`: of the answers to an offer those under ephemeral keys
are queued before those under static ones. `NoneUnder`: once a connection is bound
under static keys, nothing under ephemeral keys is on its way to it. Both rest
on `OneOffer` and on `OneAtATime`: the answerer's pump waits for the handler of
an offer, and an answer goes only to an attempt that has offered.

`RosterProofs` proves `RosterExact` for any finite set of others and any number of
moves and faults. While the socket is up, `known` and `room` differ by the frames
that are queued: the last frame about an id says whether it is in the room, and
an id without a frame is known if and only if it is there (`FramesTell`).

`ReconnectProofs` proves `ConcExact` and `LimitsHold` for any finite set of
clients, any windows and any limits. `_allow_connection` and the frame limiter
count what they refuse too, so the windows of what was let through (`admitted`,
`relayed`) and of what was counted (`hist`, `times`) differ. `Limited` relates
them: the j-th newest of what was let through is no newer than the j-th newest
that was counted, or the latter has been dropped with the window, and is then
older than the window itself. From it follows that the `ConnMax + 1`-th
newest is out of the window. The counter of open connections is exact for ghosts
as well: a fault makes at most one, and what is refused is taken back at once.

`FileTransferProofs` proves, for any transfers, sizes and `Window`
(`FileAssumption`: they are natural numbers), the type invariant,
`DeliveredIntact` and `BufferBounded`. The invariant is `CountersOrdered`: `got`
<= `flushed` <= `sent` <= `Size`, and `sent` at most a chunk beyond `flushed +
Window`; `Finishes` is the lemma about `_maybe_finish_file`.

`BrowserTransferProofs` proves the same two for any mixture of pages and Python
nodes, `PageHolds` where no user sends before the channel is open (`~Early`:
otherwise it is false, see `browser_send_early`), and that `BrowserTransfer`
implements `FileService` (`PagesServe`). The refinement needs to know that a request is in one place at a time
(`OnePlace`: asked, being read, refused or offered), each message queued once
(`Channels`), and that it is still open at the receiver while it is anywhere
(`Open`); then `View`, which reads the state of a transfer off where its messages
are, changes by one step of the service or not at all. Every step of the two
programs, and `Cut`, is mapped to the step of `FileService` that it is: looking,
answering, losing.

`HomeProofs` proves, for any contacts, identities and number of kills
(`HomeAssumption`: no file and an empty file are not identities), `HomeTypeOK`,
`ToldIsKept`, `ACopyRemains` and `SameIdentity`. `KeyringInv` adds to `ToldIsKept` that a running
peer agrees with the user as well, that a save has taken back what it is about
to change, and that an import that broke off leaves more in memory than in the
file, never less: without the last a contact that is "not in keyring" could be in
the file. `IdentityInv` counts losses: a file that nobody is about to write costs
a kill, both cost two, and while the identity file is empty there is a backup,
since only `/import` empties it after the first start. `PromiseInv` adds that a
whole identity file is the promised one.

`MCHomeProofs` proves what the `home` run says of several programs on one keyring
and of a page's seed, for any programs, contacts, seeds and bounds: `KeyringShared`,
`SeedKept` and `OwnOrRestored`, from `PartsAssumption`, which states the assumptions
of the parts. The same module proves the two of the shared folder. For a keyring, `TurnInv` is about programs
that take turns (what the one that saves writes is what it holds, in a temporary
file of its own) and `DropInv` about peers that run at once: a temporary file
holds only what its writers hold, and a contact that nobody holds is in the
keyring only while a save is under way. For a seed, `Queued` says that the
page's own load is ahead of whatever Connect and Restore call, so that nothing is minted after
a restore was promised; `Kept` where the identity in use is stored, `Owner` that a
page which was opened with an identity saves only what its user restores.

Of a shared folder, `Confined` (`OnlyTheFolderIsGiven`) holds of any file system
and any typed paths. `ClickLeads` and `FolderServed` are proved for any folder
whose names have no backslashes and no outer blanks (`PlainNames`), which the run's
folder fulfils; without it they are false, as `share_odd_names` shows of a listed
file. `ShareAssumption` says of a file system that names are not empty and that
what lies in something lies in a folder. The argument has two halves. One is
about the operators: a path to a place of the folder comes out of `Parts` and of
`Inner` as it went in (`PartsOfPlace`, `InnerOfPlace`), leads to itself
(`RealOfPlace`) and lists its rows (`ListingOfPlace`, `KeyRow`). The other is the
invariant `FolderInv`: a visitor who clicks gets nowhere but to places that the host
shows (`Walks`), which keep their kind whatever becomes of the folder; and what
is not out of date is as the folder is (`Fresh`), since every change marks the
panel and all requests. `TreeShape` (every prefix of a path in the tree is in it) and
`FlattenSingles` need induction. The library's theorems for that take a
predicate as a parameter; `Induction` takes a set, and is proved from
`LeastNumber`, which follows from finite sets being well-founded by inclusion.

Only model-checked are

* `ClaimsHonest` of the answerer, and of both ends if the answerer is a page: it
  is false of the model for all constants (section 4; a page that lost its socket
  gets offers of two attempts and answers them in either order, with the
  description of the later one) and holds of the environments that the run names;
* the liveness properties (`HandlersFinish`, `JoinCompletes`, `Meet`,
  `LinkReached`, `Recovers`, `PageAnswered`, `EachLinked`), which are out of the
  prover's reach, as is ENABLED.

## 6. Not modelled

Cryptography (a box opens for the right keys, a signature is valid or not),
the content of SDP, JSON and hex validation, logging and terminal output. Nicknames and
caps, which never decide anything; the prompt for an untrusted id; what a page
draws; chat lines; `diagnose.py`, which prints
candidates and ends. `greet_bot.py` is an application that sends lines over an open
link; two things follow from the code it rests on: a greeting whose link is lost within
its delay is never repeated (`greet_bot.py:120`), and `Node._on_leave` emits no event, so
that what the bot and `spike_peer.py` do on one (`greet_bot.py:132`, `spike_peer.py:124`)
never runs. `file-cancel` (docs/yaw2.0-protocol.md:278)
does not exist in the code. Key backup and the protocol vectors are pure
encodings; configuration, admin tool, desktop shell and deployment keep no state
of their own; libsodium is vendored.

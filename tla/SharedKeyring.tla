---------------------------- MODULE SharedKeyring ----------------------------
(***************************************************************************)
(* The keyring of a user who runs more than one program: tabs of the page, *)
(* whose Keyring (web/yaw2.js) is in the localStorage of its origin, or    *)
(* Python peers, whose Keyring (cli/yaw2/keyring.py) is in the user's      *)
(* home.  Each program loads it once and then saves all of what it has in  *)
(* memory.  A page saves at once; a peer opens a temporary file, always    *)
(* the same, writes it and renames it.  Home has one peer, and crashes.    *)
(***************************************************************************)
EXTENDS FiniteSets

CONSTANTS
  Programs,
  Ids        \* contacts

VARIABLES
  page,      \* are they tabs, or Python peers?  Fixed at the start, like
  together,  \* may two of them run at once?
  ring,  \* what the next program to start finds
  tmp,   \* is there a temporary file?
  text,  \* what its inode holds
  at,    \* a program: "off", "ready", or saving: "opened", "written"
  file,  \* the inode it has open: of the temporary file, of the keyring, or lost
  mem,   \* its contacts
  cmd,   \* the contacts its user's command is about
  yes, no  \* contacts that a user was told are trusted, are not

vars == <<page, together, ring, tmp, text, at, file, mem, cmd, yes, no>>
disk == <<ring, tmp, text>>
setting == <<page, together>>
told == <<yes, no>>

TypeOK ==
  /\ {ring, text, yes, no} \subseteq SUBSET Ids /\ {tmp, page, together} \subseteq BOOLEAN
  /\ at \in [Programs -> {"off", "ready", "opened", "written"}]
  /\ file \in [Programs -> {"none", "tmp", "ring", "lost"}]
  /\ {mem[p] : p \in Programs} \cup {cmd[p] : p \in Programs} \subseteq SUBSET Ids

Init ==
  /\ page \in BOOLEAN /\ together \in BOOLEAN
  /\ ring \in SUBSET Ids /\ tmp = FALSE /\ text = {}
  /\ at = [p \in Programs |-> "off"] /\ file = [p \in Programs |-> "none"]
  /\ mem = [p \in Programs |-> {}] /\ cmd = [p \in Programs |-> {}]
  /\ yes = {} /\ no = {}

Running == {p \in Programs : at[p] # "off"}

\* Keyring.constructor, Keyring.__init__
Start_Empty(p) ==   \* mutant: the keyring is read when it is first asked for
  /\ at[p] = "off" /\ (together \/ Running = {})
  /\ at' = [at EXCEPT ![p] = "ready"] /\ mem' = [mem EXCEPT ![p] = {}]
  /\ UNCHANGED <<disk, file, cmd, told>>
Start(p) ==
  /\ at[p] = "off" /\ (together \/ Running = {})
  /\ at' = [at EXCEPT ![p] = "ready"] /\ mem' = [mem EXCEPT ![p] = ring]
  /\ UNCHANGED <<disk, file, cmd, told>>

Quit(p) ==
  /\ at[p] = "ready" /\ at' = [at EXCEPT ![p] = "off"]
  /\ UNCHANGED <<disk, file, mem, cmd, told>>

Tell(ids, m) == yes' = (yes \ ids) \cup (ids \cap m) /\ no' = (no \ ids) \cup (ids \ m)
Unsay(ids) == yes' = yes \ ids /\ no' = no \ ids

\* The page's _save: setItem puts the whole of it in place, and the user is told.
PageSaves(p, ids, m) ==
  /\ page /\ ring' = m /\ Tell(ids, m)
  /\ UNCHANGED <<tmp, text, at, file, cmd>>

\* setItem raises, for want of space: the user sees an error.
PageSaveRaises(ids) == page /\ Unsay(ids) /\ UNCHANGED <<disk, at, file, cmd>>

\* Python _save, open(tmp, "w"): an inode that another has open is cut short.
Opens(p, ids) ==
  /\ ~page /\ at' = [at EXCEPT ![p] = "opened"] /\ file' = [file EXCEPT ![p] = "tmp"]
  /\ cmd' = [cmd EXCEPT ![p] = ids]
  /\ tmp' = TRUE /\ text' = {}
  /\ Unsay(ids) /\ UNCHANGED ring

\* accept, remove and rename, importContacts: memory first, then _save.
Changes(p, ids, m) ==
  /\ at[p] = "ready" /\ mem' = [mem EXCEPT ![p] = m]
  /\ PageSaves(p, ids, m) \/ PageSaveRaises(ids) \/ Opens(p, ids)

Accept(p, i) == Changes(p, {i}, mem[p] \cup {i})
\* A page saves also if it has no such contact.
Remove(p, i) == (page \/ i \in mem[p]) /\ Changes(p, {i}, mem[p] \ {i})
Import(p, ids) == Changes(p, ids, mem[p] \cup ids)

\* An entry that is not a contact raises after those of ids; nothing is saved.
ImportRaises(p, ids) ==
  /\ at[p] = "ready" /\ mem' = [mem EXCEPT ![p] = @ \cup ids]
  /\ no' = no \ ids
  /\ UNCHANGED <<disk, at, file, cmd, yes>>

\* Both write from the beginning of one inode, lines of any length: the end of
\* what was there may stay.
Over(old, new) ==
  {new \cup rest : rest \in IF {} \in {old, new} THEN {old} ELSE SUBSET old \ {old}}

Write(p) ==
  /\ at[p] = "opened" /\ at' = [at EXCEPT ![p] = "written"]
  /\ IF file[p] = "tmp" THEN text' \in Over(text, mem[p]) ELSE UNCHANGED text
  /\ IF file[p] = "ring" THEN ring' \in Over(ring, mem[p]) ELSE UNCHANGED ring
  /\ UNCHANGED <<tmp, file, mem, cmd, told>>

\* os.replace: who has the inode open now has that of the keyring.
Replace(p) ==
  /\ at[p] = "written" /\ tmp
  /\ tmp' = FALSE /\ ring' = text /\ text' = {}
  /\ at' = [at EXCEPT ![p] = "ready"]
  /\ file' = [q \in Programs |-> IF q = p THEN "none"
                                 ELSE IF file[q] = "tmp" THEN "ring"
                                 ELSE IF file[q] = "ring" THEN "lost" ELSE file[q]]
  /\ Tell(cmd[p], mem[p])
  /\ UNCHANGED <<mem, cmd>>

\* Another has renamed the file: FileNotFoundError, which ends the peer.
ReplaceRaises(p) ==
  /\ at[p] = "written" /\ ~tmp
  /\ at' = [at EXCEPT ![p] = "off"] /\ file' = [file EXCEPT ![p] = "none"]
  /\ UNCHANGED <<disk, mem, cmd, told>>

Next ==
  /\ UNCHANGED setting
  /\ \E p \in Programs :
       \/ Start(p) \/ Quit(p) \/ Write(p) \/ Replace(p) \/ ReplaceRaises(p)
       \/ \E i \in Ids : Accept(p, i) \/ Remove(p, i)
       \/ \E ids \in SUBSET Ids : Import(p, ids) \/ ImportRaises(p, ids)

Spec == Init /\ [][Next]_vars

-----------------------------------------------------------------------------
(* Properties. *)

\* What the user was told of a contact, and has not asked to change since, is
\* what the next program finds: whatever saves and imports failed before, and
\* whichever program it was said by, if no two ever run at once.
ToldIsKept == yes \subseteq ring /\ no \cap ring = {}
TurnsKeep == ~together => ToldIsKept

\* When no peer is saving, every trusted contact is in what some peer has in
\* memory, or had when it last quit: the saves of two may undo each other, but
\* bring back nobody who is in none of these.
NoGhosts ==
  ~page /\ Running # {} /\ (\A p \in Programs : at[p] \in {"off", "ready"}) =>
    ring \subseteq UNION {mem[p] : p \in Programs}

\* A command of one program does not end another.  (Two peers of one home that
\* save at once do not have it.)
SavesSucceed == \A p \in Programs : at[p] = "written" => tmp
=============================================================================

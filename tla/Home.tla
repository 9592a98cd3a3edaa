-------------------------------- MODULE Home --------------------------------
(***************************************************************************)
(* The files of the command-line peer: ~/.yaw/keyring (Keyring of          *)
(* cli/yaw2/keyring.py), ~/.yaw/identity and one backup *.yawkey (the      *)
(* commands of cli/spike_peer.py, and cli/export_key.py, which runs beside *)
(* it).  The program may be killed between any two system calls.           *)
(*                                                                         *)
(* A contact is in or out, nicknames are left out.  open(_, "w") empties a *)
(* file, close writes it: both programs hold less than a buffer.  A file   *)
(* that is not there yet is an empty keyring, or the identity None.        *)
(***************************************************************************)
EXTENDS Naturals

CONSTANTS
  Ids,         \* contacts
  Seeds,       \* identities
  None, Empty, \* no file, and one that was opened and not written
  MaxCrashes   \* bound: kills of either program

ASSUME HomeAssumption ==
  /\ None \notin Seeds /\ Empty \notin Seeds /\ None # Empty
  /\ MaxCrashes \in Nat

VARIABLES
  (* files *)
  ring, tmp,       \* the keyring and its temporary file
  idfile, backup,  \* the identity and the backup
  (* the peer: one process, or none, for this home *)
  pc,              \* "off", "ready" for a command, or what it is inside of
  mem,             \* Keyring.names
  me,              \* the identity it runs with
  cmd,             \* the contacts the command is about
  seed,            \* the identity /import found in the backup
  (* export_key.py *)
  xp, xseed,
  (* what the user was told *)
  yes, no,         \* contacts that are trusted, that are not
  promised,        \* the identity the next start has
  crashes

keyring == <<ring, tmp, mem, cmd, yes, no>>
identity == <<idfile, backup, me, seed, promised>>
export == <<xp, xseed>>
vars == <<keyring, identity, export, pc, crashes>>

HomeTypeOK ==
  /\ ring \subseteq Ids /\ tmp \subseteq Ids /\ mem \subseteq Ids /\ cmd \subseteq Ids
  /\ {idfile, backup} \subseteq Seeds \cup {None, Empty}
  /\ {me, seed, xseed, promised} \subseteq Seeds \cup {None}
  /\ pc \in {"off", "minting", "ready", "opened", "written", "restoring", "exporting"}
  /\ xp \in {"off", "asking", "writing"}
  /\ yes \subseteq Ids /\ no \subseteq Ids
  /\ crashes \in 0..MaxCrashes

\* A home without a peer in it yet, and perhaps a backup from another client.
Init ==
  /\ ring = {} /\ tmp = {} /\ mem = {} /\ cmd = {} /\ yes = {} /\ no = {}
  /\ idfile = None /\ backup \in Seeds \cup {None}
  /\ me = None /\ seed = None /\ promised = None
  /\ xp = "off" /\ xseed = None
  /\ pc = "off" /\ crashes = 0

-----------------------------------------------------------------------------
(* load_identity and Keyring.__init__. *)

LoadKeyring == mem' = ring /\ UNCHANGED <<ring, tmp, cmd, yes, no>>

\* A first start: the file is opened with the new identity in memory only.
Mint ==
  /\ pc = "off" /\ idfile = None
  /\ \E s \in Seeds \ {backup} : me' = s
  /\ idfile' = Empty /\ pc' = "minting"
  /\ UNCHANGED <<keyring, backup, seed, promised, export, crashes>>

Minted ==
  /\ pc = "minting"
  /\ idfile' = me /\ promised' = me /\ pc' = "ready"
  /\ LoadKeyring
  /\ UNCHANGED <<backup, me, seed, export, crashes>>

\* An empty identity file raises: the peer does not start.
Start_Fresh ==   \* mutant: the file is not looked for
  /\ pc = "off" /\ idfile # None
  /\ \E s \in Seeds : me' = s /\ promised' = s /\ idfile' = s
  /\ pc' = "ready"
  /\ LoadKeyring
  /\ UNCHANGED <<backup, seed, export, crashes>>
Start_Unread ==   \* mutant: what the file holds is not checked
  /\ pc = "off" /\ idfile # None
  /\ me' = idfile /\ promised' = idfile /\ pc' = "ready"
  /\ LoadKeyring
  /\ UNCHANGED <<idfile, backup, seed, export, crashes>>
Start ==
  /\ pc = "off" /\ idfile \in Seeds
  /\ me' = idfile /\ promised' = idfile /\ pc' = "ready"
  /\ LoadKeyring
  /\ UNCHANGED <<idfile, backup, seed, export, crashes>>

-----------------------------------------------------------------------------
(* Keyring: a change in memory, then _save. *)

\* The contacts ids change, m are trusted now, and the temporary file is open.
Change_InPlace(ids, m) ==   \* mutant: the keyring itself is opened
  /\ pc = "ready" /\ pc' = "opened"
  /\ mem' = m /\ cmd' = ids
  /\ yes' = yes \ ids /\ no' = no \ ids
  /\ tmp' = {} /\ ring' = {}
  /\ UNCHANGED <<identity, export, crashes>>
Change(ids, m) ==
  /\ pc = "ready" /\ pc' = "opened"
  /\ mem' = m /\ cmd' = ids
  /\ yes' = yes \ ids /\ no' = no \ ids
  /\ tmp' = {}
  /\ UNCHANGED <<ring, identity, export, crashes>>

\* A contact that is trusted already gets a nickname: accept or rename.
Accept(i) == Change({i}, mem \cup {i})

Remove(i) ==
  \/ i \in mem /\ Change({i}, mem \ {i})
  \/ /\ pc = "ready" /\ i \notin mem   \* "not in keyring"
     /\ no' = no \cup {i}
     /\ UNCHANGED <<ring, tmp, mem, cmd, yes, identity, export, pc, crashes>>

ImportContacts(S) == Change(S, mem \cup S)

\* An entry raises after those of S: "import failed", nothing is saved.
ImportRaises(S) ==
  /\ pc = "ready"
  /\ mem' = mem \cup S
  /\ no' = no \ S
  /\ UNCHANGED <<ring, tmp, cmd, yes, identity, export, pc, crashes>>

Write ==
  /\ pc = "opened" /\ pc' = "written"
  /\ tmp' = mem
  /\ UNCHANGED <<ring, mem, cmd, yes, no, identity, export, crashes>>

\* os.replace, and the answer to the user.
Replace ==
  /\ pc = "written" /\ pc' = "ready"
  /\ ring' = tmp /\ tmp' = {}
  /\ yes' = yes \cup (cmd \cap mem) /\ no' = no \cup (cmd \ mem)
  /\ UNCHANGED <<mem, cmd, identity, export, crashes>>

-----------------------------------------------------------------------------
(* /import and /export of the peer. *)

\* A backup can be decrypted, an identity read: the file is not cut short.
Whole(s) == s \in Seeds

\* The backup is decrypted before the identity is opened; the peer goes on
\* under its old one.
ImportKey_Early ==   \* mutant: opened first
  /\ pc = "ready"
  /\ idfile' = Empty
  /\ IF Whole(backup) THEN seed' = backup /\ pc' = "restoring" ELSE UNCHANGED <<seed, pc>>
  /\ UNCHANGED <<keyring, backup, me, promised, export, crashes>>
ImportKey ==
  /\ pc = "ready" /\ Whole(backup)
  /\ seed' = backup /\ idfile' = Empty /\ pc' = "restoring"
  /\ UNCHANGED <<keyring, backup, me, promised, export, crashes>>

ImportedKey ==
  /\ pc = "restoring" /\ pc' = "ready"
  /\ idfile' = seed /\ promised' = seed /\ seed' = None
  /\ UNCHANGED <<keyring, backup, me, export, crashes>>

\* The file is opened before the identity in use is encrypted.
ExportKey ==
  /\ pc = "ready" /\ pc' = "exporting"
  /\ backup' = Empty
  /\ UNCHANGED <<keyring, idfile, me, seed, promised, export, crashes>>

ExportedKey ==
  /\ pc = "exporting" /\ pc' = "ready"
  /\ backup' = me
  /\ UNCHANGED <<keyring, idfile, me, seed, promised, export, crashes>>

-----------------------------------------------------------------------------
(* export_key.py: the identity is read, then a passphrase is asked for. *)

XRead ==
  /\ xp = "off" /\ idfile \in Seeds
  /\ xp' = "asking" /\ xseed' = idfile
  /\ UNCHANGED <<keyring, identity, pc, crashes>>

XOpen ==
  /\ xp = "asking" /\ xp' = "writing"
  /\ backup' = Empty
  /\ UNCHANGED <<keyring, idfile, me, seed, promised, xseed, pc, crashes>>

XWrite ==
  /\ xp = "writing" /\ xp' = "off"
  /\ backup' = xseed /\ xseed' = None
  /\ UNCHANGED <<keyring, idfile, me, seed, promised, pc, crashes>>

XAborts ==   \* an empty passphrase, or two that differ
  /\ xp = "asking" /\ xp' = "off" /\ xseed' = None
  /\ UNCHANGED <<keyring, identity, pc, crashes>>

-----------------------------------------------------------------------------
(* The end of a program: the user leaves the peer, or it is killed. *)

Forgets == pc' = "off" /\ mem' = {} /\ cmd' = {} /\ me' = None /\ seed' = None

Quit ==
  /\ pc = "ready" /\ Forgets
  /\ UNCHANGED <<ring, tmp, yes, no, idfile, backup, promised, export, crashes>>

Killed ==
  /\ pc \notin {"off", "ready"} /\ crashes < MaxCrashes
  /\ Forgets /\ crashes' = crashes + 1
  /\ UNCHANGED <<ring, tmp, yes, no, idfile, backup, promised, export>>

XKilled ==
  /\ xp # "off" /\ crashes < MaxCrashes
  /\ xp' = "off" /\ xseed' = None /\ crashes' = crashes + 1
  /\ UNCHANGED <<keyring, identity, pc>>

Commands ==
  \/ \E i \in Ids : Accept(i) \/ Remove(i)
  \/ \E S \in SUBSET Ids : ImportContacts(S) \/ ImportRaises(S)
  \/ ImportKey \/ ExportKey

Next ==
  \/ Mint \/ Minted \/ Start \/ Commands
  \/ Write \/ Replace \/ ImportedKey \/ ExportedKey
  \/ XRead \/ XOpen \/ XWrite \/ XAborts
  \/ Quit \/ Killed \/ XKilled

Spec == Init /\ [][Next]_vars

-----------------------------------------------------------------------------
(* Properties. *)

\* What the user was told of a contact, and has not asked to change since, is
\* what the next start finds, whenever the peer was killed and however imports
\* broke off before.
ToldIsKept == yes \subseteq ring /\ no \cap ring = {}

\* A run has the identity of the run before, or the one /import said it had
\* restored.
SameIdentity ==
  [][pc' = "ready" /\ pc \in {"off", "minting"} /\ promised # None
       => me' = promised /\ promised' = promised]_vars

\* After any one kill an identity is on the disk, or a program that still runs
\* is about to write one, although both files are emptied before they are
\* written and export_key.py runs beside the peer.
ACopyRemains ==
  promised # None /\ crashes <= 1 =>
    \/ Whole(idfile) \/ Whole(backup)
    \/ pc \in {"restoring", "exporting"} \/ xp = "writing"
=============================================================================

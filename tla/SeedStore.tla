------------------------------ MODULE SeedStore ------------------------------
(***************************************************************************)
(* Where the page keeps the seed of its identity: seedGet, seedSet and     *)
(* Identity of web/yaw2.js, the handlers of web/index.html that call them, *)
(* and the keychain commands of desktop/src-tauri/src/lib.rs.              *)
(*                                                                         *)
(* Three tasks of a page load or save the seed: the one that runs when the *)
(* page opens, the click on Connect, and Restore key.  Each waits for the  *)
(* keychain, which serves the calls in order, in the desktop app; a plain  *)
(* browser has localStorage alone, and its microtasks keep the order too.  *)
(***************************************************************************)
EXTENDS Naturals, Sequences

CONSTANTS
  Seeds,      \* identities
  Backups,    \* those in backup files the user has; the others can be minted
  MaxFaults,  \* bound: calls of the keychain that fail
  None

SeedAssumption == Backups \subseteq Seeds /\ None \notin Seeds /\ MaxFaults \in Nat

VARIABLES
  desktop,   \* inTauri
  keychain,  \* the entry `seed` of the service `yaw`, or None
  local,     \* localStorage's yaw2_seed, or None
  calls,     \* the calls not served yet, in order
  ident,     \* the page's identity, or None
  told,      \* the identity the page last told the user is restored, or None
  owned,     \* the one stored when the page was opened, or None: none was, or
             \* one was being saved
  cleared,   \* have the app's browsing data been cleared?
  faults

vars == <<desktop, keychain, local, calls, ident, told, owned, cleared, faults>>

Tasks == {"open", "join", "restore"}
\* page: does the page that made the call still wait for it?
Call == [task : Tasks, op : {"load", "save"}, seed : Seeds \cup {None}, page : BOOLEAN]

TypeOK ==
  /\ {desktop, cleared} \subseteq BOOLEAN /\ calls \in Seq(Call) /\ faults \in 0..MaxFaults
  /\ {keychain, local, ident, told, owned} \subseteq Seeds \cup {None}

Load(t) == [task |-> t, op |-> "load", seed |-> None, page |-> TRUE]
Save(t, s) == [task |-> t, op |-> "save", seed |-> s, page |-> TRUE]

Init ==
  /\ desktop \in BOOLEAN /\ keychain = None /\ local = None
  /\ calls = <<Load("open")>>
  /\ ident = None /\ told = None /\ owned = None /\ cleared = FALSE /\ faults = 0

\* seedGet, when the keychain answers (ok) or fails.
Lookup(ok) == IF desktop /\ ok /\ keychain # None THEN keychain ELSE local

Busy(t) == \E k \in DOMAIN calls : calls[k].task = t /\ calls[k].page

\* Connect loads the identity again; Restore key saves one from a backup file.
Connect ==
  /\ ~Busy("join")
  /\ calls' = Append(calls, Load("join"))
  /\ UNCHANGED <<desktop, keychain, local, ident, told, owned, cleared, faults>>
Restore(s) ==
  /\ ~Busy("restore")
  /\ calls' = Append(calls, Save("restore", s))
  /\ UNCHANGED <<desktop, keychain, local, ident, told, owned, cleared, faults>>

Succeeds(ok) ==
  /\ ~ok => desktop /\ faults < MaxFaults
  /\ faults' = IF ok THEN faults ELSE faults + 1

Minted == {keychain, local, ident, told, owned} \cup {calls[k].seed : k \in DOMAIN calls}

\* Mutants: what was found is not looked at; the minted seed is not saved.
Loaded_Unsaved(t, found) ==
  /\ calls' = Tail(calls)
  /\ IF found # None THEN ident' = found
     ELSE \E s \in Seeds \ (Backups \cup Minted) : ident' = s
\* Identity.load goes on: it found a seed, or mints and saves one.
Loaded(t, found) ==
  \/ /\ found # None
     /\ ident' = found /\ calls' = Tail(calls)
  \/ /\ found = None
     /\ \E s \in Seeds \ (Backups \cup Minted) : calls' = Append(Tail(calls), Save(t, s))
     /\ UNCHANGED ident

ServeLoad(ok) ==
  /\ calls # <<>> /\ Head(calls).op = "load" /\ Succeeds(ok)
  /\ IF Head(calls).page THEN Loaded(Head(calls).task, Lookup(ok))
     ELSE calls' = Tail(calls) /\ UNCHANGED ident
  /\ UNCHANGED <<desktop, keychain, local, told, owned, cleared>>

\* seedSet: the keychain, or localStorage if that fails and the page is there.
Put_Local(s, ok, page) ==   \* mutant: the keychain is read, never written
  local' = (IF page THEN s ELSE local) /\ UNCHANGED keychain
Put(s, ok, page) ==
  /\ keychain' = IF desktop /\ ok THEN s ELSE keychain
  /\ local' = IF ~(desktop /\ ok) /\ page THEN s ELSE local

ServeSave(ok) ==
  LET c == Head(calls)
  IN /\ calls # <<>> /\ c.op = "save" /\ Succeeds(ok)
     /\ Put(c.seed, ok, c.page)
     /\ calls' = Tail(calls)
     /\ ident' = IF c.page THEN c.seed ELSE ident
     /\ told' = IF c.page /\ c.task = "restore" THEN c.seed ELSE told
     /\ UNCHANGED <<desktop, owned, cleared>>

\* The window is reloaded or the app started anew.  Calls of the keychain are
\* still served, but nobody waits for them; microtasks have run.
Reload ==
  /\ desktop \/ calls = <<>>
  /\ calls' = Append([k \in DOMAIN calls |-> [calls[k] EXCEPT !.page = FALSE]], Load("open"))
  /\ Len(calls) <= 2   \* bound
  /\ ident' = None /\ told' = None
  /\ owned' = IF \E k \in DOMAIN calls : calls[k].op = "save" THEN None ELSE Lookup(TRUE)
  /\ UNCHANGED <<desktop, keychain, local, cleared, faults>>

\* In a plain browser this erases the identity, as KEYHANDLING.md says.
ClearData ==
  /\ desktop /\ local' = None /\ cleared' = TRUE
  /\ UNCHANGED <<desktop, keychain, calls, ident, told, owned, faults>>

Next ==
  \/ Connect \/ (\E s \in Backups : Restore(s)) \/ Reload \/ ClearData
  \/ \E ok \in BOOLEAN : ServeLoad(ok) \/ ServeSave(ok)

Spec == Init /\ [][Next]_vars

-----------------------------------------------------------------------------
(* Properties. *)

Quiet == calls = <<>>
Answers == faults = 0   \* the keychain has answered every call

\* Whatever loads, saves, restores, reloads and clearings were under way at
\* once, the identity the page ends up with is the one the next start finds.
NextStartSame == Answers /\ Quiet /\ ident # None => ident = Lookup(TRUE)

\* However often the keychain fails, the identity in use is stored somewhere,
\* until the user clears the data.
SavedSomewhere == ~cleared /\ Quiet /\ ident # None => ident \in {keychain, local}

\* "A fresh client mints its own new identity": one that is not fresh has its
\* own or a restored one, while the keychain answers.
FreshMints == owned # None => Lookup(TRUE) \in {owned} \cup Backups
OnlyFreshMints == Answers => FreshMints

\* "identity restored - reconnect to use it": the next load finds it, if the
\* page was opened with an identity stored and the keychain answers.
Restored == Quiet /\ told # None => Lookup(TRUE) = told
RestoreStays == Answers /\ owned # None => Restored

\* "desktop app - your key is stored in the OS keychain."  A call that fails
\* makes it untrue.
InKeychain == desktop /\ Quiet /\ ident # None => keychain = ident
=============================================================================

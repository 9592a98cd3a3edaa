------------------------------- MODULE MCHome -------------------------------
(***************************************************************************)
(* What the programs of one user keep, for TLC: the files of a Python peer *)
(* (Home), the seed of a page (SeedStore), a keyring that two programs use *)
(* (SharedKeyring) and a shared folder (ShareTree).  They share no state:  *)
(* a behaviour is one of one of the four, the other three rest.            *)
(***************************************************************************)
EXTENDS Home, TLC

CONSTANTS
  PageSeeds, Backups, MaxFaults,  \* of SeedStore
  Programs, Contacts,             \* of SharedKeyring
  Names, Hidden, Places, LinkTo, Split, LTrim, RTrim, Unreadable, Typed, Outside, MaxAsks  \* of ShareTree

VARIABLES
  part,  \* which of the four
  desktop, keychain, local, calls, ident, told, owned, cleared, faults,
  page, together, shared, temp, text, at, file, memory, about, sure, never,
  host, visitor, tree, asks, view, got, silent

Store == INSTANCE SeedStore WITH Seeds <- PageSeeds
Ring == INSTANCE SharedKeyring WITH
  Ids <- Contacts, ring <- shared, tmp <- temp, mem <- memory, cmd <- about, yes <- sure, no <- never

Folder == INSTANCE ShareTree

ASSUME PartsAssumption == Store!SeedAssumption /\ Folder!ShareAssumption

MCInit ==
  /\ part \in {"home", "store", "ring", "folder"}
  /\ Init /\ (part # "home" => backup = None)
  /\ Store!Init /\ (part # "store" => ~desktop)
  /\ Ring!Init /\ (part # "ring" => page /\ together /\ shared = {})
  /\ Folder!Init /\ (part # "folder" => host = "page" /\ visitor = "page" /\ DOMAIN tree = {<<>>})

store == <<desktop, keychain, local, calls, ident, told, owned, cleared, faults>>
rings == <<page, together, shared, temp, text, at, file, memory, about, sure, never>>
folder == <<host, visitor, tree, asks, view, got, silent>>

MCNext ==
  /\ UNCHANGED part
  /\ \/ part = "home" /\ Next /\ UNCHANGED <<store, rings, folder>>
     \/ part = "store" /\ Store!Next /\ UNCHANGED <<vars, rings, folder>>
     \/ part = "ring" /\ Ring!Next /\ UNCHANGED <<vars, store, folder>>
     \/ part = "folder" /\ Folder!Next /\ UNCHANGED <<vars, store, rings>>

MCSpec == MCInit /\ [][MCNext]_<<part, vars, store, rings, folder>>

\* A file, a folder with one, a symlink to it and one that leaves the share.
FewNames == {"", "a", "d", "l", "o", ".h", ".."}
FewPlaces ==
  <<>> :> "dir" @@ <<"d">> :> "dir" @@ <<"d", "a">> :> "file" @@ <<"l">> :> "link"
  @@ <<"o">> :> "link" @@ <<".h">> :> "file"
FewLinks == "l" :> <<"d">> @@ "o" :> <<Outside>>
FewTyped ==
  {<<"d", "", "">>, <<"", "a">>, <<"..", "a">>, <<"d", "", "a">>, <<"l", "a">>, <<"o">>, <<"o", "a">>}
Unsplit == [n \in FewNames |-> <<n>>]
Untrimmed == [n \in FewNames |-> n]

Symmetry == Permutations(Ids) \cup Permutations(Seeds)

-----------------------------------------------------------------------------
(* What the other three promise. *)

\* The identity a page ends up with is the one its next start finds, and is
\* stored somewhere however often the keychain fails.
SeedKept == Store!TypeOK /\ Store!NextStartSame /\ Store!SavedSomewhere

\* A page that is not fresh mints nothing over its identity, and a restored one
\* stays, whatever loads and saves were under way at once.
OwnOrRestored == Store!OnlyFreshMints /\ Store!RestoreStays

\* What one program told the user of a contact is what the next one finds; two
\* at once bring no contact back that both have dropped.
KeyringShared == Ring!TypeOK /\ Ring!TurnsKeep /\ Ring!NoGhosts

\* A row of the panel leads to what it names while the folder is as listed.
ClickLeads == Folder!TypeOK /\ Folder!ClickLeads

\* A visitor is given what lies in the folder and shown neither dotfiles nor
\* symlinks of a Python node; a page shows and serves the same plain folder.
FolderServed == Folder!Confined /\ Folder!PythonOmits /\ Folder!HostsAgree
=============================================================================

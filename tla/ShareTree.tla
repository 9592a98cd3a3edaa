------------------------------ MODULE ShareTree ------------------------------
(***************************************************************************)
(* A shared folder and a visitor who walks it: FileShare                   *)
(* (cli/yaw2/fileshare.py) or the share map of a page (_listShare of       *)
(* web/yaw2.js) at the host, the browse panel of web/index.html or a typed *)
(* path at the visitor.  Messages are in order; links and transfers are    *)
(* FileTransfer's.                                                         *)
(*                                                                         *)
(* A path is the sequence of its names, as "/" separates them: "/a" is     *)
(* <<"", "a">>.  Outside is the name of the world beyond the folder.       *)
(***************************************************************************)
EXTENDS Naturals, SequencesExt

CONSTANTS
  Names, Hidden,  \* those that begin with ".", ".." among them
  Places,         \* what may be in the folder: each path's kind
  LinkTo,         \* where a symlink of a name leads, by its real path
  Split,          \* what a name is without backslashes
  LTrim, RTrim,   \* what it is without blanks at its beginning, at its end
  Unreadable,     \* paths of files that open() refuses
  Typed,          \* paths a user may type
  Outside,
  MaxAsks         \* bound: requests under way

Paths == DOMAIN Places

\* A file system: names are not empty, and what is in something is in a folder.
ShareAssumption ==
  /\ Hidden \subseteq Names /\ Outside \notin Names /\ MaxAsks \in Nat
  /\ Split \in [Names -> Seq(Names)] /\ {LTrim, RTrim} \subseteq [Names -> Names] /\ Typed \subseteq Seq(Names)
  /\ Places \in [Paths -> {"dir", "file", "link"}]
  /\ <<>> \in Paths /\ Places[<<>>] = "dir" /\ \A p \in Paths : p \in Seq(Names \ {""})
  /\ \A p \in Paths : \A k \in 0 .. Len(p) - 1 :
       SubSeq(p, 1, k) \in Paths /\ Places[SubSeq(p, 1, k)] = "dir"

VARIABLES
  host,    \* "python" or "page", fixed at the start
  visitor, \* "page", whose user clicks, or "cli", whose user types paths
  tree,    \* what is in the folder, or what a page's user picked
  asks,    \* requests on their way
  view,    \* the panel; `still`: the folder is as it was when it was listed
  got,     \* the real paths of files the visitor was given
  silent   \* has a request ended without an answer?

vars == <<host, visitor, tree, asks, view, got, silent>>

Is(p, kind) == p \in DOMAIN tree /\ tree[p] = kind
Children(p) == {n \in Names : Append(p, n) \in DOMAIN tree}

\* Trees in which every entry is in a folder.
Trees ==
  {[p \in ps |-> Places[p]] :
    ps \in {s \in SUBSET Paths : <<>> \in s /\ \A p \in s \ {<<>>} : Front(p) \in s}}

-----------------------------------------------------------------------------
(* FileShare.  An operator that may return None gives the set of what it    *)
(* returns.                                                                 *)

\* os.path.realpath: the first symlink on the way leads to its target.
Real(p) ==
  LET links == {k \in DOMAIN p : Is(SubSeq(p, 1, k), "link")}
  IN IF links = {} THEN p
     ELSE LET k == CHOOSE k \in links : \A m \in links : k <= m
          IN LinkTo[p[k]] \o SubSeq(p, k + 1, Len(p))

Within(real) == real = <<>> \/ Head(real) # Outside

\* Names separated, the whole stripped of blanks at its two ends and then, unless
\* it begins with one, of every "/" at its end.
Parts(rel) ==
  LET flat == FlattenSeq([k \in DOMAIN rel |-> Split[rel[k]]])
      begun == [k \in DOMAIN flat |-> IF k = 1 THEN LTrim[flat[k]] ELSE flat[k]]
      bare == [k \in DOMAIN begun |-> IF k = Len(begun) THEN RTrim[begun[k]] ELSE begun[k]]
      named == {k \in DOMAIN bare : bare[k] # ""}
  IN IF Len(bare) > 1 /\ bare[1] = "" THEN bare ELSE SubSeq(bare, 1, Max({0} \cup named))

Resolve_Trusts(rel) ==   \* mutant: the real path is not looked at
  LET parts == Parts(rel)
  IN IF \E k \in DOMAIN parts : parts[k] \in Hidden \cup {""} THEN {} ELSE {Real(parts)}
Resolve(rel) ==
  LET parts == Parts(rel)
  IN IF \E k \in DOMAIN parts : parts[k] \in Hidden \cup {""} THEN {}
     ELSE {real \in {Real(parts)} : Within(real)}

Listing(rel) ==
  UNION {{[name |-> n, kind |-> tree[Append(base, n)]] :
           n \in {m \in Children(base) \ Hidden : ~Is(Append(base, m), "link")}} :
         base \in {p \in Resolve(rel) : Is(p, "dir")}}

\* Beyond the folder any path may be a file.
Read(rel) == {real \in Resolve(rel) : ~Within(real) \/ Is(real, "file")}

-----------------------------------------------------------------------------
(* The share of a page: a map from relative paths to files. *)

Keys == {p \in DOMAIN tree : tree[p] = "file"}

\* A path without every "/" at its start and its end.
Inner(path) ==
  LET named == {k \in DOMAIN path : path[k] # ""}
  IN IF named = {} THEN <<>> ELSE SubSeq(path, Min(named), Max(named))

PageListing(path) ==
  LET base == Inner(path)
  IN {[name |-> p[Len(base) + 1], kind |-> IF Len(p) = Len(base) + 1 THEN "file" ELSE "dir"] :
       p \in {q \in Keys : Len(q) > Len(base) /\ IsPrefix(base, q) /\ (base = path \/ base # <<>>)}}

PageRead(rel) == {rel} \cap Keys

HostListing(path) == IF host = "page" THEN PageListing(path) ELSE Listing(path)
HostRead(rel) == IF host = "page" THEN PageRead(rel) ELSE Read(rel)

-----------------------------------------------------------------------------
Entry == [name : Names, kind : {"dir", "file"}]
Ask == [type : {"browse", "get"}, path : Seq(Names), clicked : BOOLEAN, still : BOOLEAN]

TypeOK ==
  /\ host \in {"python", "page"} /\ visitor \in {"page", "cli"} /\ tree \in Trees /\ asks \in Seq(Ask)
  /\ view.path \in Seq(Names) /\ view.still \in BOOLEAN /\ view.entries \subseteq Entry
  /\ silent \in BOOLEAN

\* A page's share holds no symlinks, and no folders but of its files.
Init ==
  /\ host \in {"python", "page"} /\ visitor \in {"page", "cli"} /\ tree \in Trees
  /\ host = "page" => \A p \in DOMAIN tree :
       tree[p] # "link" /\ (tree[p] = "dir" /\ p # <<>> => Children(p) # {})
  /\ asks = <<>> /\ got = {} /\ silent = FALSE
  /\ view = [path |-> <<>>, entries |-> {}, still |-> TRUE]

\* What was listed before is not what the folder holds.
Outdated ==
  /\ view' = [view EXCEPT !.still = FALSE]
  /\ asks' = [k \in DOMAIN asks |-> [asks[k] EXCEPT !.still = FALSE]]

Appears(p) ==
  /\ p \notin DOMAIN tree /\ (host = "page" => Places[p] = "file")
  /\ tree' = [q \in DOMAIN tree \cup Prefixes(p) |-> Places[q]]
  /\ Outdated /\ UNCHANGED <<host, visitor, got, silent>>
Vanishes(p) ==
  /\ host = "python" /\ p \in DOMAIN tree /\ Children(p) = {}
  /\ tree' = [q \in DOMAIN tree \ {p} |-> Places[q]]
  /\ Outdated /\ UNCHANGED <<host, visitor, got, silent>>

Requests(type, path, clicked) ==
  /\ Len(asks) < MaxAsks
  /\ asks' = Append(asks, [type |-> type, path |-> path, clicked |-> clicked, still |-> view.still])
  /\ UNCHANGED <<host, visitor, tree, view, got, silent>>

\* The browse button of a peer; a row of the panel, which is a folder or has a
\* get button; and the row "up".
Opens == Requests("browse", <<>>, FALSE)
Click(e) == Requests(IF e.kind = "dir" THEN "browse" ELSE "get", Append(view.path, e.name), TRUE)
Up == view.path # <<>> /\ Requests("browse", Front(view.path), FALSE)
Types(path) == \E type \in {"browse", "get"} : Requests(type, path, FALSE)

OnBrowse_Bare(path) ==   \* mutant: the answer does not say of which folder it is
  view' = [view EXCEPT !.entries = HostListing(path), !.still = TRUE]
OnBrowse(path) == view' = [path |-> path, entries |-> HostListing(path), still |-> TRUE]

\* An answer, unless open() raises in the task of the request.
Answer ==
  /\ asks # <<>> /\ asks' = Tail(asks)
  /\ LET path == Head(asks).path
     IN \/ Head(asks).type = "browse" /\ OnBrowse(path) /\ UNCHANGED <<got, silent>>
        \/ /\ Head(asks).type = "get" /\ UNCHANGED view
           /\ IF HostRead(path) \subseteq Unreadable /\ HostRead(path) # {}
              THEN silent' = TRUE /\ UNCHANGED got
              ELSE got' = HostRead(path) /\ UNCHANGED silent
  /\ UNCHANGED <<host, visitor, tree>>

Next ==
  \/ \E p \in Paths \ {<<>>} : Appears(p) \/ Vanishes(p)
  \/ visitor = "page" /\ (Opens \/ Up \/ \E e \in view.entries : Click(e))
  \/ visitor = "cli" /\ \E path \in Typed : Types(path)
  \/ Answer

Spec == Init /\ [][Next]_vars

-----------------------------------------------------------------------------
(* Properties. *)

\* No backslashes and no outer blanks: a name comes back as it was listed.
PlainNames ==
  \A p \in Paths : \A k \in DOMAIN p :
    Split[p[k]] = <<p[k]>> /\ LTrim[p[k]] = p[k] /\ RTrim[p[k]] = p[k]

\* A row of the panel leads to the file or the folder it names, while the
\* folder is as it was when it was listed: whatever was answered in between.
Leads(ask) ==
  IF ask.type = "get" THEN HostRead(ask.path) = {ask.path} ELSE Is(ask.path, "dir")
ClickLeads ==
  \A k \in DOMAIN asks : asks[k].clicked /\ asks[k].still => Leads(asks[k])

\* What a visitor is given lies in the folder, also by a path that begins there
\* and leaves it through a symlink (_resolve).
Confined == \A real \in got : Within(real)

\* Of a folder without symlinks and dotfiles, a page and a Python node show a
\* visitor the same tree and serve the same files.
Plain == \A p \in DOMAIN tree : tree[p] # "link" /\ ToSet(p) \cap Hidden = {}
HostsAgree ==
  Plain => \A p \in DOMAIN tree :
    /\ PageRead(p) = Read(p)
    /\ PageListing(p) = {e \in Listing(p) : e.kind = "file" \/ PageListing(Append(p, e.name)) # {}}

Omits ==
  \A e \in view.entries :
    e.name \notin Hidden /\ (view.still => ~Is(Append(view.path, e.name), "link"))

\* A Python node shows a visitor neither dotfiles nor symlinks, wherever the
\* visitor has got to.
PythonOmits == host = "python" => Omits

\* The same of every host, as docs/extensions/file-browse.md has it.
DotsOmitted == Omits

\* What get is for: a listed file is had by its path from the root.
ListedCanBeGot ==
  \A p \in DOMAIN tree : \A e \in Listing(p) :
    e.kind = "file" => Read(Append(p, e.name)) # {}

\* Every request is answered, with a transfer or with no-file.
EveryRequestAnswered == ~silent
=============================================================================

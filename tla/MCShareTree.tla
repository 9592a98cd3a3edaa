----------------------------- MODULE MCShareTree -----------------------------
(* Instances of ShareTree for TLC: files, a folder, a dotfile, a symlink to *)
(* the folder and one that leaves the share.                                *)
EXTENDS ShareTree, TLC

Root == <<>> :> "dir" @@ <<"a">> :> "file" @@ <<"d">> :> "dir" @@ <<"d", "a">> :> "file"
Linked == Root @@ <<"l">> :> "link" @@ <<"o">> :> "link"
Mixed == Linked @@ <<".h">> :> "file"
Odd == Root @@ <<"d\\a">> :> "file" @@ <<"d", "a ">> :> "file" @@ <<" a">> :> "file"

AllNames == {"", "a", "d", "l", "o", ".h", "..", "d\\a", "a ", " a"}
Links == "l" :> <<"d">> @@ "o" :> <<Outside>>
Parted == [n \in AllNames |-> IF n = "d\\a" THEN <<"d", "a">> ELSE <<n>>]
Begun == [n \in AllNames |-> IF n = " a" THEN "a" ELSE n]
Ended == [n \in AllNames |-> IF n = "a " THEN "a" ELSE n]

Paths1 == {<<"d", "">>, <<"", "a">>, <<"..", "a">>, <<"l", "a">>, <<"o">>, <<"o", "a">>}
NoPaths == {}
ReadProtected == {<<"a">>}
=============================================================================

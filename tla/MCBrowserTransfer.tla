--------------------------- MODULE MCBrowserTransfer ---------------------------
(* An instance of BrowserTransfer for TLC: an empty file, one of one chunk and *)
(* one that does not fit in the send buffer.                                   *)
EXTENDS BrowserTransfer

CONSTANTS empty, small, large

Sizes == [x \in Xids |-> CASE x = empty -> 0 [] x = small -> 1 [] x = large -> 3]
=============================================================================

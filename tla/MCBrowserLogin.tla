--------------------------- MODULE MCBrowserLogin ---------------------------
(* Instances of BrowserLogin for TLC                                       *)
EXTENDS BrowserLogin, TLC

HandlerSymmetry == Permutations(Requests)
=============================================================================

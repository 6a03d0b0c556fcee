--------------------------- MODULE MCBrowserPipe ---------------------------
(* A small instance of BrowserPipe for TLC. *)
EXTENDS BrowserPipe

CONSTANT p1   \* the one address a pipe gets, over and over
=============================================================================

----------------------------- MODULE MCStudio -----------------------------
(* A small instance of Studio for TLC: two requests of one app.            *)
EXTENDS Studio

Requests == 1 .. 2
=============================================================================

----------------------------- MODULE MCCowPages -----------------------------
(* Two threads, pages of two values.                                          *)
EXTENDS CowPages, TLC

\* Thread 0 has the first page, thread 1 the others.
OwnPages == (0 :> {0}) @@ (1 :> {2, 4})
OnePage  == (0 :> {0}) @@ (1 :> {1})
=============================================================================

------------------------------- MODULE MCLogger -------------------------------
(* A log of two lines is large, and looked at every other line: six lines    *)
(* make three archives, under two names.  There is one descriptor more than  *)
(* archiving takes.                                                          *)
EXTENDS Logger
CONSTANTS s1, s2
=============================================================================

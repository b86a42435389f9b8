-------------------------- MODULE MCArchivalHelper ---------------------------
(* Two shared heights and three above the split, and three threads, so that   *)
(* unknown blocks race.                                                       *)
EXTENDS ArchivalHelper
=============================================================================

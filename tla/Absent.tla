-------------------------------- MODULE Absent --------------------------------
(***************************************************************************)
(* The modules about money share one absent value: a column that is NULL,  *)
(* a row or an answer that is not there.                                   *)
(***************************************************************************)
CONSTANT None
=============================================================================

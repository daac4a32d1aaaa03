-------------------------------- MODULE Absent --------------------------------
(***************************************************************************)
(* The one value for what is not there (Python's None), shared by the      *)
(* modules that are checked or proved about side by side.                  *)
(***************************************************************************)
CONSTANT None
===============================================================================

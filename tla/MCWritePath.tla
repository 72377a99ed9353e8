------------------------------ MODULE MCWritePath ------------------------------
(* Clients of one server that write the same output file.                  *)
EXTENDS WritePath
===============================================================================

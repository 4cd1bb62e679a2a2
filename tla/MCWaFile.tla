------------------------------ MODULE MCWaFile ------------------------------
(***************************************************************************)
(* Small instance of WaFile: two files, without pages, one of them then a  *)
(* stream, and with one buffer of four words for both.                     *)
(***************************************************************************)
EXTENDS WaFile
MCSettings == {[env |-> <<>>, streams |-> {2}], [env |-> <<4, 2, 1>>, streams |-> {}]}
MCMaxWords == <<6, 2>>
\* The answer of the last read is read by no action.
MCView == <<config, disk, file_size, open_flag, page, nfree, global_count, dastat, pos, exited>>
=============================================================================

----------------------------- MODULE MCCommand -----------------------------
(***************************************************************************)
(* Instances of the command layer.                                         *)
(***************************************************************************)
EXTENDS Command

\* A poll and one operation of each way of judging an answer.
EachKind ==
  {"single_poll", "get_module_manufacturer", "set_select_mode", "get_tx_power",
   "read_tag_memory_area", "kill"}

\* Enough for a line to get out of step and to heal again.
FewOperations == {"single_poll", "get_tx_power", "kill"}
=============================================================================

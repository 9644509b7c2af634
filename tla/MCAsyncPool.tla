------------------------------ MODULE MCAsyncPool ------------------------------
(*****************************************************************************)
(* AsyncPool for TLC: two workers, and tasks of which one throws.            *)
(*****************************************************************************)
EXTENDS AsyncPool
===============================================================================

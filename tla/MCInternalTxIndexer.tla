-------------------------- MODULE MCInternalTxIndexer -------------------------
(***************************************************************************)
(* The instance of InternalTxIndexer that TLC checks: the blocks that are  *)
(* to be backfilled, and the blocks that the endpoint may answer for       *)
(* without their transactions, which are those that current_block can pass *)
(* and the properties speak of.                                            *)
(***************************************************************************)
EXTENDS InternalTxIndexer

MCBackfills == {<<0, 1>>}

MCUnlisted == unlisted \subseteq 0..MaxHead - confirmation_blocks - 1
=============================================================================

----------------------------- MODULE MCDraftSync -----------------------------
(* DraftSync with two editors of the same draft.                           *)
EXTENDS DraftSync
=============================================================================

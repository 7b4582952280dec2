--------------------------- MODULE MCSubtitleRouter ---------------------------
(* The subtitle router on a small instance. *)
EXTENDS SubtitleRouter, TLC

CONSTANT t1

OneSlot == {t1}
=============================================================================

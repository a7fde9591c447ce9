------------------------------ MODULE MCNotices ------------------------------
(* Two runs, two remotes of either kind. *)
EXTENDS Notices
==============================================================================

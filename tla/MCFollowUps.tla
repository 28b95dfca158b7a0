----------------------------- MODULE MCFollowUps -----------------------------
(* Small instances of FollowUps for TLC. *)
EXTENDS FollowUps
=============================================================================

---------------------------- MODULE MCAttachments ----------------------------
(* An instance of Attachments for TLC; MCRequests and MCServices hold others. *)
EXTENDS Attachments

CONSTANTS f1, r1, o1, s1

=============================================================================

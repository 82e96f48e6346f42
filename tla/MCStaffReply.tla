----------------------------- MODULE MCStaffReply -----------------------------
(***************************************************************************)
(* Constants of the TLC runs of StaffReply.                                *)
(***************************************************************************)
EXTENDS StaffReplyInvariant, TLC

Symmetry == Permutations(Users) \cup Permutations(Desks) \cup Permutations(Requests)
              \cup Permutations(Senders)
=============================================================================

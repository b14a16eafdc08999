----------------------------- MODULE MCMailbox -----------------------------
(***************************************************************************)
(* Model-checking instance of Mailbox.  The argument sets hold, for every  *)
(* field, a small value and the largest value the field can carry (app_id  *)
(* 255, priority 15, update_count and port_num 65535, epoch logs 255), so  *)
(* that a mask one bit short or a field one bit too narrow shows.  The     *)
(* violation run widens app_id past its 8-bit field.                       *)
(***************************************************************************)
EXTENDS Mailbox
=============================================================================

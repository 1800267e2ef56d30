------------------------------ MODULE MCOutbox ------------------------------
(* Outbox for TLC: see MCOutbox.cfg for the bounds.                        *)
EXTENDS Outbox
=============================================================================

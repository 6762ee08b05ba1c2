----------------------------- MODULE MCMailSync -----------------------------
(* Instances of MailSync for TLC: a pass over one folder.                  *)
EXTENDS MailSync

CONSTANT inbox

Inbox == <<inbox>>
=============================================================================

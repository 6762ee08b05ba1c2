-------------------------- MODULE MCWhatsAppManager --------------------------
(* A small instance of WhatsAppManager. *)
EXTENDS WhatsAppManager
=============================================================================

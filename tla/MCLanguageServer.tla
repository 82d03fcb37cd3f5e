-------------------------- MODULE MCLanguageServer --------------------------
(* Instances of LanguageServer: one or two documents, one of them .irisx. *)
EXTENDS LanguageServer

CONSTANTS button, script
=============================================================================

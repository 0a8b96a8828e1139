----------------------------- MODULE MCLogging -----------------------------
(***************************************************************************)
(* A small instance of Logging.                                            *)
(***************************************************************************)
EXTENDS Logging

\* A pattern that matches the caller and one that does not.
MCPatterns == {{}, Callers}
=============================================================================

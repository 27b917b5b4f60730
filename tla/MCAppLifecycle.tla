--------------------------- MODULE MCAppLifecycle ---------------------------
(* Small instances of AppLifecycle. *)
EXTENDS AppLifecycle
=============================================================================

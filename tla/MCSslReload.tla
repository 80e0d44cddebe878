---------------------------- MODULE MCSslReload -----------------------------
(***************************************************************************)
(* Model values of SslReload for TLC.  Three of the four files: two that   *)
(* have to fit each other, and one looked at before them.                  *)
(***************************************************************************)
EXTENDS SslReload

MCOrder == <<"SSL_CA_FILE", "SSL_CERTIFICATE_FILE", "SSL_PRIVATE_KEY_FILE">>
=============================================================================

------------------------------ MODULE MCDaemon ------------------------------
(* The service with two of its servers, built without HTTPS.               *)
EXTENDS Daemon

TwoServers == <<"tcp", "http">>
=============================================================================

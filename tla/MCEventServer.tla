---------------------------- MODULE MCEventServer ----------------------------
(* Instances of EventServer for TLC.                                       *)
EXTENDS EventServer

CONSTANTS t1, h1

OneTcpClient == {t1}
OneHttpClient == {h1}

TwoServers == <<"tcp", "http">>
ThreeServers == <<"tcp", "http", "https">>

OneEach == [c \in Clients |-> 1]
\* The second request of the TCP client, the first of the HTTP client.
SomeFormats == {<<t1, 2>>, <<h1, 1>>}
FirstFormats == {<<t1, 1>>, <<h1, 1>>}

TwoEach == [c \in Clients |-> 2]
=============================================================================

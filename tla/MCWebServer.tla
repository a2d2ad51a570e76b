----------------------------- MODULE MCWebServer -----------------------------
(* Small requests for WebServer. *)
EXTENDS WebServer, TLC

\* A page, an upload, a POST without a length, a page asked for twice in one
\* connection, and something that is not HTTP.
AllRequests ==
    {<<"GET", "empty">>,
     <<"POST", "length", "empty", "body", "body">>,
     <<"POST", "other", "empty">>,
     <<"GET", "empty", "GET", "empty">>,
     <<"other">>}

\* The PCBs are interchangeable.
ConnSymmetry == Permutations(Conn)

\* An upload and a page.
TwoRequests ==
    {<<"GET", "empty">>,
     <<"POST", "length", "empty", "body", "body">>}
=============================================================================

---------------------------- MODULE MCServerConn ----------------------------
(* Two requests, two host names and a preface of three bytes: the client   *)
(* may send it and one byte more, a part of it, or start like it.          *)
EXTENDS ServerConnProps

MCBytes    == {"P", "R", "I", "U", "a"}
MCPrefix   == <<"P", "R", "I">>
MCStreams  == {<<"P", "R", "I", "a">>, <<"P", "U", "a">>, <<"P", "R">>, <<>>}
MCBufSizes == {1, 2, 4}
=============================================================================

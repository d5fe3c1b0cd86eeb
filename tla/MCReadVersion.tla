--------------------------- MODULE MCReadVersion ---------------------------
(* A preface of three bytes: the client may send it and two bytes more,    *)
(* start like it, or send something shorter or longer.                     *)
EXTENDS ReadVersionProps

MCBytes   == {"P", "R", "I", "U", "T", "a", "b"}
MCPrefix  == <<"P", "R", "I">>
MCStreams == {<<"P", "R", "I", "a", "b">>, <<"P", "R", "I">>, <<"P", "R">>,
              <<"P", "U", "T", "a">>, <<"a", "R", "I", "b">>, <<>>}
MCBufSizes == {1, 2, 4}
=============================================================================

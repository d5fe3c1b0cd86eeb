----------------------------- MODULE MCRequest ------------------------------
(* Two addresses of each family in every mixed order of up to three, and   *)
(* configurations that set each timeout, alone or together.                *)
EXTENDS RequestProps

CONSTANTS a4, b4, a6, b6

MCV4 == {a4, b4}
MCV6 == {a6, b6}

MCAnswers == {<<>>, <<a4>>, <<a4, a6>>, <<a4, b4, a6>>, <<a6, b6, a4>>}

Plain == [scheme |-> "http", literal |-> FALSE, port |-> NONE]
MCUris == {Plain,
           [Plain EXCEPT !.scheme = "https"],
           [Plain EXCEPT !.scheme = "https", !.port = 80],
           [Plain EXCEPT !.scheme = "wss"],
           [Plain EXCEPT !.scheme = NONE],
           [Plain EXCEPT !.scheme = "https", !.literal = TRUE]}
MCLocations == {[Plain EXCEPT !.scheme = "https", !.port = 80]}

Config(he, ct, v4, v6, tls, p) ==
  [happy_eyeballs_timeout |-> he, connect_timeout |-> ct,
   local_address_ipv4 |-> v4, local_address_ipv6 |-> v6,
   tls |-> tls, protocol |-> p]

(* A timeout of zero, the attempts' before and with the race's, and none.  *)
MCConfigs == {Config(1, 2, FALSE, FALSE, TRUE, "auto"),
              Config(2, 1, TRUE, FALSE, TRUE, "auto"),
              Config(1, 1, FALSE, TRUE, TRUE, "http1"),
              Config(0, NONE, FALSE, FALSE, FALSE, "auto"),
              Config(NONE, 1, FALSE, FALSE, TRUE, "http2")}

MCClients == {[retries |-> 1, timeout |-> TRUE, redirect |-> TRUE],
              [retries |-> NONE, timeout |-> FALSE, redirect |-> FALSE]}

Get == [version |-> "1.1", connect |-> FALSE, uri |-> Plain,
        form |-> "absolute", host |-> NONE, cloneable |-> TRUE,
        extensions |-> TRUE]
MCRequests == {Get,
               [Get EXCEPT !.version = "2", !.uri.scheme = "https",
                           !.extensions = FALSE],
               [Get EXCEPT !.connect = TRUE, !.uri.scheme = "https"],
               [Get EXCEPT !.uri.scheme = "https", !.uri.port = 80],
               [Get EXCEPT !.uri.scheme = "https", !.uri.literal = TRUE],
               [Get EXCEPT !.uri.scheme = NONE, !.form = "origin"],
               [Get EXCEPT !.version = "3", !.cloneable = FALSE],
               [Get EXCEPT !.uri.scheme = "wss", !.cloneable = FALSE,
                           !.host = [own |-> TRUE, port |-> NONE]]}
=============================================================================

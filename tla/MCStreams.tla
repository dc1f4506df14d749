----------------------------- MODULE MCStreams -----------------------------
(***************************************************************************)
(* Instances of Streams for TLC: seconds of two milliseconds; a message    *)
(* has room for three rows of one octet, a row of four octets fills one.   *)
(***************************************************************************)
EXTENDS Streams

\* One to three messages; a first message with the opening SOA only and one
\* that ends exactly where the room does.
SmallStreams ==
  [mode : {"AXFR"}, ends : {<<1, 2, 3>>, <<1, 5, 6>>}]
    \union [mode : {"IXFR"}, ends : {<<1>>, <<1, 2, 3, 4, 8>>}]
=============================================================================

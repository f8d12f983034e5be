------------------------------- MODULE MCWire --------------------------------
(* Requests of up to two arguments, words and texts of two lines.            *)
EXTENDS Wire

Word == {<<"a">>, <<"a", Newline, "b">>}
Directory == Word
MCRequests ==
  [arguments : UNION {[1..n -> Word] : n \in 1..2},
   environment : {<<>>} \cup {<< <<"TERM">> \o w >> : w \in Word},
   user : {<<>>, <<"root">>}, directory : Directory]
MCTtys == [tty : BOOLEAN, interactive : BOOLEAN, stdin : {"tty", "pipe"}, stdout : {"tty", "pipe"}]
=============================================================================

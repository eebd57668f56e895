-------------------------------- MODULE MCWire --------------------------------
(* What peers send, for TLC: requests to every kind of route, signed well, *)
(* badly, at too great a length or not at all; requests that are none; and *)
(* frames of every kind.                                                   *)
EXTENDS Wire

MCCell == STRING

Good9  == <<"HMAC", "SP", "id", ",", "ts", ",", "nonce", ",", "sig">>
Stray  == <<"HMAC", "SP", "id", ",", "ts", ",", "nonce", ",", "new">>
Long10 == <<"HMAC", "SP", "id", "SP", "SP", "ts", ",", "nonce", ",", "sig">>
Long14 == Long10 \o <<"SP", "SP", "SP", "SP">>

Api(rest) == <<"/", "api", "/">> \o rest

Asked(method, target, body) == <<<<method>>, target, body>>

(* A request line, the headers, a body, and what was signed.               *)
Script(asked, signs, authorization, headers, body) ==
    [signs |-> signs,
     lines |-> <<asked[1] \o <<"SP">> \o asked[2] \o <<"SP", "HTTP">>>>
               \o (IF authorization = <<>> THEN <<>>
                   ELSE <<<<"authorization", ":", "SP">> \o authorization>>)
               \o headers,
     body  |-> body]

LengthOf(body) ==
    IF body = <<>> THEN <<>> ELSE <<<<"content-length", ":", Digits[Len(body) + 1]>>>>

Plain == {Asked("GET", <<"/">>, <<>>), Asked("POST", <<"/", "pair">>, <<"x">>),
          Asked("GET", <<"/", "index">>, <<>>), Asked("GET", <<"/", "api">>, <<>>)}

Signable == {Asked("GET", Api(<<"status", "?", "x">>), <<>>), Asked("GET", Api(<<"none">>), <<>>),
             Asked("POST", Api(<<"led">>), <<"on", "!">>),
             Asked("GET", Api(<<"apps", "/", "1", "/", "settings">>), <<>>),
             Asked("GET", Api(<<"apps", "/", "2", "/", "settings">>), <<>>),
             Asked("GET", Api(<<"apps", "/", "1", "/", "1", "/", "settings">>), <<>>),
             Asked("DELETE", Api(<<"clients", "/", "a", "/", "b">>), <<>>)}

Upgrades == {Asked("GET", Api(<<"ws", "?", "ticket", "=", "t">>), <<>>),
             Asked("GET", Api(<<"ws", "?", "x", "ticket", "=", "t">>), <<>>)}

Odd(lines, body) ==
    [signs |-> <<<<>>, <<>>, <<>>>>, lines |-> lines, body |-> body]

MCScripts ==
    {Script(a, a, <<>>, LengthOf(a[3]), a[3]) : a \in Plain \cup Signable}
    \cup {Script(a, a, Good9, LengthOf(a[3]), a[3]) : a \in Signable}
    \cup {Script(a, Asked("GET", <<"/">>, <<>>), Good9, LengthOf(a[3]), a[3]) : a \in Signable}
    \cup {Script(Asked("GET", Api(<<"status">>), <<>>), Asked("GET", Api(<<"status">>), <<>>),
                 h, <<>>, <<>>) : h \in {Stray, Long10, Long14}}
    \cup {Script(a, a, <<>>, h, <<>>) : a \in Upgrades,
             h \in {<<<<"sec-websocket-key", ":", "k">>>>, <<>>,
                    <<<<"sec-websocket-key", ":", "k", "k">>>>}}
    \cup {Odd(<<<<"GET", "/">>>>, <<>>), Odd(<<<<"GET", "GET", "SP", "/", "SP">>>>, <<>>),
          Odd(<<<<"GET", "SP", "/">>>>, <<>>),
          Odd(<<<<"GET", "SP">> \o [i \in 1..12 |-> "/"] \o <<"SP">>>>, <<>>),
          Odd(<<[i \in 1..17 |-> "/"]>>, <<>>), Odd(<<>>, <<>>),
          Odd(<<<<"POST", "SP", "/", "pair", "SP">>,
                <<"content-length", ":">> \o [i \in 1..13 |-> "SP"] \o <<"1">>>>, <<"x">>),
          Odd(<<<<"GET", "SP", "/", "SP">>, <<"content-length", ":", "x">>>>, <<>>),
          Odd(<<<<"GET", "SP", "/", "SP">>, <<"content-length", ":", "1", "0">>>>, <<>>),
          Odd(<<<<"GET", "SP", "/", "SP">>, <<"content-length", ":", "3">>>>, <<"on", "!", "!">>),
          Odd(<<<<"POST", "SP", "/", "pair", "SP">>, <<"content-length", ":", "2">>>>, <<"x">>),
          Odd(<<<<"GET", "SP", "/", "SP">>, <<"h">>, <<"h">>, <<"h">>>>, <<>>)}

(* Frames of a client that masks with this key.                            *)
Key == <<1, 2, 4, 8>>

Frame(fin, reserved, op, masked, size, bytes) ==
    [fin |-> fin, reserved |-> reserved, opcode |-> op, masked |-> masked,
     size |-> size, key |-> Key, payload |-> bytes]

Simple(op, bytes) == Frame(TRUE, 0, op, TRUE, <<Len(bytes)>>, bytes)
Sized(op, size)   == Frame(TRUE, 0, op, TRUE, size, <<>>)

Five  == <<7, 7, 7, 7, 9>>
Text5 == Simple(Text, Five)
Empty == Simple(Text, <<>>)
Ping2 == Simple(Ping, <<3, 5>>)

MCFrames ==
    {Text5, Empty, Ping2, Simple(Pong, <<1>>), Simple(3, <<1>>), Simple(Close, <<3, 232>>),
     Simple(Binary, <<1>>), Simple(Continuation, <<1>>),
     Frame(FALSE, 0, Text, TRUE, <<5>>, Five),
     Frame(FALSE, 0, Ping, TRUE, <<0>>, <<>>),
     Frame(TRUE, 0, Text, FALSE, <<5>>, Five), Frame(TRUE, 4, Text, TRUE, <<5>>, Five),
     Frame(TRUE, 0, Text, TRUE, <<126, 0, 5>>, Five),
     Simple(Text, [i \in 1..10 |-> i]),
     Sized(Text, <<126, 1, 44>>), Sized(Ping, <<126, 0, 126>>),
     Sized(Text, <<127, 128, 0, 0, 0, 0, 0, 0, 0>>),
     Sized(Text, <<127, 0, 0, 1, 0, 0, 0, 0, 0>>)}
==============================================================================

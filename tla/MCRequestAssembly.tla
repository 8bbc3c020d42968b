------------------------- MODULE MCRequestAssembly --------------------------
(* Six kinds of message, and the streams a client makes of them.           *)
EXTENDS RequestAssembly

MCLower == [Ho |-> "ho", X |-> "x", Chunked |-> "chunked"] @@ ("Content-" :> "content-")
MCNumber == ("1" :> 1) @@ ("2" :> 2) @@ ("443" :> 443) @@ ("8080" :> 8080) @@ ("65535" :> 65535)

Field(name, value) == [name |-> name, value |-> value]
Host(text) == Field(<<"Ho", "st">>, text)

\* An absolute URL, the default port, a header given twice and one for the hop.
Get == [method |-> "GET", url |-> <<"http://", "a", "/", "p">>, path |-> <<"/", "p">>,
        host |-> <<"a">>, port |-> 80,
        fields |-> <<Host(<<"a">>), Field(<<"X">>, <<"v", "w">>), Field(<<"x">>, <<"v2">>),
                     Field(<<"connection">>, <<"keep-alive">>)>>,
        body |-> EmptyText, chunked |-> FALSE, trailers |-> <<>>, keep_alive |-> TRUE,
        upgrade |-> FALSE, tunnel |-> EmptyText, garbage |-> EmptyText]

\* A body with its length, an address in brackets, the end of the connection.
Post == [Get EXCEPT !.method = "POST", !.url = <<"/", "p">>, !.host = <<":", ":", "1">>, !.port = 8080,
                    !.fields = <<Host(<<"[", ":", ":", "1", "]", ":", "8080", " ">>),
                                 Field(<<"Content-", "length">>, <<"2">>)>>,
                    !.body = <<"b", "c">>, !.keep_alive = FALSE]

\* A body in chunks with two trailer fields, the highest port.
Chunks == [Get EXCEPT !.method = "POST", !.port = 65535,
                      !.fields = <<Host(<<"a", ":", "65535">>), Field(Name.encoding, <<"Chunked">>)>>,
                      !.body = <<"d", "e">>, !.chunked = TRUE,
                      !.trailers = <<Field(<<"t">>, <<"1">>), Field(<<"u">>, <<"2">>)>>]

Connect == [Get EXCEPT !.method = "CONNECT", !.url = <<"a", ":", "443">>, !.port = 443,
                       !.fields = <<Host(<<"a">>)>>, !.tunnel = <<"s", "t", "u">>]

\* Another protocol that the proxy does not know: an ordinary request to it.
Upgrade == [Get EXCEPT !.fields = <<Host(<<"a">>), Field(<<"upgrade">>, <<"websocket">>),
                                    Field(<<"connection">>, <<"upgrade">>)>>,
                       !.upgrade = TRUE]

Broken == [Get EXCEPT !.fields = <<Host(<<"a">>)>>, !.garbage = <<"?">>]

MCStream == {<<Get, Post>>, <<Post, Get>>, <<Get, Chunks>>, <<Chunks, Get>>, <<Get, Connect>>,
             <<Connect>>, <<Chunks, Broken>>, <<Upgrade, Get>>}
=============================================================================

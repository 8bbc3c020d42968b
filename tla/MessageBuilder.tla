--------------------------- MODULE MessageBuilder ---------------------------
(***************************************************************************)
(* http_message_builder: the request sent upstream for a request_info of   *)
(* RequestParser.  A built request is a record; its headers are a function *)
(* from names to values, as every name is written once.                    *)
(***************************************************************************)
EXTENDS RequestParser

NoRequest == [method |-> ""]

Scheme == {"http://", "https://"}

\* build_origin_form
OriginForm(url) ==
  IF url = EmptyText THEN <<"/">>
  ELSE IF Head(url) \in Scheme
  THEN LET slashes == Positions(url, "/")
       IN  IF slashes = {} THEN <<"/">> ELSE From(url, Min(slashes))
  ELSE IF url = <<"*">> \/ Head(url) = "/" THEN url
  ELSE <<"/">> \o url

\* Mutant: the encoding of the client's message is passed on.
HopByHopButEncoding ==
  {<<"connection">>, <<"proxy-connection">>, <<"keep-alive">>, <<"te">>, <<"trailer">>, <<"upgrade">>}

\* is_hop_by_hop_header
HopByHop ==
  {<<"connection">>, <<"proxy-connection">>, <<"keep-alive">>, <<"te">>, <<"trailer">>,
   Name.encoding, <<"upgrade">>}

\* std::to_string
ToText(n) == <<CHOOSE d \in DOMAIN Number : Number[d] = n>>

HostHeader(req) ==
  req.host \o (IF req.port \in {0, 80} THEN EmptyText ELSE <<":">> \o ToText(req.port))

\* build_forward_proxy_request
Forward(req) ==
  IF req.method = "" \/ req.host = EmptyText \/ req.is_connect THEN NoRequest
  ELSE LET passed == [n \in DOMAIN req.headers \ HopByHop |-> req.headers[n]]
           host == IF Name.host \in DOMAIN passed THEN <<>> ELSE Name.host :> HostHeader(req)
           length == IF Name.length \in DOMAIN passed \/ req.body = EmptyText THEN <<>>
                     ELSE Name.length :> ToText(Len(req.body))
       IN  [method  |-> req.method,
            target  |-> OriginForm(req.url),
            version |-> IF req.version = EmptyText THEN <<"1.1">> ELSE req.version,
            headers |-> passed @@ host @@ length @@ (<<"connection">> :> <<"close">>),
            body    |-> req.body]
=============================================================================

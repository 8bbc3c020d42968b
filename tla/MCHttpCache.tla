----------------------------- MODULE MCHttpCache -----------------------------
(* Two encodings of one URL, a URL whose key is that of the second, and      *)
(* another URL; responses on both sides of every threshold.                  *)
EXTENDS HttpCache

MCTarget == {[url |-> <<"u">>, encoding |-> None], [url |-> <<"u">>, encoding |-> "gzip"],
             [url |-> <<"u", "|", "gzip">>, encoding |-> None], [url |-> <<"v">>, encoding |-> None]}

R(size, rebuilt, maxAge, expires, etag, modified) ==
  [kind |-> "ok", size |-> size, rebuilt |-> rebuilt, maxAge |-> maxAge,
   expires |-> expires, etag |-> etag, modified |-> modified]

\* A small one; one too large as received and small when rebuilt, of the same
\* second; a heavy one that becomes too large, whose max-age overflows, of the same
\* second and without a tag; one that is refused, with the tag of the first but for
\* case.
MCResponse ==
  {R(1, 1, -1, 0, "Va", 1),
   R(5, 2, 0, None, "vb", 1),
   R(4, 5, 4, None, None, 1),
   [R(1, 1, 1, None, "va", 2) EXCEPT !.kind = "refused"]}

MCLower == [e \in {"Va", "va", "vb"} |-> IF e = "Va" THEN "va" ELSE e]

\* Room for two responses, by number and by weight; the heavy one exceeds the
\* budget by itself.
MCLimits == {[entries |-> 2, bytes |-> 3]}
=============================================================================

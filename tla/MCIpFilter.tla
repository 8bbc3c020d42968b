----------------------------- MODULE MCIpFilter -----------------------------
EXTENDS IpFilter

\* Three-bit addresses; prefixes of two bits and more are expanded.
MCLine ==
  {[kind |-> "skip"], [kind |-> "ip", valid |-> FALSE, addr |-> 0]}
  \cup [kind : {"ip"}, valid : {TRUE}, addr : {0, 5}]
  \cup [kind : {"cidr"}, valid : {TRUE}, addr : {3, 6}, mask : {NoNumber, 0, 1, 2, 3, 4}]
  \cup {[kind |-> "cidr", valid |-> FALSE, addr |-> 0, mask |-> 2]}

\* Hashes that spread addresses over a filter of two bits, that mix two of
\* them, and that make every address collide.
MCHashes == {[a \in Addr |-> {a % 2}], [a \in Addr |-> {a % 2, (a \div 2) % 2}], [a \in Addr |-> {0}]}
=============================================================================

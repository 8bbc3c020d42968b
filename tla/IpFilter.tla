------------------------------ MODULE IpFilter ------------------------------
(***************************************************************************)
(* The address filter (net/core/ip_filter.cpp): ip_filter::init reads the  *)
(* list of blocked addresses into a binary trie (util/bitwise_trie.h) and  *)
(* a Bloom filter in front of it (util/bloom_filter.h); the accept loop    *)
(* then asks is_blocked for the address of each client.                    *)
(*                                                                         *)
(* An address is a number of Width bits (32 in the code), a prefix of at   *)
(* least ExpandFrom bits (24) is written out address by address.  A trie   *)
(* node is named by its depth and the bits above it.  The three FNV hashes *)
(* of an address are the set of positions they set, for an arbitrary       *)
(* choice of positions: what holds, holds whatever collides.               *)
(***************************************************************************)
EXTENDS Integers, Sequences, FiniteSets

CONSTANTS
  Width,       \* bits of an address
  ExpandFrom,  \* shortest prefix that is expanded
  Position,    \* indices of the Bloom filter's bit vector
  Hashes,      \* the hash functions considered: address -> positions
  Line,        \* the lines a list may hold
  MaxLines     \* bound: length of a list

ASSUME WidthAssumption == Width \in Nat /\ ExpandFrom \in 0..Width /\ MaxLines \in Nat

\* A fact of arithmetic the provers do not have.
ASSUME PowersOfTwo == \A j \in 0..Width : 2^j \in Nat \ {0}

Addr == 0 .. (2^Width - 1)

(***************************************************************************)
(* A line after getline, find('/'), inet_pton and stoi have looked at it:  *)
(* empty or a comment, one address, or an address and a prefix length.     *)
(* valid: inet_pton accepts the address; mask NoNumber: stoi throws.       *)
(***************************************************************************)
NoNumber == -1000

LineOK(l) ==
  \/ l.kind = "skip"
  \/ l.kind = "ip" /\ l.valid \in BOOLEAN /\ l.addr \in Addr
  \/ l.kind = "cidr" /\ l.valid \in BOOLEAN /\ l.addr \in Addr /\ l.mask \in Int

ASSUME InputAssumption ==
  /\ \A l \in Line : LineOK(l)
  /\ Hashes \subseteq [Addr -> SUBSET Position]

VARIABLES
  status,  \* "loading" (in init), "ready" (init has returned), "thrown"
  todo,    \* the lines getline has not returned yet
  done,    \* the lines read so far
  nodes,   \* trie nodes that exist, the root excepted
  valued,  \* trie nodes that hold a value
  bits,    \* Bloom filter positions that are true
  hash     \* the hash function of this build

filterVars == <<status, todo, done, nodes, valued, bits, hash>>

(***************************************************************************)
(* The trie: the node of key k at depth d, after the d highest bits.       *)
(***************************************************************************)
NodeOf(k, d) == <<d, k \div 2^(Width - d)>>

PathOf(k) == {NodeOf(k, d) : d \in 1..Width}

\* search walks down the path; a missing child ends it.
Search(k) == PathOf(k) \subseteq nodes /\ NodeOf(k, Width) \in valued

\* contains: every hash of the key finds its bit set.
Contains(k) == hash[k] \subseteq bits

\* is_blocked asks the Bloom filter first.
IsBlocked(k) == Contains(k) /\ Search(k)

(***************************************************************************)
(* add_cidr: the addresses it calls add_ip with.                           *)
(***************************************************************************)
Expand(addr, mask) ==
  LET num_ips == 2^(Width - mask)
      base_ip == addr - (addr % num_ips)
  IN  {base_ip + i : i \in 0 .. (num_ips - 1)}

\* Past the early returns: inet_pton accepts the address, the prefix length fits.
Accepted(l) == l.kind # "skip" /\ l.valid /\ (l.kind = "cidr" => l.mask \in 1..Width)

AddrsOf(l) ==
  IF ~Accepted(l) THEN {}
  ELSE IF l.kind = "cidr" /\ l.mask >= ExpandFrom THEN Expand(l.addr, l.mask)
  ELSE {l.addr}

Throws(l) == l.kind = "cidr" /\ l.mask = NoNumber

-----------------------------------------------------------------------------
\* The list cannot be opened (init returns at once), or it is read from the top.
FilterInit ==
  /\ hash \in Hashes
  /\ todo \in UNION {[1..n -> Line] : n \in 0..MaxLines}
  /\ status \in {"loading", "ready"}
  /\ status = "ready" => todo = <<>>
  /\ done = {} /\ nodes = {} /\ valued = {} /\ bits = {}

\* Mutant: the Bloom filter learns the first address of a range only.
AddIpsTrieOnly(S) ==
  /\ nodes' = nodes \cup UNION {PathOf(k) : k \in S}
  /\ valued' = valued \cup {NodeOf(k, Width) : k \in S}
  /\ bits' = bits \cup UNION {hash[k] : k \in {j \in S : \A i \in S : j <= i}}

\* add_ip, for every address of a set.
AddIps(S) ==
  /\ nodes' = nodes \cup UNION {PathOf(k) : k \in S}
  /\ valued' = valued \cup {NodeOf(k, Width) : k \in S}
  /\ bits' = bits \cup UNION {hash[k] : k \in S}

ReadLine ==
  /\ status = "loading" /\ todo # <<>>
  /\ ~Throws(Head(todo))
  /\ AddIps(AddrsOf(Head(todo)))
  /\ todo' = Tail(todo)
  /\ done' = done \cup {Head(todo)}
  /\ UNCHANGED <<status, hash>>

\* stoi throws, nobody catches: the server ends before it listens.
LineThrows ==
  /\ status = "loading" /\ todo # <<>>
  /\ Throws(Head(todo))
  /\ status' = "thrown"
  /\ UNCHANGED <<todo, done, nodes, valued, bits, hash>>

EndOfList ==
  /\ status = "loading" /\ todo = <<>>
  /\ status' = "ready"
  /\ UNCHANGED <<todo, done, nodes, valued, bits, hash>>

FilterNext == ReadLine \/ LineThrows \/ EndOfList

FilterSpec == FilterInit /\ [][FilterNext]_filterVars

-----------------------------------------------------------------------------
(***************************************************************************)
(* What a line stands for, as the comment on add_cidr has it: a prefix of  *)
(* any length is every address that begins with it, a single address is    *)
(* itself; a line that is not accepted stands for nothing.                 *)
(***************************************************************************)
SamePrefix(a, b, mask) == a \div 2^(Width - mask) = b \div 2^(Width - mask)

Named(l) == {a \in Addr :
  /\ Accepted(l)
  /\ \/ a = l.addr
     \/ l.kind = "cidr" /\ SamePrefix(a, l.addr, l.mask)}

\* The trie behind the Bloom filter answers for the list: is_blocked holds only of
\* addresses that a line read so far stands for, and of every one of those, except
\* that of a prefix shorter than ExpandFrom it holds of the address written.  No
\* collision of hashes and no shared trie path adds an address or hides one.
BlocksListed ==
  \A a \in Addr :
    /\ IsBlocked(a) => \E l \in done : a \in Named(l)
    /\ \A l \in done :
         a \in Named(l) /\ (l.kind = "cidr" /\ l.mask < ExpandFrom => a = l.addr) => IsBlocked(a)

\* The comment on add_cidr: a range is added to the list, whatever its prefix
\* length.  Fails: a prefix shorter than ExpandFrom adds the address written only.
RangeBlocked == \A l \in done : \A a \in Named(l) : IsBlocked(a)
=============================================================================

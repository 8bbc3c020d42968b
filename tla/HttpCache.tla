------------------------------ MODULE HttpCache ------------------------------
(***************************************************************************)
(* http_cache: responses in two levels, memory_cache before the records    *)
(* that persistent_cache keeps in RocksDB.  All calls come from one        *)
(* thread.  A response is known by what store and lookup tell apart:       *)
(*   kind     "ok" (complete, 2xx), or "refused": it does not parse, ends  *)
(*            early or has another status                                  *)
(*   size     of the text received; `rebuilt' is the size of the text that *)
(*            rebuild_response makes of its record                         *)
(*   maxAge   what parse_max_age finds in Cache-Control, -1 for nothing    *)
(*   expires  the time in its Expires header, None without one             *)
(*   etag, modified   its validators, None for an empty one                *)
(***************************************************************************)
EXTENDS MemoryCache

CONSTANTS
  Target,      \* what a request asks for: [url, encoding]
  Response,    \* what the origin servers may answer
  Limits,      \* arguments of configure_l1: [entries, bytes]
  L1MaxBody,   \* kL1MaxBodySize
  DefaultTtl,  \* the time to live without max-age (3600)
  MaxInt,      \* largest int64_t
  Lower,       \* to_lower_ascii and trim_quotes of an entity tag, a function
  MaxTime,     \* bound on the clock
  None

\* build_cache_key: host, port and method come first and are the same for all
\* targets here.  A URL may hold the separator too.
BuildKey(t) ==
  t.url \o (IF t.encoding = None THEN <<>> ELSE <<"|", t.encoding>>)

Key == {BuildKey(t) : t \in Target}

NoLimits == [entries |-> 0, bytes |-> 0]

ASSUME CacheAssumption ==
  /\ \A r \in Response : /\ {r.size, r.rebuilt} \subseteq Nat
                         /\ r.maxAge \in Nat \cup {-1} /\ r.maxAge <= MaxInt
  /\ Limits \subseteq [entries : Nat, bytes : Nat]
  /\ {L1MaxBody, DefaultTtl, MaxInt, MaxTime} \subseteq Nat
  /\ None \notin Response /\ None \notin [resp : Response, at : Nat, ttl : Nat]

VARIABLES
  l1, limits,   \* l1_cache_ and its max_entries_, max_bytes_
  ready,        \* ready()
  db,           \* the database: a record for a key, or None
  now,          \* now_unix_sec()
  reply,        \* the result of the last call of lookup, None after another step
  latest,       \* history: the response last stored under a key
  since,        \* history: the responses stored under a key since the last one that
                \* fits the first level, that one included
  recent        \* history: the keys of l1_cache_ by their last put or hit, the
                \* latest first, whether or not they are still there

stored == <<latest, since>>
vars == <<l1, limits, ready, db, now, reply, stored, recent>>

\* The text of a response as it came, or as rebuild_response writes it.
Text   == [resp : Response, form : {"received", "rebuilt"}]
Weight(text) == IF text.form = "received" THEN text.resp.size ELSE text.resp.rebuilt
Record == [resp : Response, at : Nat, ttl : Nat]
Node   == [key : Key, value : Text, weight : Nat]

\* The validators of a request are those of the response its client holds.
Held  == Response \cup {None}
Reply == [status : {"bypass", "error", "miss"}]
         \cup [status : {"notModified"}, key : Key, held : Response]
         \cup [status : {"hit"}, key : Key, level : {1, 2}, text : Text]

\* Every value is one that the declarations of the three classes allow.
TypeOK ==
  /\ l1 \in [list : Seq(Node), map : SUBSET Key, total : Int]
  /\ limits \in Limits \cup {NoLimits}
  /\ ready \in BOOLEAN
  /\ db \in [Key -> Record \cup {None}]
  /\ now \in 0..MaxTime
  /\ reply \in Reply \cup {None}
  /\ latest \in [Key -> Response \cup {None}]
  /\ since \in [Key -> SUBSET Response]
  /\ recent \in Seq(Key)

Init ==
  /\ l1 = EmptyCache /\ limits = NoLimits
  /\ ready = FALSE
  /\ db = [k \in Key |-> None]
  /\ now = 0
  /\ reply = None
  /\ latest = [k \in Key |-> None] /\ since = [k \in Key |-> {}]
  /\ recent = <<>>

-----------------------------------------------------------------------------
(* The record of a response.                                               *)

\* An Expires header makes no difference.
ComputeTtl(r) == IF r.maxAge >= 0 THEN r.maxAge ELSE DefaultTtl

\* is_fresh; the signed sum may overflow, and then either answer is possible.
Fresh(e) == IF e.at + e.ttl > MaxInt THEN BOOLEAN ELSE {e.at + e.ttl >= now}

\* Mutant: an entity tag that differs leaves the decision to the date.
EitherValidator(held, r) ==
  /\ held # None
  /\ \/ held.etag # None /\ r.etag # None /\ Lower[held.etag] = Lower[r.etag]
     \/ held.modified # None /\ r.modified # None /\ held.modified = r.modified

\* check_not_modified: the date decides only if one side has no entity tag.
NotModified(held, r) ==
  /\ held # None
  /\ IF held.etag # None /\ r.etag # None
     THEN Lower[held.etag] = Lower[r.etag]
     ELSE held.modified # None /\ r.modified # None /\ held.modified = r.modified

-----------------------------------------------------------------------------
(* The operations.                                                         *)

\* A use of a key; nothing is recorded of a disabled cache.
Used(k) ==
  IF \E i \in DOMAIN recent : recent[i] = k
  THEN Splice(recent, CHOOSE i \in DOMAIN recent : recent[i] = k, k)
  ELSE <<k>> \o recent

\* l1_cache_.put
PutL1(k, text) ==
  /\ l1' = Put(l1, limits, [key |-> k, value |-> text, weight |-> Weight(text)])
  /\ recent' = IF Disabled(limits) THEN recent ELSE Used(k)

\* The histories: r is stored under k; the first level is empty.
Remember(k, r) ==
  /\ latest' = [latest EXCEPT ![k] = r]
  /\ since' = [since EXCEPT ![k] = IF r.size > L1MaxBody THEN @ \cup {r} ELSE {r}]

OnlyLatestCounts ==
  /\ since' = [k \in Key |-> {latest[k]} \ {None}]
  /\ UNCHANGED latest

Open ==
  /\ ~ready
  /\ ready' = TRUE
  /\ reply' = None
  /\ UNCHANGED <<l1, limits, db, now, stored, recent>>

ConfigureL1(lim) ==
  /\ limits' = lim
  /\ l1' = EmptyCache
  /\ recent' = <<>> /\ OnlyLatestCounts
  /\ reply' = None
  /\ UNCHANGED <<ready, db, now>>

\* lookup without a change of the cache: a request that is not a GET, or no
\* database.
LookupRefused ==
  /\ reply' \in {[status |-> "bypass"]} \cup (IF ready THEN {} ELSE {[status |-> "error"]})
  /\ UNCHANGED <<l1, limits, ready, db, now, stored, recent>>

\* The first level has the key; neither age nor validators are looked at.
LookupL1(t) ==
  LET k == BuildKey(t)
  IN  /\ ready
      /\ k \in l1.map
      /\ reply' = [status |-> "hit", key |-> k, level |-> 1,
                   text |-> l1.list[PlaceOf(l1.list, k)].value]
      /\ l1' = Touch(l1, k)
      /\ recent' = Used(k)
      /\ UNCHANGED <<limits, ready, db, now, stored>>

\* No record, a read error or a record that does not parse, or an old record.
LookupMiss(t) ==
  /\ ready
  /\ BuildKey(t) \notin l1.map
  /\ reply' = [status |-> "miss"]
  /\ UNCHANGED <<l1, limits, ready, db, now, stored, recent>>

LookupNotModified(t, held) ==
  LET e == db[BuildKey(t)]
  IN  /\ ready
      /\ BuildKey(t) \notin l1.map
      /\ e # None
      /\ TRUE \in Fresh(e)
      /\ NotModified(held, e.resp)
      /\ reply' = [status |-> "notModified", key |-> BuildKey(t), held |-> held]
      /\ UNCHANGED <<l1, limits, ready, db, now, stored, recent>>

\* The request has no validators, or others.
LookupL2(t) ==
  LET k == BuildKey(t)
      e == db[k]
      text == [resp |-> e.resp, form |-> "rebuilt"]
  IN  /\ ready
      /\ k \notin l1.map
      /\ e # None
      /\ TRUE \in Fresh(e)
      /\ {held \in Held : ~NotModified(held, e.resp)} # {}
      /\ reply' = [status |-> "hit", key |-> k, level |-> 2, text |-> text]
      /\ IF Weight(text) <= L1MaxBody THEN PutL1(k, text) ELSE UNCHANGED <<l1, recent>>
      /\ UNCHANGED <<limits, ready, db, now, stored>>

\* store returns false: not a GET, not open, a response that persistent_cache
\* refuses, or a write that fails.
StoreRefused ==
  /\ reply' = None
  /\ UNCHANGED <<l1, limits, ready, db, now, stored, recent>>

\* Mutant: the first level is written before it is known whether the second is.
StoreL1First(t, r) ==
  LET k == BuildKey(t)
      text == [resp |-> r, form |-> "received"]
  IN  /\ ready
      /\ r.kind = "ok"
      /\ IF Weight(text) <= L1MaxBody THEN PutL1(k, text) ELSE UNCHANGED <<l1, recent>>
      /\ \/ /\ db' = [db EXCEPT ![k] = [resp |-> r, at |-> now, ttl |-> ComputeTtl(r)]]
            /\ Remember(k, r)
         \/ UNCHANGED <<db, stored>>
      /\ reply' = None
      /\ UNCHANGED <<limits, ready, now>>

Store(t, r) ==
  LET k == BuildKey(t)
      text == [resp |-> r, form |-> "received"]
  IN  /\ ready
      /\ r.kind = "ok"
      /\ db' = [db EXCEPT ![k] = [resp |-> r, at |-> now, ttl |-> ComputeTtl(r)]]
      /\ Remember(k, r)
      /\ IF Weight(text) <= L1MaxBody THEN PutL1(k, text) ELSE UNCHANGED <<l1, recent>>
      /\ reply' = None
      /\ UNCHANGED <<limits, ready, now>>

Tick ==
  /\ now < MaxTime
  /\ now' = now + 1
  /\ reply' = None
  /\ UNCHANGED <<l1, limits, ready, db, stored, recent>>

\* A new process: the database is what is left.
Restart ==
  /\ l1' = EmptyCache /\ limits' = NoLimits
  /\ ready' = FALSE
  /\ recent' = <<>> /\ OnlyLatestCounts
  /\ reply' = None
  /\ UNCHANGED <<db, now>>

Lookup(t) ==
  \/ LookupL1(t)
  \/ LookupMiss(t)
  \/ \E held \in Held : LookupNotModified(t, held)
  \/ LookupL2(t)

Next ==
  \/ Open
  \/ \E lim \in Limits : ConfigureL1(lim)
  \/ LookupRefused
  \/ \E t \in Target : Lookup(t)
  \/ StoreRefused
  \/ \E t \in Target, r \in Response : Store(t, r)
  \/ Tick
  \/ Restart

Spec == Init /\ [][Next]_vars

-----------------------------------------------------------------------------
(* Properties.                                                             *)

\* memory_cache: the list, the map and the weight agree whatever was updated,
\* evicted or too heavy to stay, and both budgets are kept between two calls.
L1Sound ==
  /\ Sound(l1)
  /\ Len(l1.list) <= limits.entries
  /\ l1.total <= limits.bytes

\* memory_cache: what is left after evictions is what was used last, in the
\* order of its use, hits and promotions from the database included.
IsLru ==
  /\ Len(l1.list) <= Len(recent)
  /\ \A i \in DOMAIN l1.list : l1.list[i].key = recent[i]

\* lookup: a hit from the database is the response last stored under the key of
\* the request, across promotions, restarts and failed writes.  A hit from the
\* first level is that one, or else only responses too large for that level were
\* stored after it: no eviction, promotion or failed write brings an older one back.
HitIsLatest ==
  reply # None /\ reply.status = "hit" =>
    LET k == reply.key
    IN  IF reply.level = 2 THEN reply.text.resp = latest[k] ELSE reply.text.resp \in since[k]

\* What the comparison of check_not_modified cannot tell apart.
SameTag(r, s) == r.etag # None /\ s.etag # None /\ Lower[r.etag] = Lower[s.etag]
SameDate(r, s) ==
  (r.etag = None \/ s.etag = None) /\ r.modified # None /\ r.modified = s.modified

\* lookup: a client that is told 304 holds the response last stored under the key
\* of its request, except where an origin server's validators are too coarse: two
\* entity tags that differ in case only, or two dates of the same second where a
\* tag is missing.  Equal dates never override tags that differ, and a record that
\* was replaced, before a restart or after, confirms nothing.
HeldIsCurrent ==
  reply # None /\ reply.status = "notModified" =>
    LET last == latest[reply.key]
    IN  /\ last # None
        /\ reply.held = last \/ SameTag(reply.held, last) \/ SameDate(reply.held, last)

\* The claim of the documentation that hits are fresh by max-age and Expires.
\* It does not hold: the first level keeps no time, and Expires is not read.
HitIsFresh ==
  reply # None /\ reply.status = "hit" =>
    LET r == reply.text.resp
        e == db[reply.key]
    IN  /\ r = e.resp => e.at + e.ttl >= now
        /\ r.maxAge < 0 /\ r.expires # None => r.expires >= now

\* The claim that a hit is the response last stored.  It does not hold: a large
\* response does not replace a smaller one in the first level.
HitIsNewest ==
  reply # None /\ reply.status = "hit" => reply.text.resp = latest[reply.key]

\* The claims that a key is unique to its request, and that a client told 304 is
\* up to date.  Neither holds: a URL may end like an encoding, and validators are
\* compared without case.
KeysAreUnique == \A t, u \in Target : BuildKey(t) = BuildKey(u) => t = u

ConfirmsOnlyLatest ==
  reply # None /\ reply.status = "notModified" => reply.held = latest[reply.key]
=============================================================================

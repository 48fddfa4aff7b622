-------------------------- MODULE HiveMetadataCache --------------------------
(***************************************************************************)
(* HiveMetadataCache and the way HiveSchemaService calls it: a TTL/LRU      *)
(* cache in front of HiveServer2.  The loader runs outside the state lock,  *)
(* so requests for one key may load side by side and store in any order.    *)
(* Upstream metadata is a version number per key.  A schema with its DDL is  *)
(* read in two statements, so a result is two versions, equal but for such   *)
(* a key.  The OrderedDict is a function of the keys it holds and the order  *)
(* of those keys.                                                           *)
(***************************************************************************)
EXTENDS Naturals, FiniteSets

CONSTANTS Calls,       \* request coroutines; each may issue many requests
          Keys,        \* canonical cache keys
          WithDDL,     \* those of schemas that include the DDL
          Capacity,    \* MAX_CACHE_ENTRIES
          TTL,         \* cache_ttl_seconds, 0 disables the cache
          MaxTime,     \* bound on the monotonic clock
          MaxVersion   \* bound on upstream changes of one key

ASSUME CacheAssumption == /\ Capacity \in Nat \ {0}
                          /\ TTL \in Nat
                          /\ MaxTime \in Nat
                          /\ MaxVersion \in Nat

VARIABLES
  entries,   \* the OrderedDict: what is stored under the keys it holds
  order,     \* and the order of its keys: <<j, k>> if j comes before k
  now,       \* time.monotonic()
  upstream,  \* current version of each key's metadata
  pc,        \* per call: idle, loading, described, loaded, answered
  key,       \* per call: the key asked for
  value,     \* per call: the versions its loader read
  reply,     \* per call: the answer being delivered
  floor,     \* per call: upstream version when the request began (history)
  lastPut,   \* per key: version and time of the last put (history)
  recency    \* <<j, k>>: k was used or put after the last time j was (history)

historyVars == <<floor, lastPut, recency>>
cacheVars == <<entries, order>>
vars == <<cacheVars, now, upstream, pc, key, value, reply, historyVars>>

None == [kind |-> "none"]
NoKey == "none"

\* Of a schema with its DDL: what DESCRIBE read, and SHOW CREATE TABLE.
Versions == (0..MaxVersion) \X (0..MaxVersion)
Unread == <<0, 0>>

TypeOK ==
  /\ DOMAIN entries \subseteq Keys
  /\ entries \in [DOMAIN entries -> [value : Versions, expiresAt : 0..(MaxTime + TTL)]]
  /\ order \in SUBSET (Keys \X Keys)
  /\ now \in 0..MaxTime
  /\ upstream \in [Keys -> 0..MaxVersion]
  /\ pc \in [Calls -> {"idle", "loading", "described", "loaded", "answered"}]
  /\ key \in [Calls -> Keys \cup {NoKey}]
  /\ value \in [Calls -> Versions]
  /\ reply \in [Calls -> {None, [kind |-> "error"]}
                       \cup [kind : {"result"}, value : Versions, cached : BOOLEAN]]
  /\ floor \in [Calls -> 0..MaxVersion]
  /\ lastPut \in [Keys -> {None} \cup [kind : {"put"}, value : Versions, at : 0..MaxTime]]
  /\ recency \in SUBSET (Keys \X Keys)

Init ==
  /\ entries = [k \in {} |-> 0]
  /\ order = {}
  /\ now = 0
  /\ upstream = [k \in Keys |-> 0]
  /\ pc = [c \in Calls |-> "idle"]
  /\ key = [c \in Calls |-> NoKey]
  /\ value = [c \in Calls |-> Unread]
  /\ reply = [c \in Calls |-> None]
  /\ floor = [c \in Calls |-> 0]
  /\ lastPut = [k \in Keys |-> None]
  /\ recency = {}

------------------------------------------------------------------------------
(* The ordered dictionary.                                                  *)

Cached(k) == k \in DOMAIN entries

\* An entry expires when the clock reaches expires_at; the variant serves it
\* at that instant too.
LiveAtExpiry(e) == now <= e.expiresAt
Live(e) == now < e.expiresAt

Hit(k) == Cached(k) /\ Live(entries[k])

\* del.
Only(keys) ==
  /\ entries' = [k \in keys |-> entries[k]]
  /\ order' = order \cap (keys \X keys)

\* move_to_end of one of the keys.
ToEnd(before, keys, k) == {p \in before : k \notin {p[1], p[2]}} \cup ((keys \ {k}) \X {k})

\* _get: an expired entry is deleted, a hit moves to the end.  The variant
\* does not move.
GetInPutOrder(k) ==
  IF Hit(k) THEN UNCHANGED cacheVars ELSE Only(DOMAIN entries \ {k})
Get(k) ==
  IF Hit(k) THEN order' = ToEnd(order, DOMAIN entries, k) /\ UNCHANGED entries
  ELSE Only(DOMAIN entries \ {k})

\* expires_at of a put.
Expiry == now + TTL

\* What popitem(last=False) leaves: the last MAX_CACHE_ENTRIES of the keys.
Kept(keys, before) == {k \in keys : Cardinality({j \in keys : <<k, j>> \in before}) < Capacity}

\* _put: drop what expired, store at the recent end, evict from the old end.
Put(k, v) ==
  LET fresh == {j \in DOMAIN entries : Live(entries[j])}
      stored == fresh \cup {k}
      moved == ToEnd(order \cap (fresh \X fresh), stored, k)
      kept == Kept(stored, moved)
  IN  /\ entries' = [j \in kept |-> IF j = k THEN [value |-> v, expiresAt |-> Expiry]
                                    ELSE entries[j]]
      /\ order' = moved \cap (kept \X kept)

Used(k) == recency' = ToEnd(recency, Keys, k)

------------------------------------------------------------------------------

Result(v, cached) == [kind |-> "result", value |-> v, cached |-> cached]

\* get_or_load up to its first await: a hit is answered at once.
Request(c, k) ==
  /\ pc[c] = "idle"
  /\ key' = [key EXCEPT ![c] = k]
  /\ floor' = [floor EXCEPT ![c] = upstream[k]]
  /\ \/ /\ TTL > 0 /\ Hit(k)
        /\ Get(k)
        /\ reply' = [reply EXCEPT ![c] = Result(entries[k].value, TRUE)]
        /\ Used(k)
        /\ pc' = [pc EXCEPT ![c] = "answered"]
     \/ /\ ~(TTL > 0 /\ Hit(k))
        /\ IF TTL > 0 THEN Get(k) ELSE UNCHANGED cacheVars
        /\ pc' = [pc EXCEPT ![c] = "loading"]
        /\ UNCHANGED <<reply, recency>>
  /\ UNCHANGED <<now, upstream, value, lastPut>>

\* HiveServer2 answers the loader's statement with the metadata of now.  A
\* schema with its DDL takes a second statement.
Read(c) ==
  /\ pc[c] = "loading"
  /\ value' = [value EXCEPT ![c] = <<upstream[key[c]], upstream[key[c]]>>]
  /\ pc' = [pc EXCEPT ![c] = IF key[c] \in WithDDL THEN "described" ELSE "loaded"]
  /\ UNCHANGED <<cacheVars, now, upstream, key, reply, historyVars>>

\* SHOW CREATE TABLE, after DESCRIBE.
ReadDDL(c) ==
  /\ pc[c] = "described"
  /\ value' = [value EXCEPT ![c] = <<@[1], upstream[key[c]]>>]
  /\ pc' = [pc EXCEPT ![c] = "loaded"]
  /\ UNCHANGED <<cacheVars, now, upstream, key, reply, historyVars>>

\* What a request that loaded returns, whatever another stored meanwhile.
Loaded(c) == value[c]

\* The result matches the key, is stored and returned.
Store(c) ==
  /\ pc[c] = "loaded"
  /\ pc' = [pc EXCEPT ![c] = "answered"]
  /\ value' = [value EXCEPT ![c] = Unread]
  /\ reply' = [reply EXCEPT ![c] = Result(Loaded(c), FALSE)]
  /\ IF TTL > 0
     THEN /\ Put(key[c], value[c])
          /\ lastPut' = [lastPut EXCEPT ![key[c]] = [kind |-> "put", value |-> value[c], at |-> now]]
          /\ Used(key[c])
     ELSE UNCHANGED <<cacheVars, lastPut, recency>>
  /\ UNCHANGED <<now, upstream, key, floor>>

\* A statement fails, is cancelled, or the result does not match the key
\* (_validated_result): nothing is stored.
LoadFails(c) ==
  /\ pc[c] \in {"loading", "described", "loaded"}
  /\ pc' = [pc EXCEPT ![c] = "answered"]
  /\ value' = [value EXCEPT ![c] = Unread]
  /\ reply' = [reply EXCEPT ![c] = [kind |-> "error"]]
  /\ UNCHANGED <<cacheVars, now, upstream, key, historyVars>>

\* The caller has its answer and may ask again.
Delivered(c) ==
  /\ pc[c] = "answered"
  /\ pc' = [pc EXCEPT ![c] = "idle"]
  /\ key' = [key EXCEPT ![c] = NoKey]
  /\ reply' = [reply EXCEPT ![c] = None]
  /\ floor' = [floor EXCEPT ![c] = 0]
  /\ UNCHANGED <<cacheVars, now, upstream, value, lastPut, recency>>

\* The metadata of a key changes in Hive.
Altered(k) ==
  /\ upstream[k] < MaxVersion
  /\ upstream' = [upstream EXCEPT ![k] = @ + 1]
  /\ UNCHANGED <<cacheVars, now, pc, key, value, reply, historyVars>>

Tick == /\ now < MaxTime
        /\ now' = now + 1
        /\ UNCHANGED <<cacheVars, upstream, pc, key, value, reply, historyVars>>

Next == \/ \E c \in Calls : \/ \E k \in Keys : Request(c, k)
                            \/ Read(c) \/ ReadDDL(c) \/ Store(c) \/ LoadFails(c) \/ Delivered(c)
        \/ \E k \in Keys : Altered(k)
        \/ Tick

Spec == Init /\ [][Next]_vars

------------------------------------------------------------------------------
(* Properties.                                                              *)

\* An answer marked cached is the one stored last for its key, less than TTL
\* ago: no put is undone, resurrected, or served past its time.
HitIsLastPut ==
  [][\A c \in Calls :
       pc[c] = "idle" /\ pc'[c] = "answered" =>
         LET put == lastPut[key'[c]]
         IN put # None /\ reply'[c] = Result(put.value, TRUE) /\ now < put.at + TTL]_vars

\* What was read of a key since a version of it was current: neither half is
\* older, and the DDL is not older than the columns.
ReadSince(k, version, v) ==
  /\ v[1] \in version..upstream[k] /\ v[2] \in v[1]..upstream[k]
  /\ k \notin WithDDL => v[1] = v[2]

\* An answer not marked cached was current in Hive at some moment of the
\* request, each half of a schema with its DDL for itself: never older than what
\* Hive held when the request began, even if another request stored an older
\* result in the meantime.
MissIsFresh ==
  [][\A c \in Calls :
       pc[c] = "loaded" /\ reply'[c].kind = "result" =>
         ~reply'[c].cached /\ ReadSince(key[c], floor[c], reply'[c].value)]_vars

\* Every answer says truly how old it may be: since the last load for its key
\* if it is marked cached, since the request began if it is not.
AnswersHonest == HitIsLastPut /\ MissIsFresh

\* Stronger, and broken by a table that is altered between DESCRIBE and SHOW
\* CREATE TABLE: an answer was current as a whole at some moment.
AnswersOfOneMoment ==
  [][\A c \in Calls : reply'[c].kind = "result" => reply'[c].value[1] = reply'[c].value[2]]_vars

\* A live entry leaves the cache only for another key, when the cache is
\* full, and only if every other live entry was used more recently; the cache
\* never holds more than MAX_CACHE_ENTRIES.
EvictsLeastRecent ==
  [][/\ Cardinality(DOMAIN entries') <= Capacity
     /\ \A k \in DOMAIN entries \ DOMAIN entries' :
          Live(entries[k]) =>
            /\ Cardinality(DOMAIN entries') = Capacity
            /\ \A j \in DOMAIN entries \ {k} : Live(entries[j]) => <<k, j>> \in recency]_vars
=============================================================================

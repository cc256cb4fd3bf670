----------------------------- MODULE ReadCaches -----------------------------
(***************************************************************************)
(* The read caches in Redis: pages, counts, details, look-ups by e-mail,   *)
(* profiles and searches under users:, timeline pages and events under     *)
(* timeline:.  Readers fill on a miss, prefetches fill unasked, writers    *)
(* change the database and then drop everything under a prefix.            *)
(*                                                                         *)
(* Keys of one account and one page stand for the rest.  What an entry     *)
(* contains is abstracted to whether it is `current`, that is, equal to    *)
(* what the database would answer now.  Which fields it carries is data: a *)
(* look-up by e-mail stores a detail without the timeline events.          *)
(***************************************************************************)
EXTENDS Naturals, Sequences, SequencesExt

CONSTANTS
    Reader, Writer,  \* concurrent reads and writes
    Key,             \* keys that the run follows
    Op,              \* operations that the run follows
    Ttl,             \* USERS_LIST_CACHE_TTL_MS, TIMELINE_CACHE_TTL_MS: 60 s each
    MaxTime,         \* bound on the clock
    Faults           \* "stop": an instance dies or a call rejects in mid-handler

UsersKey    == {"page", "count", "detail", "email", "profile", "search"}
TimelineKey == {"list", "event"}

ASSUME KeyAssumption == Key \subseteq UsersKey \cup TimelineKey
ASSUME TimeAssumption == {Ttl, MaxTime} \subseteq Nat \ {0}

VARIABLES
    now,
    exists,   \* the account has a row
    cache,    \* Redis
    read,     \* reads and prefetches in flight
    write     \* writes in flight

vars == <<now, exists, cache, read, write>>

\* `since` and `raced` are history: since when the content is overtaken, and
\* whether no write is left to drop it
NoEntry == [exp |-> 0, current |-> TRUE, since |-> 0, raced |-> FALSE]
Reading(o, phases, held, current)  ==
    [op |-> o, phases |-> phases, held |-> held, current |-> current]
Writing(label, drops, todo, found) ==
    [op |-> label, drops |-> drops, todo |-> todo, found |-> found]
NoRead  == Reading("none", <<>>, <<>>, TRUE)
NoWrite == Writing("none", <<>>, {}, {})

Cached(k)   == cache[k].exp > now
Outdated(k) == Cached(k) /\ ~cache[k].current

(***************************************************************************)
(* Reads: what each operation queries at once and then sets, in order.     *)
(***************************************************************************)
Fills(o) ==
    CASE o = "findAll"          -> << <<"page">> >>
      [] o = "countUsers"       -> << <<"count">> >>
      [] o = "findOne"          -> << <<"detail", "email">> >>
      [] o = "findByEmail"      -> << <<"email", "detail">> >>
      [] o = "getPublicProfile" -> << <<"profile">> >>
      [] o = "searchUsers"      -> << <<"search">> >>
      [] o = "prefetchUsers"    -> << <<"page">>, <<"count">>, <<"detail", "email", "profile">> >>
      [] o = "findAllByUser"    -> << <<"list", "event">> >>
      [] o = "findEvent"        -> << <<"event">> >>
      [] o = "prefetchTimelines" -> << <<"list", "event">> >>
Prefetch == {"prefetchUsers", "prefetchTimelines"}
ReadOp   == {"findAll", "countUsers", "findOne", "findByEmail", "getPublicProfile", "searchUsers",
             "findAllByUser", "findEvent"} \cup Prefetch

\* what is set when the account has no row: answers that can be empty, and
\* the null of a look-up by e-mail; the other reads end in a 404
Answerable(o) == {"page", "count", "search", "list"} \cup (IF o = "findByEmail" THEN {"email"} ELSE {})

\* getJson: a hit answers and changes nothing
StartRead(r, o) ==
    /\ o \in Op \cap (ReadOp \ Prefetch) /\ read[r] = NoRead
    /\ Fills(o)[1][1] \in Key /\ ~Cached(Fills(o)[1][1])
    /\ read' = [read EXCEPT ![r] = Reading(o, Fills(o), <<>>, TRUE)]
    /\ UNCHANGED <<now, exists, cache, write>>

\* the cron of both prefetches, and the start of an instance, at any time
StartPrefetch(r, o) ==
    /\ o \in Op \cap Prefetch /\ read[r] = NoRead
    /\ read' = [read EXCEPT ![r] = Reading(o, Fills(o), <<>>, TRUE)]
    /\ UNCHANGED <<now, exists, cache, write>>

\* what the answer lets the read set: without a row the first key at most
Answered(o, keys) ==
    IF exists THEN keys ELSE IF keys[1] \in Answerable(o) THEN <<keys[1]>> ELSE <<>>

\* the database answers the next phase
Query(r) ==
    /\ read[r].phases # <<>> /\ read[r].held = <<>>
    /\ LET keys == Answered(read[r].op, read[r].phases[1])
           rest == Tail(read[r].phases)
       IN  read' = [read EXCEPT ![r] =
             IF keys = <<>> /\ rest = <<>> THEN NoRead
             ELSE Reading(@.op, rest, keys, TRUE)]
    /\ UNCHANGED <<now, exists, cache, write>>

Answer(r) == [exp |-> now + Ttl, current |-> read[r].current,
              since |-> IF read[r].current THEN 0 ELSE now, raced |-> ~read[r].current]

Advance(r) == read' = [read EXCEPT ![r] =
    IF Len(@.held) = 1 /\ @.phases = <<>> THEN NoRead
    ELSE Reading(@.op, @.phases, Tail(@.held), @.current)]

\* Mutant: setJson is called without its ttl.
FillForever(r) ==
    /\ read[r].held # <<>>
    /\ cache' = [k \in Key |-> IF k = read[r].held[1]
                               THEN [Answer(r) EXCEPT !.exp = @ + MaxTime] ELSE cache[k]]
    /\ Advance(r)
    /\ UNCHANGED <<now, exists, write>>

\* the next setJson with what the query answered
Fill(r) ==
    /\ read[r].held # <<>>
    /\ cache' = [k \in Key |-> IF k = read[r].held[1] THEN Answer(r) ELSE cache[k]]
    /\ Advance(r)
    /\ UNCHANGED <<now, exists, write>>

StopRead(r) ==
    /\ "stop" \in Faults /\ read[r] # NoRead
    /\ read' = [read EXCEPT ![r] = NoRead]
    /\ UNCHANGED <<now, exists, cache, write>>

(***************************************************************************)
(* Writes: what changes with the commit, and which prefixes are dropped.   *)
(***************************************************************************)
WriteOp == {"createUser", "register", "changeEmail", "updateUser", "deleteUser", "eventWrite"}

Touches(o) ==
    CASE o = "deleteUser" -> UsersKey \cup TimelineKey
      [] o = "eventWrite" -> {"page", "detail", "email", "profile"} \cup TimelineKey
      [] OTHER            -> UsersKey

\* register and confirmEmailChange leave the lists alone, deleteUser leaves
\* the timeline caches alone though the events go with the account
Drops(o) ==
    CASE o = "eventWrite" -> <<TimelineKey, UsersKey>>
      [] o \in {"register", "changeEmail"} -> <<>>
      [] OTHER -> <<UsersKey>>

\* what Drops leaves behind of what was touched
Forgotten(o) ==
    CASE o = "deleteUser" -> TimelineKey
      [] o \in {"register", "changeEmail"} -> UsersKey
      [] OTHER -> {}

Overtaken(k, forgotten) ==
    [exp |-> cache[k].exp, current |-> FALSE, since |-> IF Outdated(k) THEN cache[k].since ELSE now, raced |-> cache[k].raced \/ forgotten]

Commit(w, o) ==
    /\ o \in Op \cap WriteOp /\ write[w] = NoWrite
    /\ exists = (o \notin {"createUser", "register"})
    /\ exists' = (o # "deleteUser")
    /\ cache' = [k \in Key |->
         IF Cached(k) /\ k \in Touches(o) THEN Overtaken(k, k \in Forgotten(o)) ELSE cache[k]]
    /\ read' = [r \in Reader |->
         IF ToSet(read[r].held) \cap Touches(o) # {} THEN [read[r] EXCEPT !.current = FALSE]
         ELSE read[r]]
    /\ write' = [write EXCEPT ![w] =
         IF Drops(o) = <<>> THEN NoWrite ELSE Writing("begin", Drops(o), {}, {})]
    /\ UNCHANGED now

(***************************************************************************)
(* RedisService.delByPrefix.  SCAN returns every key that is there from    *)
(* the first call to the last, and may or may not return one that comes    *)
(* in between; each batch is deleted before the next call.                 *)
(***************************************************************************)
Matching(w) == {k \in Key : Cached(k) /\ k \in write[w].drops[1]}

BeginScan(w) ==
    /\ write[w].op = "begin"
    /\ write' = [write EXCEPT ![w] = Writing("scan", @.drops, Matching(w), {})]
    /\ UNCHANGED <<now, exists, cache, read>>

\* Mutant: SCAN is called without its MATCH pattern.
BatchAnyKey(w, S) ==
    /\ write[w].op = "scan" /\ S # {} /\ S \subseteq {k \in Key : Cached(k)} \cup write[w].todo
    /\ write' = [write EXCEPT ![w] = Writing("del", @.drops, @.todo \ S, S)]
    /\ UNCHANGED <<now, exists, cache, read>>

Batch(w, S) ==
    /\ write[w].op = "scan" /\ S # {} /\ S \subseteq Matching(w) \cup write[w].todo
    /\ write' = [write EXCEPT ![w] = Writing("del", @.drops, @.todo \ S, S)]
    /\ UNCHANGED <<now, exists, cache, read>>

\* Mutant: only the first batch of SCAN is looked at.
DelOnce(w) ==
    /\ write[w].op = "del"
    /\ cache' = [k \in Key |-> IF k \in write[w].found THEN NoEntry ELSE cache[k]]
    /\ write' = [write EXCEPT ![w] = Writing("scan", @.drops, {}, {})]
    /\ UNCHANGED <<now, exists, read>>

Del(w) ==
    /\ write[w].op = "del"
    /\ cache' = [k \in Key |-> IF k \in write[w].found THEN NoEntry ELSE cache[k]]
    /\ write' = [write EXCEPT ![w] = Writing("scan", @.drops, @.todo, {})]
    /\ UNCHANGED <<now, exists, read>>

\* the cursor is back at 0
EndScan(w) ==
    /\ write[w].op = "scan" /\ write[w].todo = {}
    /\ write' = [write EXCEPT ![w] =
         IF Len(@.drops) = 1 THEN NoWrite ELSE Writing("begin", Tail(@.drops), {}, {})]
    /\ UNCHANGED <<now, exists, cache, read>>

\* the keys that a write in flight has still to drop
Pending(w) == write[w].todo \cup write[w].found \cup
    UNION ToSet(IF write[w].op = "begin" \/ write[w].drops = <<>> THEN write[w].drops
                ELSE Tail(write[w].drops))

StopWrite(w) ==
    /\ "stop" \in Faults /\ write[w] # NoWrite
    /\ write' = [write EXCEPT ![w] = NoWrite]
    /\ cache' = [k \in Key |->
         IF k \in Pending(w) /\ Outdated(k) THEN [cache[k] EXCEPT !.raced = TRUE] ELSE cache[k]]
    /\ UNCHANGED <<now, exists, read>>

Tick ==
    /\ now < MaxTime
    /\ now' = now + 1
    /\ cache' = [k \in Key |-> IF cache[k].exp <= now' THEN NoEntry ELSE cache[k]]
    /\ UNCHANGED <<exists, read, write>>

Init ==
    /\ now = 0 /\ exists \in BOOLEAN
    /\ cache = [k \in Key |-> NoEntry]
    /\ read = [r \in Reader |-> NoRead] /\ write = [w \in Writer |-> NoWrite]

Next ==
    \/ \E r \in Reader : \/ \E o \in ReadOp : StartRead(r, o) \/ StartPrefetch(r, o)
                        \/ Query(r) \/ Fill(r) \/ StopRead(r)
    \/ \E w \in Writer : \/ \E o \in WriteOp : Commit(w, o)
                        \/ \E S \in SUBSET Key : Batch(w, S)
                        \/ BeginScan(w) \/ Del(w) \/ EndScan(w) \/ StopWrite(w)
    \/ Tick

Spec == Init /\ [][Next]_vars

-----------------------------------------------------------------------------
(***************************************************************************)
(* Properties                                                              *)
(***************************************************************************)
\* Entries, reads and writes keep their types; what a write has found, or has
\* yet to find, is of the prefix whose turn it is.
TypeOK ==
    /\ now \in 0 .. MaxTime /\ exists \in BOOLEAN
    /\ cache \in [Key -> [exp : Nat, current : BOOLEAN, since : 0 .. MaxTime,
                          raced : BOOLEAN]]
    /\ \A r \in Reader : read[r].op \in ReadOp \cup {"none"} /\ read[r].held \in Seq(UsersKey \cup TimelineKey)
    /\ \A w \in Writer : /\ write[w].op \in {"none", "begin", "scan", "del"}
                         /\ write[w].todo \cup write[w].found \subseteq Key
                         /\ write[w].op \in {"scan", "del"} =>
                              write[w].todo \cup write[w].found \subseteq write[w].drops[1]

\* Whatever races what, an overtaken answer is served for one TTL at most,
\* from the moment it was overtaken or, if it already was, was stored.
BoundedStaleness == \A k \in Key : Outdated(k) => cache[k].exp <= cache[k].since + Ttl

\* An entry that was in Redis when a write overtook it goes before the write
\* is done, whatever SCAN's batches and the readers in between: delByPrefix
\* misses only what a reader writes late, or what the operation never drops.
InvalidationIsComplete ==
    \A k \in Key : Outdated(k) /\ ~cache[k].raced => \E w \in Writer : k \in Pending(w)
=============================================================================

-------------------------- MODULE ReadCaches_proofs --------------------------
(***************************************************************************)
(* What holds of ReadCaches for any number of reads, writes and keys, and  *)
(* any TTL.  An entry that is still current will not outlive one TTL from  *)
(* now, so the TTL runs from the moment it is overtaken; and a key that a  *)
(* write has marked stays marked until its batch is deleted.               *)
(***************************************************************************)
EXTENDS ReadCaches, SequenceTheorems, TLAPS

AnyKey      == UsersKey \cup TimelineKey
EntryRecord == [exp : Nat, current : BOOLEAN, since : Nat, raced : BOOLEAN]
WriteRecord == [op : {"none", "begin", "scan", "del"}, drops : Seq(SUBSET AnyKey),
                todo : SUBSET Key, found : SUBSET Key]

\* a write has prefixes to drop while it runs, and marks keys while it scans
Dropping(w) ==
    /\ write[w].op = "none" => write[w].drops = <<>>
    /\ write[w].op # "none" => write[w].drops # <<>>
    /\ write[w].op \in {"none", "begin"} => write[w].todo = {}
    /\ write[w].op # "del" => write[w].found = {}

Fresh == \A k \in Key : Cached(k) /\ cache[k].current => cache[k].exp <= now + Ttl

CacheInv ==
    /\ now \in Nat /\ exists \in BOOLEAN
    /\ cache \in [Key -> EntryRecord] /\ write \in [Writer -> WriteRecord]
    /\ \A r \in Reader : read[r].current \in BOOLEAN
    /\ \A w \in Writer : Dropping(w)
    /\ Fresh /\ BoundedStaleness /\ InvalidationIsComplete

LEMMA Constants == Ttl \in Nat /\ MaxTime \in Nat
BY TimeAssumption

LEMMA NoEntryRecord == NoEntry \in EntryRecord /\ NoEntry.exp = 0 /\ NoEntry.current = TRUE
BY DEF NoEntry, EntryRecord

LEMMA WritingRecord ==
    ASSUME NEW label \in {"none", "begin", "scan", "del"}, NEW drops \in Seq(SUBSET AnyKey),
           NEW todo \in SUBSET Key, NEW found \in SUBSET Key
    PROVE  /\ Writing(label, drops, todo, found) \in WriteRecord
           /\ Writing(label, drops, todo, found).op = label
           /\ Writing(label, drops, todo, found).drops = drops
           /\ Writing(label, drops, todo, found).todo = todo
           /\ Writing(label, drops, todo, found).found = found
BY DEF Writing, WriteRecord

LEMMA NoWriteRecord ==
    /\ NoWrite \in WriteRecord /\ NoWrite.op = "none" /\ NoWrite.drops = <<>>
    /\ NoWrite.todo = {} /\ NoWrite.found = {}
<1>1. <<>> \in Seq(SUBSET AnyKey) /\ {} \in SUBSET Key
  OBVIOUS
<1> QED  BY <1>1 DEF NoWrite, Writing, WriteRecord

\* The keys that a write has marked, or will mark.
LEMMA PendingNone ==
    ASSUME NEW w, write[w].drops = <<>>, write[w].todo = {}, write[w].found = {}
    PROVE  Pending(w) = {}
BY DEF Pending, ToSet

LEMMA SetOfTail ==
    ASSUME NEW S, NEW s \in Seq(S), s # <<>>
    PROVE  /\ ToSet(s) = {s[1]} \cup ToSet(Tail(s))
           /\ Tail(s) \in Seq(S) /\ s[1] \in S
           /\ Len(s) = 1 => Tail(s) = <<>>
           /\ Len(s) # 1 => Tail(s) # <<>>
<1>1. Len(s) \in Nat \ {0} /\ Tail(s) \in Seq(S) /\ Len(Tail(s)) = Len(s) - 1
  OBVIOUS
<1>2. \A i \in 1 .. Len(s) - 1 : Tail(s)[i] = s[i + 1]
  OBVIOUS
<1>3. \A i \in 1 .. Len(s) : i = 1 \/ (i - 1 \in 1 .. Len(s) - 1 /\ s[i] = Tail(s)[i - 1])
  BY <1>1, <1>2
<1>4. ToSet(s) = {s[1]} \cup ToSet(Tail(s))
  <2>1. DOMAIN s = 1 .. Len(s) /\ DOMAIN Tail(s) = 1 .. Len(s) - 1 /\ 1 \in DOMAIN s
    BY <1>1
  <2>2. \A i \in 1 .. Len(s) - 1 : i + 1 \in 1 .. Len(s)
    BY <1>1
  <2>3. ASSUME NEW x \in ToSet(s)  PROVE x \in {s[1]} \cup ToSet(Tail(s))
    <3>1. PICK i \in 1 .. Len(s) : x = s[i]
      BY <2>1, <2>3 DEF ToSet
    <3>2. CASE i = 1
      BY <3>1, <3>2
    <3>3. CASE i - 1 \in DOMAIN Tail(s) /\ s[i] = Tail(s)[i - 1]
      BY <3>1, <3>3 DEF ToSet
    <3> QED  BY <1>3, <2>1, <3>2, <3>3
  <2>4. ASSUME NEW x \in {s[1]} \cup ToSet(Tail(s))  PROVE x \in ToSet(s)
    BY <1>2, <2>1, <2>2 DEF ToSet
  <2> QED  BY <2>3, <2>4
<1>5. s[1] \in S
  BY <1>1
<1>6. (Len(s) = 1 => Tail(s) = <<>>) /\ (Len(s) # 1 => Tail(s) # <<>>)
  <2>1. Len(Tail(s)) = 0 <=> Len(s) = 1
    BY <1>1
  <2>2. Tail(s) = <<>> <=> Len(Tail(s)) = 0
    BY <1>1, EmptySeq, Zenon
  <2> QED  BY <2>1, <2>2
<1> QED  BY <1>1, <1>4, <1>5, <1>6

LEMMA InitCaches == Init => CacheInv
<1> SUFFICES ASSUME Init PROVE CacheInv
  OBVIOUS
<1>1. cache \in [Key -> EntryRecord] /\ \A k \in Key : ~Cached(k)
  BY NoEntryRecord DEF Init, Cached
<1>2. write \in [Writer -> WriteRecord]
  BY NoWriteRecord DEF Init
<1>3. \A w \in Writer : Dropping(w)
  BY NoWriteRecord DEF Init, Dropping
<1>4. \A r \in Reader : read[r].current \in BOOLEAN
  BY DEF Init, NoRead, Reading
<1> QED  BY <1>1, <1>2, <1>3, <1>4
         DEF Init, CacheInv, Fresh, BoundedStaleness, InvalidationIsComplete, Outdated

\* Steps that leave the entries as they are, and keep what writes have pending.
LEMMA EntriesStay ==
    ASSUME CacheInv, UNCHANGED <<now, cache>>, exists' \in BOOLEAN,
           write' \in [Writer -> WriteRecord],
           \A r \in Reader : read'[r].current \in BOOLEAN,
           \A w \in Writer : Dropping(w)',
           \A w \in Writer : \A k \in Pending(w) : Outdated(k) => k \in Pending(w)'
    PROVE  CacheInv'
<1>1. \A k : Outdated(k)' <=> Outdated(k)
  BY DEF Outdated, Cached
<1>2. InvalidationIsComplete'
  BY <1>1 DEF CacheInv, InvalidationIsComplete
<1>3. Fresh' /\ BoundedStaleness'
  BY <1>1 DEF CacheInv, Fresh, BoundedStaleness, Cached
<1> QED  BY <1>2, <1>3 DEF CacheInv

LEMMA ReadsPreserve ==
    ASSUME CacheInv, NEW r \in Reader,
           (\E o \in ReadOp : StartRead(r, o) \/ StartPrefetch(r, o)) \/ Query(r) \/ StopRead(r)
    PROVE  CacheInv'
<1>1. UNCHANGED <<now, exists, cache, write>>
  BY DEF StartRead, StartPrefetch, Query, StopRead
<1>2. \A q \in Reader : read'[q].current \in BOOLEAN
  <2>1. PICK x : x.current = TRUE /\ read' = [read EXCEPT ![r] = x]
    BY DEF StartRead, StartPrefetch, Query, StopRead, NoRead, Reading
  <2>2. \A q \in Reader : read'[q] = read[q] \/ read'[q] = x
    BY <2>1
  <2> QED  BY <2>1, <2>2 DEF CacheInv
<1>3. \A w \in Writer : Dropping(w)' /\ Pending(w)' = Pending(w)
  BY <1>1 DEF CacheInv, Dropping, Pending
<1> QED  BY <1>1, <1>2, <1>3, EntriesStay DEF CacheInv

\* The database's answer is stored for one TTL.
LEMMA FillPreserves ==
    ASSUME CacheInv, NEW r \in Reader, Fill(r)
    PROVE  CacheInv'
<1> DEFINE x == Answer(r)
           h == read[r].held[1]
<1>1. /\ cache' = [k \in Key |-> IF k = h THEN x ELSE cache[k]] /\ UNCHANGED <<now, exists, write>>
      /\ Advance(r)
  BY DEF Fill
<1>2. /\ x \in EntryRecord /\ x.exp = now + Ttl
      /\ x.current \/ (x.since = now /\ x.raced = TRUE)
  <2>1. now \in Nat /\ now + Ttl \in Nat /\ read[r].current \in BOOLEAN
    BY Constants DEF CacheInv
  <2>3. CASE read[r].current = TRUE
    <3>1. x = [exp |-> now + Ttl, current |-> TRUE, since |-> 0, raced |-> FALSE]
      BY <2>3 DEF Answer
    <3> HIDE DEF x
    <3> QED  BY <2>1, <3>1 DEF EntryRecord
  <2>4. CASE read[r].current = FALSE
    <3>1. x = [exp |-> now + Ttl, current |-> FALSE, since |-> now, raced |-> TRUE]
      BY <2>4 DEF Answer
    <3> HIDE DEF x
    <3> QED  BY <2>1, <3>1 DEF EntryRecord
  <2> QED  BY <2>1, <2>3, <2>4
<1> HIDE DEF x, h
<1>3. /\ cache' \in [Key -> EntryRecord]
      /\ \A k \in Key : cache'[k] = cache[k] \/ cache'[k] = x
  BY <1>1, <1>2 DEF CacheInv
<1>4. \A q \in Reader : read'[q].current \in BOOLEAN
  <2> DEFINE y == IF Len(read[r].held) = 1 /\ read[r].phases = <<>> THEN NoRead
                  ELSE Reading(read[r].op, read[r].phases, Tail(read[r].held), read[r].current)
  <2>1. read' = [read EXCEPT ![r] = y]
    BY <1>1 DEF Advance
  <2>2. y.current \in BOOLEAN
    BY DEF NoRead, Reading, CacheInv
  <2> HIDE DEF y
  <2>3. \A q \in Reader : read'[q] = read[q] \/ read'[q] = y
    BY <2>1
  <2> QED  BY <2>2, <2>3 DEF CacheInv
<1>5. \A w \in Writer : Dropping(w)' /\ Pending(w)' = Pending(w)
  BY <1>1 DEF CacheInv, Dropping, Pending
<1>6. now' = now /\ now \in Nat /\ Ttl \in Nat
  BY <1>1, Constants DEF CacheInv
<1>7. Fresh'
  BY <1>2, <1>3, <1>6 DEF CacheInv, Fresh, Cached
<1>8. BoundedStaleness'
  BY <1>2, <1>3, <1>6 DEF CacheInv, BoundedStaleness, Outdated, Cached
<1>9. InvalidationIsComplete'
  BY <1>2, <1>3, <1>5, <1>6 DEF CacheInv, InvalidationIsComplete, Outdated, Cached
<1> QED  BY <1>1, <1>3, <1>4, <1>5, <1>6, <1>7, <1>8, <1>9 DEF CacheInv

\* What a commit overtakes and does not forget, it will drop.
LEMMA DropsCover ==
    ASSUME NEW o \in WriteOp
    PROVE  /\ Drops(o) \in Seq(SUBSET AnyKey)
           /\ Touches(o) \ Forgotten(o) \subseteq UNION ToSet(Drops(o))
           /\ Touches(o) \in SUBSET AnyKey
<1>1. UsersKey \in SUBSET AnyKey /\ TimelineKey \in SUBSET AnyKey
  BY DEF AnyKey
<1>2. /\ <<>> \in Seq(SUBSET AnyKey) /\ <<UsersKey>> \in Seq(SUBSET AnyKey)
      /\ <<TimelineKey, UsersKey>> \in Seq(SUBSET AnyKey)
  BY <1>1
<1>3. /\ ToSet(<<UsersKey>>) = {UsersKey}
      /\ ToSet(<<TimelineKey, UsersKey>>) = {TimelineKey, UsersKey}
  BY DEF ToSet
<1>4. {"page", "detail", "email", "profile"} \subseteq UsersKey
  BY DEF UsersKey
<1>5. CASE o = "deleteUser"
  BY <1>1, <1>2, <1>3, <1>5 DEF Drops, Touches, Forgotten
<1>6. CASE o = "eventWrite"
  BY <1>1, <1>2, <1>3, <1>4, <1>6 DEF Drops, Touches, Forgotten
<1>7. CASE o \in {"register", "changeEmail"}
  BY <1>1, <1>2, <1>3, <1>7 DEF Drops, Touches, Forgotten
<1>8. CASE o \in {"createUser", "updateUser"}
  BY <1>1, <1>2, <1>3, <1>8 DEF Drops, Touches, Forgotten
<1> QED  BY <1>5, <1>6, <1>7, <1>8 DEF WriteOp

LEMMA CommitPreserves ==
    ASSUME CacheInv, NEW w \in Writer, NEW o \in WriteOp, Commit(w, o)
    PROVE  CacheInv'
<1>1. now' = now /\ exists' \in BOOLEAN /\ now \in Nat
  BY DEF Commit, CacheInv
<1>2. \A k \in Key :
        /\ Cached(k) /\ k \in Touches(o) => cache'[k] = Overtaken(k, k \in Forgotten(o))
        /\ ~(Cached(k) /\ k \in Touches(o)) => cache'[k] = cache[k]
  BY DEF Commit
<1>3. ASSUME NEW k \in Key
      PROVE  LET x == Overtaken(k, k \in Forgotten(o)) IN
               /\ x \in EntryRecord /\ x.exp = cache[k].exp /\ x.current = FALSE
               /\ x.since = (IF Outdated(k) THEN cache[k].since ELSE now)
               /\ ~x.raced => ~cache[k].raced /\ k \notin Forgotten(o)
  <2>1. cache[k] \in EntryRecord
    BY DEF CacheInv
  <2> DEFINE raced == cache[k].raced \/ k \in Forgotten(o)
             since == IF Outdated(k) THEN cache[k].since ELSE now
  <2>2. raced \in BOOLEAN /\ since \in Nat
    BY <1>1, <2>1 DEF EntryRecord
  <2>3. Overtaken(k, k \in Forgotten(o)) =
          [exp |-> cache[k].exp, current |-> FALSE, since |-> since, raced |-> raced]
    BY DEF Overtaken
  <2>4. ~raced => ~cache[k].raced /\ k \notin Forgotten(o)
    OBVIOUS
  <2>5. since = IF Outdated(k) THEN cache[k].since ELSE now
    OBVIOUS
  <2> HIDE DEF raced, since
  <2>6. [exp |-> cache[k].exp, current |-> FALSE, since |-> since, raced |-> raced] \in EntryRecord
    BY <2>1, <2>2 DEF EntryRecord
  <2> QED  BY <2>3, <2>4, <2>5, <2>6
<1>4. cache' \in [Key -> EntryRecord]
  <2>1. cache' = [k \in Key |-> cache'[k]]
    BY DEF Commit
  <2>2. \A k \in Key : cache'[k] \in EntryRecord
    BY <1>2, <1>3 DEF CacheInv
  <2> QED  BY <2>1, <2>2
<1>5. /\ write' \in [Writer -> WriteRecord] /\ \A v \in Writer \ {w} : write'[v] = write[v]
      /\ Dropping(w)' /\ write[w] = NoWrite
      /\ UNION ToSet(Drops(o)) \subseteq Pending(w)'
  <2>1. PICK x \in WriteRecord :
          /\ write' = [write EXCEPT ![w] = x]
          /\ Drops(o) = <<>> => x = NoWrite
          /\ Drops(o) # <<>> => x = Writing("begin", Drops(o), {}, {})
    BY DropsCover, WritingRecord, NoWriteRecord DEF Commit
  <2>2. write'[w] = x
    BY <2>1 DEF CacheInv
  <2>3. CASE Drops(o) = <<>>
    <3>1. UNION ToSet(Drops(o)) = {}
      BY <2>3 DEF ToSet
    <3> QED  BY <2>1, <2>2, <2>3, <3>1, NoWriteRecord DEF CacheInv, Commit, Dropping
  <2>4. CASE Drops(o) # <<>>
    <3>1. x.op = "begin" /\ x.drops = Drops(o) /\ x.todo = {} /\ x.found = {}
      BY <2>1, <2>4 DEF Writing
    <3> QED  BY <2>1, <2>2, <2>4, <3>1 DEF CacheInv, Commit, Dropping, Pending
  <2> QED  BY <2>3, <2>4
<1>6. Pending(w) = {} /\ \A v \in Writer \ {w} : Pending(v)' = Pending(v) /\ Dropping(v)'
  BY <1>5, NoWriteRecord, PendingNone DEF CacheInv, Dropping, Pending
<1>7. \A r \in Reader : read'[r].current \in BOOLEAN
  <2>1. ASSUME NEW r \in Reader  PROVE [read[r] EXCEPT !.current = FALSE].current \in BOOLEAN
    <3>1. CASE "current" \in DOMAIN read[r]
      BY <3>1
    <3>2. CASE "current" \notin DOMAIN read[r]
      BY <3>2 DEF CacheInv
    <3> QED  BY <3>1, <3>2
  <2> QED  BY <2>1 DEF Commit, CacheInv
<1>8. Fresh'
  BY <1>1, <1>2, <1>3 DEF CacheInv, Fresh, Cached
<1>9. BoundedStaleness'
  <2> SUFFICES ASSUME NEW k \in Key, Outdated(k)' PROVE cache'[k].exp <= cache'[k].since + Ttl
    BY DEF BoundedStaleness
  <2>1. CASE Cached(k) /\ k \in Touches(o)
    <3>1. /\ cache'[k].exp = cache[k].exp
          /\ cache'[k].since = IF Outdated(k) THEN cache[k].since ELSE now
      BY <1>2, <1>3, <2>1
    <3>2. CASE Outdated(k)
      BY <3>1, <3>2 DEF CacheInv, BoundedStaleness
    <3>3. CASE ~Outdated(k)
      BY <2>1, <3>1, <3>3 DEF CacheInv, Fresh, Outdated
    <3> QED  BY <3>2, <3>3
  <2>2. CASE ~(Cached(k) /\ k \in Touches(o))
    BY <1>1, <1>2, <2>2 DEF CacheInv, BoundedStaleness, Outdated, Cached
  <2> QED  BY <2>1, <2>2
<1>10. InvalidationIsComplete'
  <2> SUFFICES ASSUME NEW k \in Key, Outdated(k)', ~cache'[k].raced
               PROVE  \E v \in Writer : k \in Pending(v)'
    BY DEF InvalidationIsComplete
  <2>1. CASE Cached(k) /\ k \in Touches(o)
    <3>1. k \in Touches(o) \ Forgotten(o)
      BY <1>2, <1>3, <2>1
    <3>2. k \in UNION ToSet(Drops(o))
      BY <3>1, DropsCover
    <3> QED  BY <1>5, <3>2
  <2>2. CASE ~(Cached(k) /\ k \in Touches(o))
    <3>1. Outdated(k) /\ ~cache[k].raced
      BY <1>1, <1>2, <2>2 DEF Outdated, Cached
    <3>2. PICK v \in Writer : k \in Pending(v)
      BY <3>1 DEF CacheInv, InvalidationIsComplete
    <3> QED  BY <1>6, <3>2
  <2> QED  BY <2>1, <2>2
<1> QED  BY <1>1, <1>4, <1>5, <1>6, <1>7, <1>8, <1>9, <1>10 DEF CacheInv

\* What delByPrefix does with the keys it has pending.
LEMMA PendingOf ==
    ASSUME CacheInv, NEW w \in Writer, write[w].op # "none"
    PROVE  /\ write[w].op = "begin" => Pending(w) = UNION ToSet(write[w].drops)
           /\ write[w].op # "begin" => Pending(w) = write[w].todo \cup write[w].found
                                                      \cup UNION ToSet(Tail(write[w].drops))
           /\ write[w].op # "del" => write[w].found = {}
           /\ write[w].drops \in Seq(SUBSET AnyKey) /\ write[w].drops # <<>>
           /\ write[w].todo \in SUBSET Key /\ write[w].found \in SUBSET Key
BY DEF CacheInv, Dropping, Pending, WriteRecord

LEMMA WriterMoves ==
    ASSUME CacheInv, NEW w \in Writer, NEW x \in WriteRecord, write' = [write EXCEPT ![w] = x]
    PROVE  /\ write' \in [Writer -> WriteRecord] /\ write'[w] = x
           /\ \A v \in Writer \ {w} : Dropping(v)' /\ Pending(v)' = Pending(v)
<1>1. write' \in [Writer -> WriteRecord] /\ write'[w] = x /\ \A v \in Writer \ {w} : write'[v] = write[v]
  BY DEF CacheInv
<1> QED  BY <1>1 DEF CacheInv, Dropping, Pending

LEMMA BeginScanPreserves ==
    ASSUME CacheInv, NEW w \in Writer, BeginScan(w)
    PROVE  CacheInv'
<1> DEFINE d == write[w].drops
<1>1. /\ Pending(w) = UNION ToSet(d) /\ d \in Seq(SUBSET AnyKey) /\ d # <<>>
      /\ ToSet(d) = {d[1]} \cup ToSet(Tail(d))
  BY PendingOf, SetOfTail DEF BeginScan
<1>2. Matching(w) \in SUBSET Key
  BY DEF Matching
<1> DEFINE x == Writing("scan", d, Matching(w), {})
<1>3. /\ x \in WriteRecord
      /\ x.op = "scan" /\ x.drops = d /\ x.todo = Matching(w) /\ x.found = {}
  BY <1>1, <1>2 DEF Writing, WriteRecord
<1>4. write' = [write EXCEPT ![w] = x] /\ UNCHANGED <<now, exists, cache, read>>
  BY DEF BeginScan
<1> HIDE DEF x
<1>5. /\ write' \in [Writer -> WriteRecord] /\ write'[w] = x
      /\ \A v \in Writer \ {w} : Dropping(v)' /\ Pending(v)' = Pending(v)
  BY <1>3, <1>4, WriterMoves
<1>6. Dropping(w)'
  BY <1>1, <1>3, <1>5 DEF Dropping
<1>7. Pending(w)' = Matching(w) \cup UNION ToSet(Tail(d))
  BY <1>1, <1>3, <1>5 DEF Pending
<1>8. \A k \in Pending(w) : k \in Key /\ Outdated(k) => k \in Pending(w)'
  BY <1>1, <1>7 DEF Matching, Outdated
<1>9. InvalidationIsComplete'
  BY <1>4, <1>5, <1>8 DEF CacheInv, InvalidationIsComplete, Outdated, Cached
<1>10. Fresh' /\ BoundedStaleness'
  BY <1>4 DEF CacheInv, Fresh, BoundedStaleness, Outdated, Cached
<1> QED  BY <1>4, <1>5, <1>6, <1>9, <1>10 DEF CacheInv

LEMMA BatchPreserves ==
    ASSUME CacheInv, NEW w \in Writer, NEW S \in SUBSET Key, Batch(w, S)
    PROVE  CacheInv'
<1> DEFINE d == write[w].drops
<1>1. /\ write[w].op = "scan" /\ d \in Seq(SUBSET AnyKey) /\ d # <<>>
      /\ write[w].found = {} /\ write[w].todo \in SUBSET Key
      /\ Pending(w) = write[w].todo \cup UNION ToSet(Tail(d))
  BY PendingOf DEF Batch
<1> DEFINE x == Writing("del", d, write[w].todo \ S, S)
<1>2. /\ x \in WriteRecord
      /\ x.op = "del" /\ x.drops = d /\ x.todo = write[w].todo \ S /\ x.found = S
  BY <1>1 DEF Writing, WriteRecord
<1>3. write' = [write EXCEPT ![w] = x] /\ UNCHANGED <<now, exists, cache, read>>
  BY DEF Batch
<1> HIDE DEF x
<1>4. /\ write' \in [Writer -> WriteRecord] /\ write'[w] = x
      /\ \A v \in Writer \ {w} : Dropping(v)' /\ Pending(v)' = Pending(v)
  BY <1>2, <1>3, WriterMoves
<1>5. Dropping(w)'
  BY <1>1, <1>2, <1>4 DEF Dropping
<1>6. Pending(w) \subseteq Pending(w)'
  BY <1>1, <1>2, <1>4 DEF Pending
<1> QED  BY <1>3, <1>4, <1>5, <1>6, EntriesStay DEF CacheInv

LEMMA EndScanPreserves ==
    ASSUME CacheInv, NEW w \in Writer, EndScan(w)
    PROVE  CacheInv'
<1> DEFINE d == write[w].drops
<1>1. /\ d \in Seq(SUBSET AnyKey) /\ d # <<>> /\ Tail(d) \in Seq(SUBSET AnyKey)
      /\ Len(d) = 1 => Tail(d) = <<>>
      /\ Len(d) # 1 => Tail(d) # <<>>
      /\ Pending(w) = UNION ToSet(Tail(d))
  BY PendingOf, SetOfTail DEF EndScan
<1> DEFINE x == IF Len(d) = 1 THEN NoWrite ELSE Writing("begin", Tail(d), {}, {})
<1>2. /\ x \in WriteRecord
      /\ Len(d) = 1 => x = NoWrite
      /\ Len(d) # 1 => /\ x.op = "begin" /\ x.drops = Tail(d) /\ x.todo = {} /\ x.found = {}
  <2>1. CASE Len(d) = 1
    BY <2>1, NoWriteRecord
  <2>2. CASE Len(d) # 1
    BY <1>1, <2>2 DEF Writing, WriteRecord
  <2> QED  BY <2>1, <2>2
<1>3. write' = [write EXCEPT ![w] = x] /\ UNCHANGED <<now, exists, cache, read>>
  BY DEF EndScan
<1> HIDE DEF x
<1>4. /\ write' \in [Writer -> WriteRecord] /\ write'[w] = x
      /\ \A v \in Writer \ {w} : Dropping(v)' /\ Pending(v)' = Pending(v)
  BY <1>2, <1>3, WriterMoves
<1>5. Dropping(w)'
  BY <1>1, <1>2, <1>4, NoWriteRecord DEF Dropping
<1>6. Pending(w) \subseteq Pending(w)'
  <2>1. CASE Len(d) = 1
    BY <1>1, <2>1 DEF ToSet
  <2>2. CASE Len(d) # 1
    BY <1>1, <1>2, <1>4, <2>2 DEF Pending
  <2> QED  BY <2>1, <2>2
<1> QED  BY <1>3, <1>4, <1>5, <1>6, EntriesStay DEF CacheInv

\* Entries go, and what is pending goes with them.
LEMMA DelPreserves ==
    ASSUME CacheInv, NEW w \in Writer, Del(w)
    PROVE  CacheInv'
<1> DEFINE d == write[w].drops
<1>1. /\ write[w].op = "del" /\ d \in Seq(SUBSET AnyKey) /\ d # <<>>
      /\ write[w].todo \in SUBSET Key
      /\ Pending(w) = write[w].todo \cup write[w].found \cup UNION ToSet(Tail(d))
  BY PendingOf DEF Del
<1> DEFINE x == Writing("scan", d, write[w].todo, {})
<1>2. /\ x \in WriteRecord
      /\ x.op = "scan" /\ x.drops = d /\ x.todo = write[w].todo /\ x.found = {}
  BY <1>1 DEF Writing, WriteRecord
<1>3. write' = [write EXCEPT ![w] = x] /\ UNCHANGED <<now, exists, read>>
  BY DEF Del
<1> HIDE DEF x
<1>4. /\ write' \in [Writer -> WriteRecord] /\ write'[w] = x
      /\ \A v \in Writer \ {w} : Dropping(v)' /\ Pending(v)' = Pending(v)
  BY <1>2, <1>3, WriterMoves
<1>5. Dropping(w)'
  BY <1>1, <1>2, <1>4 DEF Dropping
<1>6. Pending(w) \subseteq Pending(w)' \cup write[w].found
  BY <1>1, <1>2, <1>4 DEF Pending
<1>7. /\ cache' \in [Key -> EntryRecord]
      /\ \A k \in Key : cache'[k] = IF k \in write[w].found THEN NoEntry ELSE cache[k]
  BY NoEntryRecord DEF Del, CacheInv
<1>8. \A k \in Key : Cached(k)' => k \notin write[w].found /\ cache'[k] = cache[k]
  BY <1>3, <1>7, NoEntryRecord DEF Cached, CacheInv
<1>9. Fresh' /\ BoundedStaleness'
  BY <1>3, <1>8 DEF CacheInv, Fresh, BoundedStaleness, Outdated, Cached
<1>10. InvalidationIsComplete'
  BY <1>3, <1>4, <1>6, <1>8 DEF CacheInv, InvalidationIsComplete, Outdated, Cached
<1> QED  BY <1>3, <1>4, <1>5, <1>7, <1>9, <1>10 DEF CacheInv

LEMMA StopWritePreserves ==
    ASSUME CacheInv, NEW w \in Writer, StopWrite(w)
    PROVE  CacheInv'
<1>1. write' = [write EXCEPT ![w] = NoWrite] /\ UNCHANGED <<now, exists, read>>
  BY DEF StopWrite
<1>2. /\ write' \in [Writer -> WriteRecord] /\ write'[w] = NoWrite
      /\ \A v \in Writer \ {w} : Dropping(v)' /\ Pending(v)' = Pending(v)
  BY <1>1, NoWriteRecord, WriterMoves
<1>3. Dropping(w)'
  BY <1>2, NoWriteRecord DEF Dropping
<1>4. cache \in [Key -> EntryRecord]
  BY DEF CacheInv
<1>5. ASSUME NEW k \in Key
      PROVE  LET x == [cache[k] EXCEPT !.raced = TRUE] IN
               /\ x \in EntryRecord /\ x.exp = cache[k].exp /\ x.current = cache[k].current
               /\ x.since = cache[k].since /\ x.raced = TRUE
  BY <1>4 DEF EntryRecord
<1>6. \A k \in Key : cache'[k] = IF k \in Pending(w) /\ Outdated(k)
                                   THEN [cache[k] EXCEPT !.raced = TRUE] ELSE cache[k]
  BY DEF StopWrite
<1>7. cache' \in [Key -> EntryRecord]
  <2>1. cache' = [k \in Key |-> cache'[k]]
    BY DEF StopWrite
  <2> QED  BY <1>4, <1>5, <1>6, <2>1
<1>8. \A k \in Key : /\ cache'[k].exp = cache[k].exp /\ cache'[k].current = cache[k].current
                     /\ cache'[k].since = cache[k].since
                     /\ ~cache'[k].raced => ~cache[k].raced /\ ~(k \in Pending(w) /\ Outdated(k))
  BY <1>5, <1>6
<1>9. Fresh' /\ BoundedStaleness'
  BY <1>1, <1>8 DEF CacheInv, Fresh, BoundedStaleness, Outdated, Cached
<1>10. InvalidationIsComplete'
  <2> SUFFICES ASSUME NEW k \in Key, Outdated(k)', ~cache'[k].raced
               PROVE  \E v \in Writer : k \in Pending(v)'
    BY DEF InvalidationIsComplete
  <2>1. Outdated(k) /\ ~cache[k].raced /\ k \notin Pending(w)
    BY <1>1, <1>8 DEF Outdated, Cached
  <2>2. PICK v \in Writer : k \in Pending(v)
    BY <2>1 DEF CacheInv, InvalidationIsComplete
  <2> QED  BY <1>2, <2>1, <2>2
<1> QED  BY <1>1, <1>2, <1>3, <1>7, <1>9, <1>10 DEF CacheInv

LEMMA TickPreserves ==
    ASSUME CacheInv, Tick
    PROVE  CacheInv'
<1>1. now' = now + 1 /\ now \in Nat /\ now' \in Nat /\ UNCHANGED <<exists, read, write>> /\ Ttl \in Nat
  BY Constants DEF Tick, CacheInv
<1>2. /\ cache' \in [Key -> EntryRecord] /\ cache \in [Key -> EntryRecord]
      /\ \A k \in Key : cache'[k] = cache[k] \/ cache'[k] = NoEntry
  BY NoEntryRecord DEF Tick, CacheInv
<1>3. \A k \in Key : Cached(k)' => cache'[k] = cache[k] /\ Cached(k)
  BY <1>1, <1>2, NoEntryRecord DEF Cached, EntryRecord
<1>4. Fresh'
  <2> SUFFICES ASSUME NEW k \in Key, Cached(k)', cache'[k].current PROVE cache'[k].exp <= now' + Ttl
    BY DEF Fresh
  <2>1. cache'[k].exp <= now + Ttl /\ cache'[k].exp \in Nat
    BY <1>2, <1>3 DEF CacheInv, Fresh, EntryRecord
  <2> QED  BY <1>1, <2>1
<1>5. BoundedStaleness'
  BY <1>3 DEF CacheInv, BoundedStaleness, Outdated
<1>6. InvalidationIsComplete'
  BY <1>1, <1>3 DEF CacheInv, InvalidationIsComplete, Outdated, Pending
<1>7. \A w \in Writer : Dropping(w)'
  BY <1>1 DEF CacheInv, Dropping
<1> QED  BY <1>1, <1>2, <1>4, <1>5, <1>6, <1>7 DEF CacheInv

LEMMA NextCaches == CacheInv /\ [Next]_vars => CacheInv'
<1> SUFFICES ASSUME CacheInv, [Next]_vars PROVE CacheInv'
  OBVIOUS
<1>1. CASE UNCHANGED vars
  BY <1>1 DEF vars, CacheInv, Fresh, BoundedStaleness, InvalidationIsComplete, Outdated, Cached,
              Dropping, Pending
<1>2. CASE Next
  BY <1>2, ReadsPreserve, FillPreserves, CommitPreserves, BatchPreserves, BeginScanPreserves,
     DelPreserves, EndScanPreserves, StopWritePreserves, TickPreserves DEF Next
<1> QED  BY <1>1, <1>2

LEMMA CacheInvariant == Spec => []CacheInv
BY InitCaches, NextCaches, PTL DEF Spec

-----------------------------------------------------------------------------
(***************************************************************************)
(* Types: a read works through phases of keys, none of them empty; a scan  *)
(* finds only keys of the prefix whose turn it is.                         *)
(***************************************************************************)
Phase      == Seq(AnyKey) \ {<<>>}
ReadRecord == [op : ReadOp \cup {"none"}, phases : Seq(Phase), held : Seq(AnyKey),
               current : BOOLEAN]

Scanned(w) ==
    write[w].op \in {"scan", "del"} => write[w].todo \cup write[w].found \subseteq write[w].drops[1]

TypeInv ==
    /\ now \in 0 .. MaxTime
    /\ read \in [Reader -> ReadRecord]
    /\ \A k \in Key : cache[k].since \in 0 .. MaxTime
    /\ \A w \in Writer : Scanned(w)

LEMMA ReadingRecord ==
    ASSUME NEW o \in ReadOp \cup {"none"}, NEW phases \in Seq(Phase), NEW held \in Seq(AnyKey),
           NEW current \in BOOLEAN
    PROVE  Reading(o, phases, held, current) \in ReadRecord
BY DEF Reading, ReadRecord

LEMMA NoReadRecord == NoRead \in ReadRecord
<1>1. <<>> \in Seq(Phase) /\ <<>> \in Seq(AnyKey)
  OBVIOUS
<1> QED  BY <1>1, ReadingRecord DEF NoRead

\* Every operation fills keys of the two caches, and each phase has one.
LEMMA FillsType ==
    ASSUME NEW o \in ReadOp
    PROVE  Fills(o) \in Seq(Phase)
<1>1. \A a, b, c \in AnyKey : <<a>> \in Phase /\ <<a, b>> \in Phase /\ <<a, b, c>> \in Phase
  BY DEF Phase
<1>2. \A p, q, r \in Phase : <<p>> \in Seq(Phase) /\ <<p, q, r>> \in Seq(Phase)
  OBVIOUS
<1>3. {"page", "count", "detail", "email", "profile", "search", "list", "event"} \subseteq AnyKey
  BY DEF AnyKey, UsersKey, TimelineKey
<1> QED  BY <1>1, <1>2, <1>3 DEF Fills, ReadOp, Prefetch

LEMMA AnsweredType ==
    ASSUME NEW o, NEW keys \in Phase
    PROVE  Answered(o, keys) \in Seq(AnyKey)
<1>1. keys \in Seq(AnyKey) /\ keys[1] \in AnyKey
  BY DEF Phase
<1> QED  BY <1>1 DEF Answered

LEMMA ReadStepTypes ==
    ASSUME TypeInv, NEW r \in Reader,
           \/ \E o \in ReadOp : StartRead(r, o) \/ StartPrefetch(r, o)
           \/ Query(r) \/ Fill(r) \/ StopRead(r)
    PROVE  read' \in [Reader -> ReadRecord]
<1> DEFINE q == read[r]
<1>0. /\ q \in ReadRecord
      /\ q.op \in ReadOp \cup {"none"} /\ q.phases \in Seq(Phase) /\ q.held \in Seq(AnyKey)
      /\ q.current \in BOOLEAN
  BY DEF TypeInv, ReadRecord
<1>1. ASSUME NEW o \in ReadOp, StartRead(r, o) \/ StartPrefetch(r, o)
      PROVE  read' \in [Reader -> ReadRecord]
  <2>1. Reading(o, Fills(o), <<>>, TRUE) \in ReadRecord
    <3>1. <<>> \in Seq(AnyKey)
      OBVIOUS
    <3> QED  BY <3>1, FillsType, ReadingRecord
  <2> QED  BY <1>1, <2>1 DEF StartRead, StartPrefetch, TypeInv
<1>2. CASE Query(r)
  <2> DEFINE keys == Answered(q.op, q.phases[1])
             rest == Tail(q.phases)
  <2>1. q.phases # <<>> /\ q.phases[1] \in Phase /\ rest \in Seq(Phase)
    BY <1>0, <1>2 DEF Query
  <2>2. keys \in Seq(AnyKey)
    BY <2>1, AnsweredType
  <2>3. Reading(q.op, rest, keys, TRUE) \in ReadRecord
    BY <1>0, <2>1, <2>2, ReadingRecord
  <2>4. read' = [read EXCEPT ![r] = IF keys = <<>> /\ rest = <<>> THEN NoRead
                                    ELSE Reading(q.op, rest, keys, TRUE)]
    BY <1>2 DEF Query
  <2> HIDE DEF keys, rest
  <2> QED  BY <2>3, <2>4, NoReadRecord DEF TypeInv
<1>3. CASE Fill(r)
  <2>1. q.held # <<>> /\ Tail(q.held) \in Seq(AnyKey)
    BY <1>0, <1>3 DEF Fill
  <2>2. Reading(q.op, q.phases, Tail(q.held), q.current) \in ReadRecord
    BY <1>0, <2>1, ReadingRecord
  <2> QED  BY <1>3, <2>2, NoReadRecord DEF Fill, Advance, TypeInv
<1>4. CASE StopRead(r)
  BY <1>4, NoReadRecord DEF StopRead, TypeInv
<1> QED  BY <1>1, <1>2, <1>3, <1>4

LEMMA CommitTypes ==
    ASSUME CacheInv, TypeInv, NEW w \in Writer, NEW o \in WriteOp, Commit(w, o)
    PROVE  TypeInv'
<1>1. now' = now
  BY DEF Commit
<1>2. read' \in [Reader -> ReadRecord]
  <2>1. \A x \in ReadRecord : [x EXCEPT !.current = FALSE] \in ReadRecord
    BY DEF ReadRecord
  <2> QED  BY <2>1 DEF Commit, TypeInv
<1>3. \A k \in Key : cache'[k].since \in 0 .. MaxTime
  BY DEF Commit, Overtaken, TypeInv
<1>4. \A v \in Writer : Scanned(v)'
  <2> DEFINE x == IF Drops(o) = <<>> THEN NoWrite ELSE Writing("begin", Drops(o), {}, {})
  <2>1. write' = [write EXCEPT ![w] = x]
    BY DEF Commit
  <2>2. x.op \in {"none", "begin"}
    BY DEF NoWrite, Writing
  <2> HIDE DEF x
  <2> QED  BY <2>1, <2>2 DEF CacheInv, TypeInv, Scanned
<1> QED  BY <1>1, <1>2, <1>3, <1>4 DEF TypeInv

\* The other steps of a write change neither reads nor clock.
LEMMA WriteStepTypes ==
    ASSUME CacheInv, TypeInv, NEW w \in Writer,
           BeginScan(w) \/ (\E S \in SUBSET Key : Batch(w, S)) \/ Del(w) \/ EndScan(w) \/ StopWrite(w)
    PROVE  TypeInv'
<1>1. UNCHANGED <<now, read>>
  BY DEF BeginScan, Batch, Del, EndScan, StopWrite
<1>2. ASSUME NEW k \in Key  PROVE cache'[k].since \in 0 .. MaxTime
  <2>1. cache[k] \in EntryRecord /\ cache[k].since \in 0 .. MaxTime
    BY DEF CacheInv, TypeInv
  <2>2. [cache[k] EXCEPT !.raced = TRUE].since = cache[k].since
    BY <2>1 DEF EntryRecord
  <2>3. NoEntry.since = 0 /\ 0 \in 0 .. MaxTime
    BY Constants DEF NoEntry
  <2>4. cache'[k] \in {cache[k], NoEntry, [cache[k] EXCEPT !.raced = TRUE]}
    <3>1. CASE Del(w)
      BY <3>1 DEF Del
    <3>2. CASE StopWrite(w)
      BY <3>2 DEF StopWrite
    <3>3. ASSUME NEW S \in SUBSET Key, Batch(w, S)  PROVE cache' = cache
      BY <3>3 DEF Batch
    <3> QED  BY <3>1, <3>2, <3>3 DEF BeginScan, EndScan
  <2> QED  BY <2>1, <2>2, <2>3, <2>4
<1>3. ASSUME NEW x, write' = [write EXCEPT ![w] = x],
             x.op \in {"scan", "del"} => x.todo \cup x.found \subseteq x.drops[1]
      PROVE  \A v \in Writer : Scanned(v)'
  BY <1>3 DEF CacheInv, TypeInv, Scanned
<1>4. \A v \in Writer : Scanned(v)'
  <2> DEFINE d == write[w].drops
  <2>0. Scanned(w)
    BY DEF TypeInv
  <2>1. CASE BeginScan(w)
    BY <1>3, <2>1 DEF BeginScan, Writing, Matching
  <2>2. ASSUME NEW S \in SUBSET Key, Batch(w, S)  PROVE \A v \in Writer : Scanned(v)'
    <3>1. /\ write' = [write EXCEPT ![w] = Writing("del", d, write[w].todo \ S, S)]
          /\ S \subseteq Matching(w) \cup write[w].todo /\ write[w].todo \subseteq d[1]
      BY <2>0, <2>2 DEF Batch, Scanned
    <3> QED  BY <1>3, <3>1 DEF Writing, Matching
  <2>3. CASE Del(w)
    <3>1. /\ write' = [write EXCEPT ![w] = Writing("scan", d, write[w].todo, {})]
          /\ write[w].todo \subseteq d[1]
      BY <2>0, <2>3 DEF Del, Scanned
    <3> QED  BY <1>3, <3>1 DEF Writing
  <2>4. CASE EndScan(w)
    <3> DEFINE x == IF Len(d) = 1 THEN NoWrite ELSE Writing("begin", Tail(d), {}, {})
    <3>1. write' = [write EXCEPT ![w] = x]
      BY <2>4 DEF EndScan
    <3>2. x.op \notin {"scan", "del"}
      BY DEF NoWrite, Writing
    <3> HIDE DEF x
    <3> QED  BY <1>3, <3>1, <3>2
  <2>5. CASE StopWrite(w)
    BY <1>3, <2>5 DEF StopWrite, NoWrite, Writing
  <2> QED  BY <2>1, <2>2, <2>3, <2>4, <2>5
<1> QED  BY <1>1, <1>2, <1>4 DEF TypeInv

LEMMA TypeStep == CacheInv /\ TypeInv /\ [Next]_vars => TypeInv'
<1> SUFFICES ASSUME CacheInv, TypeInv, [Next]_vars PROVE TypeInv'
  OBVIOUS
<1>1. CASE UNCHANGED vars
  BY <1>1 DEF vars, TypeInv, Scanned
<1>2. ASSUME NEW r \in Reader,
             \/ \E o \in ReadOp : StartRead(r, o) \/ StartPrefetch(r, o)
             \/ Query(r) \/ Fill(r) \/ StopRead(r)
      PROVE  TypeInv'
  <2>1. UNCHANGED <<now, write>>
    BY <1>2 DEF StartRead, StartPrefetch, Query, Fill, StopRead
  <2>2. \A k \in Key : cache'[k].since \in 0 .. MaxTime
    <3>1. 0 \in 0 .. MaxTime /\ now \in 0 .. MaxTime
      BY Constants DEF TypeInv
    <3>2. CASE Fill(r)
      BY <3>1, <3>2 DEF Fill, Answer, TypeInv
    <3>3. CASE ~Fill(r)
      BY <1>2, <3>3 DEF StartRead, StartPrefetch, Query, StopRead, TypeInv
    <3> QED  BY <3>2, <3>3
  <2> QED  BY <1>2, <2>1, <2>2, ReadStepTypes DEF TypeInv, Scanned
<1>3. CASE Tick
  <2>1. now' \in 0 .. MaxTime /\ UNCHANGED <<read, write>>
    BY <1>3, Constants DEF Tick, TypeInv
  <2>2. \A k \in Key : cache'[k].since \in 0 .. MaxTime
    BY <1>3, Constants DEF Tick, TypeInv, NoEntry
  <2> QED  BY <2>1, <2>2 DEF TypeInv, Scanned
<1> QED  BY <1>1, <1>2, <1>3, CommitTypes, WriteStepTypes DEF Next

-----------------------------------------------------------------------------
\* Entries, reads and writes keep their types, whatever races what.
THEOREM CachesTypeCorrect == Spec => []TypeOK
<1>1. Init => TypeInv
  <2>1. NoEntry.since = 0 /\ 0 \in 0 .. MaxTime /\ NoWrite.op = "none"
    BY Constants, NoWriteRecord DEF NoEntry
  <2> QED  BY <2>1, NoReadRecord DEF Init, TypeInv, Scanned
<1>2. CacheInv /\ TypeInv => TypeOK
  <2> SUFFICES ASSUME CacheInv, TypeInv PROVE TypeOK
    OBVIOUS
  <2>1. cache \in [Key -> [exp : Nat, current : BOOLEAN, since : 0 .. MaxTime, raced : BOOLEAN]]
    BY DEF CacheInv, TypeInv, EntryRecord
  <2>2. \A r \in Reader : read[r].op \in ReadOp \cup {"none"} /\ read[r].held \in Seq(AnyKey)
    BY DEF TypeInv, ReadRecord
  <2>3. \A w \in Writer : /\ write[w].op \in {"none", "begin", "scan", "del"}
                          /\ write[w].todo \cup write[w].found \subseteq Key
    BY DEF CacheInv, WriteRecord
  <2> QED  BY <2>1, <2>2, <2>3 DEF TypeOK, CacheInv, TypeInv, Scanned, AnyKey
<1> QED  BY <1>1, <1>2, CacheInvariant, TypeStep, PTL DEF Spec

\* An overtaken answer is served for one TTL at most, for any number of readers
\* and writers that race, any TTL and any schedule of the prefetch.
THEOREM StalenessIsBounded == Spec => []BoundedStaleness
<1>1. CacheInv => BoundedStaleness
  BY DEF CacheInv
<1> QED  BY <1>1, CacheInvariant, PTL

\* delByPrefix leaves none of the entries that were there when the write was
\* committed, in whatever batches SCAN returns them.
THEOREM InvalidationCompletes == Spec => []InvalidationIsComplete
<1>1. CacheInv => InvalidationIsComplete
  BY DEF CacheInv
<1> QED  BY <1>1, CacheInvariant, PTL
=============================================================================

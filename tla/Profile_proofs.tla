---------------------------- MODULE Profile_proofs ---------------------------
(***************************************************************************)
(* What holds of Profile for any number of requests, keys and fields.      *)
(* A request that removes an object read it as the avatar and has written  *)
(* another one since: if the object is the avatar once more, its key has   *)
(* been set anew.  The same holds of an object that vanished between its   *)
(* check and the write of the row.                                         *)
(***************************************************************************)
EXTENDS Profile, TLAPS

ReqRecord ==
    [pc : {"idle", "stat", "write", "remove", "delete"},
     mode : {"keep", "set", "clear"}, key : Key \cup {None}, merges : BOOLEAN,
     sent : SUBSET Fields, prev : Key \cup {None}, seen : [Fields -> Request \cup {None}]]

\* k is not the avatar, or only because it was set anew
Superseded(k) == k \in was /\ (k = avatar => k \in again)

Follows(r) ==
    /\ req[r].prev \in was \cup {None}
    /\ (req[r].mode = "set") <=> (req[r].key # None)
    /\ req[r].pc = "delete" => req[r].mode = "clear"
    /\ req[r].pc = "remove" => req[r].prev # None /\ Superseded(req[r].prev)
    /\ req[r].pc = "write" /\ req[r].mode = "set"
         => req[r].key \in objects \/ Superseded(req[r].key)

ReadOnce == avatar \in was \cup {None} /\ \A r \in Request : Follows(r)

\* an object that was replaced and is still there, and whose removal is owed
Owed ==
    \A k \in (objects \cap was) \ {avatar} :
      k \in lost \/ \E r \in Request : req[r].pc = "remove" /\ req[r].prev = k

ProfileInv == TypeOK /\ AvatarExists /\ ReadOnce /\ Owed

LEMMA IdleRecord == Idle \in ReqRecord
BY DEF Idle, ReqRecord, Fields

LEMMA TypeOfReq == TypeOK => req \in [Request -> ReqRecord]
BY DEF TypeOK, ReqRecord, merged

LEMMA InitProfile == Init => ProfileInv
<1> SUFFICES ASSUME Init PROVE ProfileInv
  OBVIOUS
<1>1. req \in [Request -> ReqRecord]
  BY IdleRecord DEF Init
<1>2. TypeOK
  BY <1>1, NoKeyAssumption DEF Init, TypeOK, ReqRecord, Idle, Fields
<1>3. \A r \in Request : /\ req[r].pc = "idle" /\ req[r].mode = "keep"
                         /\ req[r].key = None /\ req[r].prev = None
  BY DEF Init, Idle
<1>4. ReadOnce
  BY <1>3 DEF Init, ReadOnce, Follows
<1> QED  BY <1>2, <1>4 DEF Init, ProfileInv, AvatarExists, Owed

\* What an end of a request leaves to show.
LEMMA Ending ==
    ASSUME TypeOK, NEW r \in Request, End(r)
    PROVE  /\ req' \in [Request -> ReqRecord] /\ req'[r] = Idle
           /\ \A q \in Request \ {r} : req'[q] = req[q]
BY TypeOfReq, IdleRecord DEF End

LEMMA Going ==
    ASSUME TypeOK, NEW r \in Request, NEW l \in {"write", "remove"}, Goto(r, l)
    PROVE  /\ req' \in [Request -> ReqRecord]
           /\ req'[r] = [req[r] EXCEPT !.pc = l]
           /\ \A q \in Request \ {r} : req'[q] = req[q]
<1>1. req \in [Request -> ReqRecord] /\ req' = [req EXCEPT ![r] = [req[r] EXCEPT !.pc = l]]
  BY TypeOfReq DEF Goto
<1>2. [req[r] EXCEPT !.pc = l] \in ReqRecord
  BY <1>1 DEF ReqRecord
<1> QED  BY <1>1, <1>2

LEMMA WriteFieldsType ==
    ASSUME TypeOK, NEW r \in Request, WriteFields(r)
    PROVE  /\ metadata' \in [Fields -> Request \cup {None}]
           /\ latest' \in [Fields -> Request \cup {None}]
           /\ raced' \subseteq Fields
<1>1. req[r] \in ReqRecord
  BY TypeOfReq
<1>2. CASE ~req[r].merges
  BY <1>2 DEF WriteFields, merged, TypeOK
<1>3. CASE req[r].merges
  BY <1>1, <1>3 DEF WriteFields, Merge, TypeOK, ReqRecord
<1> QED  BY <1>2, <1>3

LEMMA StoragePreserves ==
    ASSUME ProfileInv, NEW k \in Key, Sign(k) \/ Upload(k) \/ CloseUrl(k)
    PROVE  ProfileInv'
<1> USE DEF ProfileInv, Sign, Upload, CloseUrl, merged, history
<1>1. TypeOK'
  BY DEF TypeOK
<1>2. AvatarExists'
  BY DEF AvatarExists
<1>3. ReadOnce'
  BY DEF ReadOnce, Follows, Superseded
<1>4. Owed'
  BY DEF Owed
<1> QED  BY <1>1, <1>2, <1>3, <1>4

\* A request moves, and the columns of the account do not.
LEMMA MovesType ==
    ASSUME TypeOK, req' \in [Request -> ReqRecord],
           UNCHANGED <<row, avatar, merged, url, objects, was, again, lost>>,
           \A q \in Request : req'[q].pc = "remove" => req'[q].prev # req'[q].key
    PROVE  TypeOK'
BY DEF TypeOK, ReqRecord, merged

LEMMA ReadRowPreserves ==
    ASSUME ProfileInv, NEW r \in Request, NEW k \in Key \cup {None}, NEW sent \in SUBSET Fields,
           NEW merges \in BOOLEAN,
           NEW label \in {"stat", "write", "delete"}, NEW mode \in {"keep", "set", "clear"},
           (mode = "set") <=> (k # None), mode = "set" => label = "stat",
           label = "delete" => mode = "clear",
           ReadRow(r, label, mode, k, merges, sent)
    PROVE  ProfileInv'
<1>1. PICK seen : seen \in {Idle.seen, metadata} /\ req[r] = Idle /\ req' = [req EXCEPT ![r] =
        [pc |-> label, mode |-> mode, key |-> k, merges |-> merges,
         sent |-> sent, prev |-> avatar, seen |-> seen]]
  BY DEF ReadRow
<1> DEFINE new == [pc |-> label, mode |-> mode, key |-> k, merges |-> merges, sent |-> sent,
                   prev |-> avatar, seen |-> seen]
<1>0. UNCHANGED <<row, avatar, merged, url, objects, was, again, lost>>
  BY DEF ReadRow, store, history
<1>2. new \in ReqRecord
  <2>1. seen \in [Fields -> Request \cup {None}]
    BY <1>1, IdleRecord DEF ProfileInv, TypeOK, ReqRecord
  <2> QED  BY <2>1 DEF ProfileInv, TypeOK, ReqRecord
<1>3. /\ req' \in [Request -> ReqRecord] /\ req'[r] = new
      /\ \A q \in Request \ {r} : req'[q] = req[q]
  BY <1>1, <1>2, TypeOfReq DEF ProfileInv
<1>4. TypeOK'
  <2>1. \A q \in Request : req'[q].pc = "remove" => req'[q].prev # req'[q].key
    BY <1>3 DEF ProfileInv, TypeOK
  <2> QED  BY <1>0, <1>3, <2>1, MovesType DEF ProfileInv
<1>5. AvatarExists'
  BY <1>0 DEF ProfileInv, AvatarExists
<1>6. ReadOnce'
  BY <1>0, <1>3 DEF ProfileInv, ReadOnce, Follows, Superseded
<1>7. Owed'
  BY <1>0, <1>1, <1>3 DEF ProfileInv, Owed, Idle
<1> QED  BY <1>4, <1>5, <1>6, <1>7 DEF ProfileInv

LEMMA StatPreserves ==
    ASSUME ProfileInv, NEW r \in Request, Stat(r)
    PROVE  ProfileInv'
<1>1. /\ req[r].pc = "stat"
      /\ UNCHANGED <<row, avatar, merged, url, objects, was, again, lost>>
      /\ (req[r].key \in objects /\ Goto(r, "write")) \/ End(r)
  BY DEF Stat, store, history
<1>2. /\ req' \in [Request -> ReqRecord]
      /\ \A q \in Request \ {r} : req'[q] = req[q]
      /\ \/ req'[r] = Idle
         \/ req[r].key \in objects /\ req'[r] = [req[r] EXCEPT !.pc = "write"]
  BY <1>1, Ending, Going DEF ProfileInv
<1>0. req'[r].pc # "remove"
  BY <1>2, TypeOfReq DEF ProfileInv, Idle, ReqRecord
<1>3. TypeOK'
  <2>1. \A q \in Request : req'[q].pc = "remove" => req'[q].prev # req'[q].key
    BY <1>0, <1>2 DEF ProfileInv, TypeOK
  <2> QED  BY <1>1, <1>2, <2>1, MovesType DEF ProfileInv
<1>4. AvatarExists'
  BY <1>1 DEF ProfileInv, AvatarExists
<1>5. ReadOnce'
  BY <1>1, <1>2, TypeOfReq DEF ProfileInv, ReadOnce, Follows, Superseded, Idle, ReqRecord
<1>6. Owed'
  <2>1. \A q \in Request : req[q].pc = "remove" => req'[q] = req[q]
    BY <1>1, <1>2
  <2> QED  BY <1>1, <2>1 DEF ProfileInv, Owed
<1> QED  BY <1>3, <1>4, <1>5, <1>6 DEF ProfileInv

\* A request ends, having removed its object or not.
LEMMA LetGo ==
    ASSUME ProfileInv, NEW r \in Request, End(r),
           UNCHANGED <<row, avatar, merged, url, was, again>>,
           \/ /\ req[r].pc = "remove" /\ objects' = objects \ {req[r].prev} /\ lost' = lost
           \/ /\ objects' = objects
              /\ lost' = IF req[r].pc = "remove" THEN lost \cup {req[r].prev} ELSE lost
    PROVE  ProfileInv'
<1>2. /\ req' \in [Request -> ReqRecord] /\ req'[r] = Idle
      /\ \A q \in Request \ {r} : req'[q] = req[q]
  BY Ending DEF ProfileInv
<1>3. req[r].pc = "remove" => req[r].prev \in Key /\ Superseded(req[r].prev)
  BY DEF ProfileInv, ReadOnce, Follows, TypeOK, Superseded
<1>4. TypeOK'
  <2>1. \A q \in Request : req'[q].pc = "remove" => req'[q].prev # req'[q].key
    BY <1>2 DEF ProfileInv, TypeOK, Idle
  <2>2. objects' \subseteq Key /\ UNION {was', again', lost'} \subseteq Key
    BY <1>3 DEF ProfileInv, TypeOK
  <2> QED  BY <1>2, <2>1, <2>2 DEF ProfileInv, TypeOK, ReqRecord, merged
<1>5. AvatarExists'
  BY <1>3 DEF ProfileInv, AvatarExists, Superseded
<1>6. ReadOnce'
  BY <1>2, <1>3 DEF ProfileInv, ReadOnce, Follows, Superseded, Idle
<1>7. Owed'
  BY <1>2 DEF ProfileInv, Owed
<1> QED  BY <1>4, <1>5, <1>6, <1>7 DEF ProfileInv

LEMMA RemovePreserves ==
    ASSUME ProfileInv, NEW r \in Request, Remove(r) \/ RemoveRejects(r) \/ Stop(r)
    PROVE  ProfileInv'
BY LetGo DEF Remove, RemoveRejects, Stop, store, history

LEMMA WriteRowPreserves ==
    ASSUME ProfileInv, NEW r \in Request, WriteRow(r)
    PROVE  ProfileInv'
<1>1. CASE ~row
  BY <1>1, LetGo DEF WriteRow, store, history
<1>2. CASE row
  <2>1. /\ req[r].pc = "write" /\ UNCHANGED <<row, url, objects>>
        /\ avatar' = IF req[r].mode = "keep" THEN avatar ELSE req[r].key
        /\ WriteFields(r)
        /\ was' = was \cup ({avatar'} \ {None})
        /\ again' = IF avatar' # avatar /\ avatar' \in was THEN again \cup {avatar'} ELSE again
        /\ lost' = IF avatar \notin {avatar', req[r].prev, None} THEN lost \cup {avatar} ELSE lost
        /\ (Replaces(r) /\ Goto(r, "remove")) \/ (~Replaces(r) /\ End(r))
    BY <1>2 DEF WriteRow, store
  <2>2. req[r] \in ReqRecord
    BY TypeOfReq DEF ProfileInv
  <2>3. /\ req' \in [Request -> ReqRecord]
        /\ \A q \in Request \ {r} : req'[q] = req[q]
        /\ \/ Replaces(r) /\ req'[r] = [req[r] EXCEPT !.pc = "remove"]
           \/ ~Replaces(r) /\ req'[r] = Idle
    BY <2>1, Ending, Going DEF ProfileInv
  <2>4. avatar' \in Key \cup {None} /\ was' \subseteq Key /\ again' \subseteq Key /\ lost' \subseteq Key
    BY <2>1, <2>2 DEF ProfileInv, TypeOK, ReqRecord
  <2>5. /\ metadata' \in [Fields -> Request \cup {None}]
        /\ latest' \in [Fields -> Request \cup {None}]
        /\ raced' \subseteq Fields
    BY <2>1, <2>2, WriteFieldsType DEF ProfileInv
  <2>6. \A q \in Request : req'[q].pc = "remove" => req'[q].prev # req'[q].key
    <3>1. \A q \in Request \ {r} : req'[q].pc = "remove" => req'[q].prev # req'[q].key
      BY <2>3 DEF ProfileInv, TypeOK
    <3>2. req'[r].pc = "remove" => req'[r].prev # req'[r].key
      BY <2>2, <2>3 DEF Replaces, Idle, ReqRecord
    <3> QED  BY <3>1, <3>2
  <2>7. TypeOK'
    BY <1>2, <2>1, <2>3, <2>4, <2>5, <2>6 DEF ProfileInv, TypeOK, ReqRecord
  <2>8. ASSUME NEW k, Superseded(k)  PROVE Superseded(k)'
    <3>1. k \in was' /\ again \subseteq again'
      BY <2>1, <2>8 DEF Superseded
    <3>2. CASE k = avatar
      BY <2>8, <3>1, <3>2 DEF Superseded
    <3>3. CASE k # avatar /\ k = avatar'
      BY <2>1, <2>8, <3>1, <3>3 DEF Superseded
    <3> QED  BY <3>1, <3>2, <3>3 DEF Superseded
  <2>9. Follows(r)
    BY DEF ProfileInv, ReadOnce
  <2>10. AvatarExists'
    <3>1. CASE avatar' = avatar /\ req[r].mode # "set"
      BY <2>1, <3>1 DEF ProfileInv, AvatarExists
    <3>2. CASE req[r].mode = "set"
      <4>1. avatar' = req[r].key
        BY <2>1, <3>2
      <4>2. avatar' \in objects \/ Superseded(avatar')
        BY <2>1, <2>9, <3>2, <4>1 DEF Follows
      <4>3. CASE avatar' \in objects
        BY <2>1, <4>3 DEF AvatarExists
      <4>4. CASE Superseded(avatar')
        BY <2>1, <4>4 DEF AvatarExists, Superseded
      <4> QED  BY <4>2, <4>3, <4>4
    <3>3. CASE avatar' # avatar /\ req[r].mode # "set"
      BY <2>1, <2>9, <3>3 DEF AvatarExists, Follows
    <3> QED  BY <3>1, <3>2, <3>3
  <2>11. ASSUME NEW q \in Request, q # r  PROVE Follows(q)'
    <3>1. req'[q] = req[q] /\ objects' = objects /\ was \subseteq was' /\ Follows(q)
      BY <2>1, <2>3, <2>11 DEF ProfileInv, ReadOnce
    <3>2. PICK x : x = req[q]
      OBVIOUS
    <3>3. /\ Superseded(x.prev) => Superseded(x.prev)'
          /\ Superseded(x.key) => Superseded(x.key)'
      BY <2>8
    <3> HIDE DEF Superseded
    <3> QED  BY <3>1, <3>2, <3>3 DEF Follows
  <2>12. ReadOnce'
    <3>1. avatar' \in was' \cup {None}
      BY <2>1
    <3>2. Follows(r)'
      <4>1. CASE ~Replaces(r)
        <5>1. /\ req'[r].pc = "idle" /\ req'[r].mode = "keep"
              /\ req'[r].key = None /\ req'[r].prev = None
          BY <2>3, <4>1 DEF Idle
        <5> QED  BY <5>1 DEF Follows
      <4>2. CASE Replaces(r)
        <5>1. /\ req[r].prev \in was /\ req[r].prev # None /\ req[r].prev # avatar'
              /\ req'[r].prev = req[r].prev /\ req'[r].pc = "remove"
              /\ req'[r].mode = req[r].mode /\ req'[r].key = req[r].key
          BY <2>1, <2>2, <2>3, <2>9, <4>2 DEF Follows, Replaces, ReqRecord
        <5> QED  BY <2>1, <2>9, <5>1 DEF Follows, Superseded
      <4> QED  BY <4>1, <4>2
    <3> QED  BY <2>11, <3>1, <3>2 DEF ReadOnce
  <2>13. Owed'
    <3> SUFFICES ASSUME NEW k \in objects, k \in was', k # avatar', k \notin lost'
                 PROVE  \E q \in Request : req'[q].pc = "remove" /\ req'[q].prev = k
      BY <2>1 DEF Owed
    <3>1. k \in was /\ k \notin lost /\ k # None
      BY <2>1, NoKeyAssumption DEF ProfileInv, TypeOK
    <3>2. CASE k = avatar
      BY <2>1, <2>2, <2>3, <3>1, <3>2 DEF Replaces, ReqRecord
    <3>3. CASE k # avatar
      <4>1. PICK q \in Request : req[q].pc = "remove" /\ req[q].prev = k
        BY <3>1, <3>3 DEF ProfileInv, Owed
      <4>2. q # r
        BY <2>1, <4>1
      <4> QED  BY <2>3, <4>1, <4>2
    <3> QED  BY <3>2, <3>3
  <2> QED  BY <2>7, <2>10, <2>12, <2>13 DEF ProfileInv
<1> QED  BY <1>1, <1>2 DEF ProfileInv, TypeOK

LEMMA ClearedType ==
    ASSUME TypeOK, req' \in [Request -> ReqRecord], row' = FALSE, avatar' = None,
           UNCHANGED <<merged, url, objects, was, again>>, lost' \subseteq Key,
           \A q \in Request : req'[q].pc = "remove" => req'[q].prev # req'[q].key
    PROVE  TypeOK'
BY DEF TypeOK, ReqRecord, merged

LEMMA DeleteRowPreserves ==
    ASSUME ProfileInv, NEW r \in Request, DeleteRow(r)
    PROVE  ProfileInv'
<1>1. /\ req[r].pc = "delete" /\ row' = FALSE /\ avatar' = None
      /\ UNCHANGED <<merged, url, objects, was, again>>
      /\ lost' = IF row /\ avatar \notin {req[r].prev, None} THEN lost \cup {avatar} ELSE lost
      /\ (row /\ Replaces(r) /\ Goto(r, "remove")) \/ (~(row /\ Replaces(r)) /\ End(r))
  BY DEF DeleteRow, store
<1>2. req[r] \in ReqRecord /\ Follows(r) /\ req[r].mode = "clear" /\ req[r].key = None
  BY <1>1, TypeOfReq DEF ProfileInv, ReadOnce, Follows
<1>3. /\ req' \in [Request -> ReqRecord]
      /\ \A q \in Request \ {r} : req'[q] = req[q]
      /\ \/ row /\ Replaces(r) /\ req'[r] = [req[r] EXCEPT !.pc = "remove"]
         \/ ~(row /\ Replaces(r)) /\ req'[r] = Idle
  BY <1>1, Ending, Going DEF ProfileInv
<1>4. TypeOK'
  <2>1. lost' \subseteq Key
    BY <1>1 DEF ProfileInv, TypeOK
  <2>2. \A q \in Request : req'[q].pc = "remove" => req'[q].prev # req'[q].key
    <3>1. \A q \in Request \ {r} : req'[q].pc = "remove" => req'[q].prev # req'[q].key
      BY <1>3 DEF ProfileInv, TypeOK
    <3>2. req'[r].pc = "remove" => req'[r].prev # req'[r].key
      BY <1>2, <1>3 DEF Replaces, Idle, ReqRecord
    <3> QED  BY <3>1, <3>2
  <2>3. req' \in [Request -> ReqRecord]
    BY <1>3
  <2> QED  BY <1>1, <2>1, <2>2, <2>3, ClearedType DEF ProfileInv
<1>5. AvatarExists'
  BY <1>1 DEF AvatarExists
<1>6. ReadOnce'
  <2>1. ASSUME NEW q \in Request, q # r  PROVE Follows(q)'
    <3>1. req'[q] = req[q] /\ Follows(q)
      BY <1>3, <2>1 DEF ProfileInv, ReadOnce
    <3>2. None \notin was
      BY NoKeyAssumption DEF ProfileInv, TypeOK
    <3> QED  BY <1>1, <3>1, <3>2 DEF Follows, Superseded
  <2>2. Follows(r)'
    <3>1. CASE row /\ Replaces(r)
      <4>1. /\ req'[r].prev = req[r].prev /\ req'[r].pc = "remove"
            /\ req'[r].mode = "clear" /\ req'[r].key = None
            /\ req[r].prev \in was /\ req[r].prev # None
        BY <1>2, <1>3, <3>1 DEF Replaces, ReqRecord, Follows
      <4>2. None \notin was
        BY NoKeyAssumption DEF ProfileInv, TypeOK
      <4> QED  BY <1>1, <4>1, <4>2 DEF Follows, Superseded
    <3>2. CASE ~(row /\ Replaces(r))
      <4>1. /\ req'[r].pc = "idle" /\ req'[r].mode = "keep"
            /\ req'[r].key = None /\ req'[r].prev = None
        BY <1>3, <3>2 DEF Idle
      <4> QED  BY <4>1 DEF Follows
    <3> QED  BY <3>1, <3>2
  <2> QED  BY <1>1, <2>1, <2>2 DEF ReadOnce
<1>7. Owed'
  <2> SUFFICES ASSUME NEW k \in objects, k \in was, k # None, k \notin lost'
               PROVE  \E q \in Request : req'[q].pc = "remove" /\ req'[q].prev = k
    BY <1>1 DEF Owed
  <2>1. CASE k = avatar
    <3>1. row /\ Replaces(r)
      BY <1>1, <1>2, <2>1 DEF ProfileInv, TypeOK, Replaces, ReadOnce, ReqRecord
    <3> QED  BY <1>1, <1>2, <1>3, <2>1, <3>1 DEF ReqRecord
  <2>2. CASE k # avatar
    <3>1. PICK q \in Request : req[q].pc = "remove" /\ req[q].prev = k
      BY <1>1, <2>2 DEF ProfileInv, Owed
    <3> QED  BY <1>1, <1>3, <3>1
  <2> QED  BY <2>1, <2>2
<1> QED  BY <1>4, <1>5, <1>6, <1>7 DEF ProfileInv

LEMMA NextProfile == ProfileInv /\ [Next]_vars => ProfileInv'
<1> SUFFICES ASSUME ProfileInv, [Next]_vars PROVE ProfileInv'
  OBVIOUS
<1>1. ASSUME NEW k \in Key, Sign(k) \/ Upload(k) \/ CloseUrl(k)  PROVE ProfileInv'
  BY <1>1, StoragePreserves
<1>2. ASSUME NEW r \in Request,
             \/ (\E k \in Key : SetAvatar(r, k)) \/ ClearAvatar(r)
             \/ (\E mode \in {"keep", "set", "clear"}, k \in Key \cup {None}, sent \in SUBSET Field :
                   UpdateUser(r, mode, k, sent))
             \/ StampTwoFactor(r) \/ DeleteUser(r)
      PROVE  ProfileInv'
  <2>1. CASE \E k \in Key : SetAvatar(r, k)
    BY <2>1, ReadRowPreserves, NoKeyAssumption DEF SetAvatar
  <2>2. CASE ClearAvatar(r)
    BY <2>2, ReadRowPreserves DEF ClearAvatar
  <2>3. CASE \E mode \in {"keep", "set", "clear"}, k \in Key \cup {None}, sent \in SUBSET Field :
               UpdateUser(r, mode, k, sent)
    <3>1. PICK mode \in {"keep", "set", "clear"}, k \in Key \cup {None}, sent \in SUBSET Field :
            UpdateUser(r, mode, k, sent)
      BY <2>3
    <3>2. sent \in SUBSET Fields
      BY DEF Fields
    <3> QED  BY <3>1, <3>2, ReadRowPreserves DEF UpdateUser
  <2>4. CASE StampTwoFactor(r)
    BY <2>4, ReadRowPreserves DEF StampTwoFactor, Fields
  <2>5. CASE DeleteUser(r)
    BY <2>5, ReadRowPreserves DEF DeleteUser
  <2> QED  BY <1>2, <2>1, <2>2, <2>3, <2>4, <2>5
<1>3. ASSUME NEW r \in Request,
             Stat(r) \/ WriteRow(r) \/ Remove(r) \/ RemoveRejects(r) \/ DeleteRow(r) \/ Stop(r)
      PROVE  ProfileInv'
  BY <1>3, StatPreserves, WriteRowPreserves, RemovePreserves, DeleteRowPreserves
<1>4. CASE UNCHANGED vars
  BY <1>4 DEF vars, merged, store, history, ProfileInv, TypeOK, AvatarExists, ReadOnce, Follows, Superseded, Owed
<1> QED  BY <1>1, <1>2, <1>3, <1>4 DEF Next

LEMMA ProfileInvariant == Spec => []ProfileInv
BY InitProfile, NextProfile, PTL DEF Spec

\* TypeOK of the profile: no request ever removes the object it has just set.
THEOREM ProfileTypeOK == Spec => []TypeOK
BY ProfileInvariant, PTL DEF ProfileInv

\* The avatar's object exists, for any number of overlapping updates, errors
\* and stops, unless its key was set a second time after it was replaced.
THEOREM AvatarStaysInBucket == Spec => []AvatarExists
BY ProfileInvariant, PTL DEF ProfileInv

\* Once no request is in flight, the replaced images that are left are those
\* of overlapping updates, of late uploads and of errors.
THEOREM ReplacedIsRemoved == Spec => []ReplacedGoes
<1>1. ProfileInv => ReplacedGoes
  BY DEF ProfileInv, Owed, ReplacedGoes, Idle
<1> QED  BY <1>1, ProfileInvariant, PTL

-----------------------------------------------------------------------------
(***************************************************************************)
(* The fields of metadata.  An update that has read the row and is to      *)
(* merge into it knows the last value of every field it does not send,     *)
(* unless the field was written since, and then the write was raced.       *)
(***************************************************************************)
Knows(r) == \A f \in Fields \ raced : f \in req[r].sent \/ req[r].seen[f] = latest[f]

FieldsInv == FieldsSurvive /\ \A r \in Request : Merging(r) => Knows(r)

LEMMA InitFields == Init => FieldsInv
BY DEF Init, FieldsInv, FieldsSurvive, Merging, Idle

\* Steps that write no field: one request reads the row, moves or ends.
LEMMA OneRequestMoves ==
    ASSUME FieldsInv, NEW r \in Request, UNCHANGED merged,
           \A q \in Request \ {r} : req'[q] = req[q],
           \/ ~Merging(r)'
           \/ /\ Merging(r) /\ req'[r].sent = req[r].sent /\ req'[r].seen = req[r].seen
           \/ req'[r].seen = metadata
    PROVE  FieldsInv'
<1>1. FieldsSurvive'
  BY DEF FieldsInv, FieldsSurvive, merged
<1>2. ASSUME NEW q \in Request, Merging(q)'  PROVE Knows(q)'
  BY <1>2 DEF FieldsInv, FieldsSurvive, Merging, Knows, merged
<1> QED  BY <1>1, <1>2 DEF FieldsInv

LEMMA ReadRowKeepsFields ==
    ASSUME TypeOK, FieldsInv, NEW r \in Request, NEW label, NEW mode, NEW k, NEW merges, NEW sent,
           ReadRow(r, label, mode, k, merges, sent)
    PROVE  FieldsInv'
<1>1. /\ UNCHANGED merged
      /\ \A q \in Request \ {r} : req'[q] = req[q]
      /\ req'[r].merges = merges /\ (merges => req'[r].seen = metadata)
  BY TypeOfReq DEF ReadRow, ReqRecord
<1>2. ~Merging(r)' \/ req'[r].seen = metadata
  BY <1>1 DEF Merging
<1> QED  BY <1>1, <1>2, OneRequestMoves

LEMMA EndKeepsFields ==
    ASSUME TypeOK, FieldsInv, NEW r \in Request, UNCHANGED merged,
           End(r) \/ Goto(r, "remove") \/ (req[r].pc = "stat" /\ Goto(r, "write"))
    PROVE  FieldsInv'
<1>1. \A q \in Request \ {r} : req'[q] = req[q]
  BY Ending, Going
<1>2. CASE End(r) \/ Goto(r, "remove")
  <2>1. req'[r] = Idle \/ req'[r] = [req[r] EXCEPT !.pc = "remove"]
    BY <1>2, Ending, Going
  <2>2. req'[r].pc \in {"idle", "remove"}
    BY <2>1, TypeOfReq DEF Idle, ReqRecord
  <2> QED  BY <1>1, <2>2, OneRequestMoves DEF Merging
<1>3. CASE req[r].pc = "stat" /\ Goto(r, "write")
  <2>1. req'[r] = [req[r] EXCEPT !.pc = "write"]
    BY <1>3, Going
  <2>2. /\ req'[r].sent = req[r].sent /\ req'[r].seen = req[r].seen
        /\ req'[r].merges = req[r].merges
    BY <2>1, TypeOfReq DEF ReqRecord
  <2> QED  BY <1>1, <1>3, <2>2, OneRequestMoves DEF Merging
<1> QED  BY <1>2, <1>3

\* The write of the row: what the request sends is the last value, and what it
\* writes back is known to be, or was raced.
LEMMA WriteRowKeepsFields ==
    ASSUME TypeOK, FieldsInv, NEW r \in Request, WriteRow(r)
    PROVE  FieldsInv'
<1>1. CASE UNCHANGED merged
  BY <1>1, EndKeepsFields DEF WriteRow
<1>2. CASE row /\ req[r].merges
  <2>1. /\ \A q \in Request \ {r} : req'[q] = req[q]
        /\ req'[r] = Idle \/ req'[r] = [req[r] EXCEPT !.pc = "remove"]
    BY <1>2, Ending, Going DEF WriteRow
  <2>2. ~Merging(r)'
    BY <2>1, TypeOfReq DEF Merging, Idle, ReqRecord
  <2>3. /\ metadata' = Merge(r)
        /\ latest' = [f \in Fields |-> IF f \in req[r].sent THEN r ELSE latest[f]]
        /\ raced' = (raced \ req[r].sent)
                      \cup {f \in req[r].sent : \E q \in Request \ {r} : Merging(q)}
    BY <1>2 DEF WriteRow, WriteFields
  <2>4. Knows(r)
    BY <1>2 DEF WriteRow, FieldsInv, Merging
  <2>5. FieldsSurvive'
    <3> SUFFICES ASSUME NEW f \in Fields, f \notin raced'
                 PROVE  metadata'[f] = latest'[f]
      BY DEF FieldsSurvive
    <3>1. CASE f \in req[r].sent
      BY <2>3, <3>1 DEF Merge
    <3>2. CASE f \notin req[r].sent
      BY <2>3, <2>4, <3>2 DEF Merge, Knows
    <3> QED  BY <3>1, <3>2
  <2>6. ASSUME NEW q \in Request, Merging(q)'  PROVE Knows(q)'
    <3>1. q # r /\ req'[q] = req[q] /\ Merging(q) /\ Knows(q)
      BY <2>1, <2>2, <2>6 DEF FieldsInv, Merging
    <3> SUFFICES ASSUME NEW f \in Fields, f \notin raced'
                 PROVE  f \in req'[q].sent \/ req'[q].seen[f] = latest'[f]
      BY DEF Knows
    <3>2. f \notin req[r].sent
      BY <2>3, <3>1
    <3> QED  BY <2>3, <3>1, <3>2 DEF Knows
  <2> QED  BY <2>5, <2>6 DEF FieldsInv
<1>3. CASE row /\ ~req[r].merges
  BY <1>1, <1>3 DEF WriteRow, WriteFields
<1>4. CASE ~row
  BY <1>1, <1>4 DEF WriteRow
<1> QED  BY <1>2, <1>3, <1>4

LEMMA NextFields == TypeOK /\ FieldsInv /\ [Next]_vars => FieldsInv'
<1> SUFFICES ASSUME TypeOK, FieldsInv, [Next]_vars PROVE FieldsInv'
  OBVIOUS
<1>1. CASE UNCHANGED <<merged, req>>
  BY <1>1 DEF FieldsInv, FieldsSurvive, Merging, Knows, merged
<1>2. ASSUME NEW k \in Key, Sign(k) \/ Upload(k) \/ CloseUrl(k)  PROVE FieldsInv'
  BY <1>1, <1>2 DEF Sign, Upload, CloseUrl
<1>3. ASSUME NEW r \in Request,
             \/ (\E k \in Key : SetAvatar(r, k)) \/ ClearAvatar(r)
             \/ (\E mode \in {"keep", "set", "clear"}, k \in Key \cup {None}, sent \in SUBSET Field :
                   UpdateUser(r, mode, k, sent))
             \/ StampTwoFactor(r) \/ DeleteUser(r)
      PROVE  FieldsInv'
  <2>1. PICK label, mode, k, merges, sent : ReadRow(r, label, mode, k, merges, sent)
    BY <1>3 DEF SetAvatar, ClearAvatar, UpdateUser, StampTwoFactor, DeleteUser
  <2> QED  BY <2>1, ReadRowKeepsFields
<1>4. ASSUME NEW r \in Request,
             Stat(r) \/ Remove(r) \/ RemoveRejects(r) \/ DeleteRow(r) \/ Stop(r)
      PROVE  FieldsInv'
  BY <1>4, EndKeepsFields DEF Stat, Remove, RemoveRejects, DeleteRow, Stop
<1>5. ASSUME NEW r \in Request, WriteRow(r)  PROVE FieldsInv'
  BY <1>5, WriteRowKeepsFields
<1>6. CASE UNCHANGED vars
  BY <1>1, <1>6 DEF vars
<1> QED  BY <1>2, <1>3, <1>4, <1>5, <1>6 DEF Next

\* A field of metadata is what its last sender wrote, for any number of
\* updates, fields and stops, unless another update was under way when it
\* was written: every lost update is one of two that overlapped.
THEOREM FieldsAreKept == Spec => []FieldsSurvive
<1>1. Spec => []FieldsInv
  BY InitFields, NextFields, ProfileTypeOK, PTL DEF Spec
<1> QED  BY <1>1, PTL DEF FieldsInv
=============================================================================

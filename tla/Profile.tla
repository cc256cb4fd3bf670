------------------------------- MODULE Profile -------------------------------
(***************************************************************************)
(* The profile of one account: the avatar, a row in the database that      *)
(* names an object in the object store, and the JSON column metadata.      *)
(* UsersService.updateUser reads the row, verifies a new object, writes    *)
(* the row and then removes the object it read at first, each in a step    *)
(* of its own and without a transaction; enableTwoFactor and               *)
(* disableTwoFactor merge their own fields into metadata in the same way.  *)
(*                                                                         *)
(* Names, sizes and content types are data: an upload that fails the       *)
(* checks counts as absent.  A legacy update by URL alone clears the key,  *)
(* as clearAvatar does.                                                    *)
(***************************************************************************)
EXTENDS Naturals

CONSTANTS
    Request,  \* concurrent updates
    Key,      \* object keys that can be signed (bound)
    Field,    \* fields of metadata that clients send
    Stamp,    \* the fields that two-factor operations write, as one
    Op,       \* the operations that a run follows
    Faults,   \* "storage": removeObject rejects, "stop": an instance dies
    None

ASSUME NoKeyAssumption   == None \notin Key \cup Request
ASSUME StampAssumption   == Stamp \notin Field

VARIABLES
    row,       \* the account has a row
    avatar,    \* users.avatarPublicId
    metadata,  \* users.metadata: the request that wrote each field last
    url,       \* presigned PUT URLs, each for a key of its own
    objects,   \* the bucket
    req,       \* requests in flight
    was, again, lost,  \* history: keys that were the avatar, that became it anew, and
                       \* whose removal no request owes
    latest, raced      \* history: the request that sent each field last, and the fields it
                       \* wrote while another update had read the row and not written it

store   == <<url, objects>>
merged  == <<metadata, latest, raced>>
history == <<was, again, lost>>
vars    == <<row, avatar, merged, store, req, history>>

Fields == Field \cup {Stamp}
Idle   == [pc |-> "idle", mode |-> "keep", key |-> None, merges |-> FALSE, sent |-> {},
           prev |-> None, seen |-> [f \in Fields |-> None]]
End(r) == req' = [req EXCEPT ![r] = Idle]
Goto(r, label) == req' = [req EXCEPT ![r].pc = label]

(***************************************************************************)
(* createUploadSignature and what the client does with it                  *)
(***************************************************************************)
Sign(k) ==
    /\ row /\ url[k] = "none"
    /\ url' = [url EXCEPT ![k] = "open"]
    /\ UNCHANGED <<row, avatar, merged, objects, req, history>>

Upload(k) ==
    /\ url[k] = "open"
    /\ objects' = objects \cup {k}
    /\ lost' = IF k \in was /\ k # avatar THEN lost \cup {k} ELSE lost
    /\ UNCHANGED <<row, avatar, merged, url, req, was, again>>

\* five minutes later
CloseUrl(k) ==
    /\ url[k] = "open"
    /\ url' = [url EXCEPT ![k] = "closed"]
    /\ UNCHANGED <<row, avatar, merged, objects, req, history>>

(***************************************************************************)
(* updateUser, with setAvatar and clearAvatar, and the two-factor stamps   *)
(***************************************************************************)
\* the metadata that was read is merged only if the request sends some
ReadRow(r, label, mode, k, merges, sent) ==
    /\ req[r] = Idle /\ row
    /\ req' = [req EXCEPT ![r] = [pc |-> label, mode |-> mode, key |-> k, merges |-> merges,
                                  sent |-> sent, prev |-> avatar,
                                  seen |-> IF merges THEN metadata ELSE Idle.seen]]
    /\ UNCHANGED <<row, avatar, merged, store, history>>

SetAvatar(r, k)   == "set" \in Op /\ ReadRow(r, "stat", "set", k, FALSE, {})
ClearAvatar(r)    == "clear" \in Op /\ ReadRow(r, "write", "clear", None, FALSE, {})
StampTwoFactor(r) == "stamp" \in Op /\ ReadRow(r, "write", "keep", None, TRUE, {Stamp})

\* a body with metadata; the avatar may come with it
UpdateUser(r, mode, k, sent) ==
    /\ "fields" \in Op /\ ((mode = "set") <=> (k # None))
    /\ ReadRow(r, IF mode = "set" THEN "stat" ELSE "write", mode, k, TRUE, sent)

\* Mutant: the object is not looked up.
StatAnything(r) ==
    /\ req[r].pc = "stat"
    /\ Goto(r, "write")
    /\ UNCHANGED <<row, avatar, merged, store, history>>

\* assertImageWithinMaxBytes
Stat(r) ==
    /\ req[r].pc = "stat"
    /\ IF req[r].key \in objects THEN Goto(r, "write") ELSE End(r)
    /\ UNCHANGED <<row, avatar, merged, store, history>>

\* Mutant: what was read is not spread into the new value.
MergeReplaces(r) == [f \in Fields |-> IF f \in req[r].sent THEN r ELSE None]

Merge(r) == [f \in Fields |-> IF f \in req[r].sent THEN r ELSE req[r].seen[f]]

\* has read the row for a merge that it has still to write
Merging(r) == req[r].merges /\ req[r].pc \in {"stat", "write"}

WriteFields(r) ==
    IF ~req[r].merges THEN UNCHANGED merged
    ELSE /\ metadata' = Merge(r)
         /\ latest' = [f \in Fields |-> IF f \in req[r].sent THEN r ELSE latest[f]]
         /\ raced' = (raced \ req[r].sent)
                       \cup {f \in req[r].sent : \E q \in Request \ {r} : Merging(q)}

\* Mutant: setting the key that is already there removes it as well.
ReplacesAlways(r) == req[r].mode # "keep" /\ req[r].prev # None

\* Mutant: the previous object is only removed by a clear.
ReplacesOnClear(r) == req[r].mode = "clear" /\ req[r].prev # None

\* whether the object read at first is to be removed
Replaces(r) == req[r].mode # "keep" /\ req[r].prev \notin {None, req[r].key}

\* the update fails if the row is gone by now
WriteRow(r) ==
    /\ req[r].pc = "write"
    /\ IF row
         THEN /\ avatar' = IF req[r].mode = "keep" THEN avatar ELSE req[r].key
              /\ WriteFields(r)
              /\ IF Replaces(r) THEN Goto(r, "remove") ELSE End(r)
              /\ was' = was \cup ({avatar'} \ {None})
              /\ again' = IF avatar' # avatar /\ avatar' \in was THEN again \cup {avatar'} ELSE again
              /\ lost' = IF avatar \notin {avatar', req[r].prev, None}
                           THEN lost \cup {avatar} ELSE lost
         ELSE End(r) /\ UNCHANGED <<avatar, merged, history>>
    /\ UNCHANGED <<row, store>>

\* deleteImage, whose errors are swallowed
Remove(r) ==
    /\ req[r].pc = "remove"
    /\ objects' = objects \ {req[r].prev}
    /\ End(r)
    /\ UNCHANGED <<row, avatar, merged, url, history>>

RemoveRejects(r) ==
    /\ "storage" \in Faults /\ req[r].pc = "remove"
    /\ lost' = lost \cup {req[r].prev}
    /\ End(r)
    /\ UNCHANGED <<row, avatar, merged, store, was, again>>

(***************************************************************************)
(* deleteUser                                                              *)
(***************************************************************************)
DeleteUser(r) == "delete" \in Op /\ ReadRow(r, "delete", "clear", None, FALSE, {})

DeleteRow(r) ==
    /\ req[r].pc = "delete"
    /\ row' = FALSE /\ avatar' = None
    /\ lost' = IF row /\ avatar \notin {req[r].prev, None} THEN lost \cup {avatar} ELSE lost
    /\ IF row /\ Replaces(r) THEN Goto(r, "remove") ELSE End(r)
    /\ UNCHANGED <<merged, store, was, again>>

Stop(r) ==
    /\ "stop" \in Faults /\ req[r] # Idle
    /\ lost' = IF req[r].pc = "remove" THEN lost \cup {req[r].prev} ELSE lost
    /\ End(r)
    /\ UNCHANGED <<row, avatar, merged, store, was, again>>

Init ==
    /\ row = TRUE /\ avatar = None /\ metadata = [f \in Fields |-> None]
    /\ url = [k \in Key |-> "none"] /\ objects = {}
    /\ req = [r \in Request |-> Idle]
    /\ was = {} /\ again = {} /\ lost = {}
    /\ latest = metadata /\ raced = {}

Next ==
    \/ \E k \in Key : Sign(k) \/ Upload(k) \/ CloseUrl(k)
    \/ \E r \in Request :
         \/ (\E k \in Key : SetAvatar(r, k)) \/ ClearAvatar(r)
         \/ \E mode \in {"keep", "set", "clear"}, k \in Key \cup {None}, sent \in SUBSET Field :
              UpdateUser(r, mode, k, sent)
         \/ StampTwoFactor(r)
         \/ Stat(r) \/ WriteRow(r) \/ Remove(r) \/ RemoveRejects(r)
         \/ DeleteUser(r) \/ DeleteRow(r) \/ Stop(r)

Spec == Init /\ [][Next]_vars

-----------------------------------------------------------------------------
(***************************************************************************)
(* Properties                                                              *)
(***************************************************************************)
\* Row, bucket and requests keep their types; an account without a row names
\* no object, and no request is about to remove the object it has just set.
TypeOK ==
    /\ row \in BOOLEAN /\ avatar \in Key \cup {None}
    /\ metadata \in [Fields -> Request \cup {None}] /\ latest \in [Fields -> Request \cup {None}]
    /\ raced \subseteq Fields
    /\ url \in [Key -> {"none", "open", "closed"}] /\ objects \subseteq Key
    /\ req \in [Request -> [pc : {"idle", "stat", "write", "remove", "delete"},
                            mode : {"keep", "set", "clear"}, key : Key \cup {None},
                            merges : BOOLEAN, sent : SUBSET Fields, prev : Key \cup {None},
                            seen : [Fields -> Request \cup {None}]]]
    /\ UNION {was, again, lost} \subseteq Key
    /\ ~row => avatar = None
    /\ \A r \in Request : req[r].pc = "remove" => req[r].prev # req[r].key

\* The avatar's object is in the bucket, whatever updates overlap, as long as
\* its key was set once: only a key that is set anew, after it was replaced,
\* can name an object that a slower request removes.
AvatarExists == avatar # None /\ avatar \notin again => avatar \in objects

\* An image that was replaced, or whose account was deleted, is removed by the
\* request that read it; what stays behind was overtaken by another update,
\* uploaded once more, or lost to an error that deleteImage swallows.
ReplacedGoes ==
    (\A r \in Request : req[r] = Idle) =>
      \A k \in (objects \cap was) \ {avatar} : k \in lost

\* A field of metadata holds what the request that sent it last wrote, though
\* every update writes all fields back as it read them: only an update that was
\* already under way when the field was written can take it back.
FieldsSurvive == \A f \in Fields \ raced : metadata[f] = latest[f]
=============================================================================

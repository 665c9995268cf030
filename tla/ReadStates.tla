----------------------------- MODULE ReadStates -----------------------------
(***************************************************************************)
(* The read state of one user in one channel (ReadStatePersistence.ts, the *)
(* ack routes and handleMessage): acknowledgements, cursor advances, pins, *)
(* mentions, deletions and the PATCH of its local fields, as concurrent    *)
(* requests on one row of read_states.  Each SQL statement is one step.    *)
(***************************************************************************)
EXTENDS Integers

CONSTANTS
  Requests,
  LastMessage,  \* message ids are 1 .. LastMessage; 0 is null
  NoRow

ASSUME ConstantsAssumption == LastMessage \in Nat

Messages == 1 .. LastMessage

(* upsertChannelMessageReadState, advanceChannelReadStateNotificationCursor *)
(* and upsertChannelPinsReadState: update, else insert, else update again.  *)
Upserts == {"ack", "advance", "pins"}
Ops == Upserts \cup {"patch", "mention", "delete"}

(* Ids are generated at creation: by the request, for either of the two    *)
(* rows a PATCH may create.                                                *)
RowIds == Requests \X {"insert", "save"}

(* patched: a PATCH has written a stale cursor or marker over it, or has   *)
(* written it back after its deletion.  The program has no such column.    *)
Row == [id : RowIds,
        cursor : 0 .. LastMessage,    \* notifications_cursor
        marker : 0 .. LastMessage,    \* last_message_id
        mentions : Nat,               \* mention_count
        patched : BOOLEAN]

ASSUME RowAssumption == NoRow \notin Row

VARIABLES
  row,      \* the row, or NoRow
  op,       \* what a request does
  message,  \* the message it names, or 0
  at,       \* the statement it awaits
  entity,   \* the entity it has found or created
  loaded,   \* the row as save() has loaded it
  undone    \* acknowledgements a deletion has overtaken

vars == <<row, op, message, at, entity, loaded, undone>>

Statements == {"update", "insert", "update again", "find", "load", "write",
               "increment", "remove"}

TypeOK ==
  /\ row \in Row \cup {NoRow}
  /\ op \in [Requests -> Ops]
  /\ message \in [Requests -> 0 .. LastMessage]
  /\ at \in [Requests -> Statements \cup {"idle", "done", "failed"}]
  /\ entity \in [Requests -> Row \cup {NoRow}]
  /\ loaded \in [Requests -> Row \cup {NoRow}]
  /\ undone \subseteq Requests

Init ==
  /\ row = NoRow
  /\ op = [r \in Requests |-> "ack"]
  /\ message = [r \in Requests |-> 0]
  /\ at = [r \in Requests |-> "idle"]
  /\ entity = [r \in Requests |-> NoRow]
  /\ loaded = [r \in Requests |-> NoRow]
  /\ undone = {}

Goto(r, s) == at' = [at EXCEPT ![r] = s]

(* A request arrives; only a PATCH may name no message. *)
Begin(r, o, m) ==
  /\ at[r] = "idle"
  /\ o \in {"ack", "advance"} => m # 0
  /\ o \in {"pins", "mention", "delete"} => m = 0
  /\ op' = [op EXCEPT ![r] = o]
  /\ message' = [message EXCEPT ![r] = m]
  /\ Goto(r, IF o \in Upserts \/ (o = "patch" /\ m # 0) THEN "update" ELSE "find")
  /\ UNCHANGED <<row, entity, loaded, undone>>

-----------------------------------------------------------------------------
(* Mutants carry the name of the slip they make; no specification uses them. *)

LatestNamed(w, m) == m

(* GREATEST(notifications_cursor, last_message_id, message), nulls as 0. *)
Advanced(w, m) ==
  CHOOSE c \in {w.cursor, w.marker, m} : \A d \in {w.cursor, w.marker, m} : d <= c

RewindsBoth(w, o, m) ==
  IF o = "pins" THEN w
  ELSE IF o = "advance" THEN [w EXCEPT !.cursor = Advanced(w, m)]
  ELSE [w EXCEPT !.cursor = m, !.marker = m, !.mentions = 0]

(* The UPDATE of an upsert.  The marker may go back. *)
Updated(w, o, m) ==
  IF o = "pins" THEN w
  ELSE IF o = "advance" THEN [w EXCEPT !.cursor = Advanced(w, m)]
  ELSE [w EXCEPT !.cursor = Advanced(w, m), !.marker = m, !.mentions = 0]

CursorAhead(r, o, m) ==
  [id |-> <<r, "insert">>, cursor |-> m + 1, marker |-> m, mentions |-> 0, patched |-> FALSE]

InsertedAtLatest(r, o, m) ==
  [id |-> <<r, "insert">>, cursor |-> LastMessage, marker |-> 0, mentions |-> 0, patched |-> FALSE]

(* The values an insert creates the row with. *)
Inserted(r, o, m) ==
  [id |-> <<r, "insert">>, cursor |-> m,
   marker |-> IF o \in {"ack", "patch"} THEN m ELSE 0,
   mentions |-> 0, patched |-> FALSE]

AfterUpsert(r) == IF op[r] = "patch" THEN "find" ELSE "done"

Update(r) ==
  /\ at[r] = "update"
  /\ IF row = NoRow
       THEN Goto(r, "insert") /\ UNCHANGED row
       ELSE Goto(r, AfterUpsert(r)) /\ row' = Updated(row, op[r], message[r])
  /\ UNCHANGED <<op, message, entity, loaded, undone>>

ConflictIsDone(r) == IF op[r] = "mention" THEN "failed" ELSE AfterUpsert(r)

(* The unique index refuses the insert: an upsert updates again, the plain *)
(* save of fillInMissingIDs fails, and the message with it.                *)
AfterConflict(r) == IF op[r] = "mention" THEN "failed" ELSE "update again"

Insert(r) ==
  /\ at[r] = "insert"
  /\ \/ /\ row = NoRow
        /\ row' = Inserted(r, op[r], message[r])
        /\ Goto(r, IF op[r] = "mention" THEN "increment" ELSE AfterUpsert(r))
     \/ /\ row # NoRow
        /\ Goto(r, AfterConflict(r))
        /\ UNCHANGED row
  /\ UNCHANGED <<op, message, entity, loaded, undone>>

(* Nothing is said of a row that has gone again. *)
UpdateAgain(r) ==
  /\ at[r] = "update again"
  /\ row' = IF row = NoRow THEN row ELSE Updated(row, op[r], message[r])
  /\ Goto(r, AfterUpsert(r))
  /\ UNCHANGED <<op, message, entity, loaded, undone>>

-----------------------------------------------------------------------------
(* fillInMissingIDs, then the counter of the mentioned users. *)

FindMentioned(r) ==
  /\ at[r] = "find" /\ op[r] = "mention"
  /\ Goto(r, IF row = NoRow THEN "insert" ELSE "increment")
  /\ UNCHANGED <<row, op, message, entity, loaded, undone>>

Increment(r) ==
  /\ at[r] = "increment"
  /\ row' = IF row = NoRow THEN row ELSE [row EXCEPT !.mentions = @ + 1]
  /\ Goto(r, "done")
  /\ UNCHANGED <<op, message, entity, loaded, undone>>

-----------------------------------------------------------------------------
(* DELETE: what was found is removed by its id. *)

FindDeleted(r) ==
  /\ at[r] = "find" /\ op[r] = "delete"
  /\ entity' = [entity EXCEPT ![r] = row]
  /\ Goto(r, IF row = NoRow THEN "done" ELSE "remove")
  /\ UNCHANGED <<row, op, message, loaded, undone>>

Remove(r) ==
  /\ at[r] = "remove"
  /\ IF row # NoRow /\ row.id = entity[r].id
       THEN row' = NoRow /\ undone' = {q \in Requests : at[q] # "idle"}
       ELSE UNCHANGED <<row, undone>>
  /\ Goto(r, "done")
  /\ UNCHANGED <<op, message, entity, loaded>>

-----------------------------------------------------------------------------
(* The local fields of a PATCH: findOne, or create; save() then loads the  *)
(* row by its id and writes the columns in which the entity differs.       *)

FindPatched(r, zero) ==
  LET found == IF row # NoRow THEN row
               ELSE [Inserted(r, "patch", 0) EXCEPT !.id = <<r, "save">>]
  IN /\ at[r] = "find" /\ op[r] = "patch"
     /\ entity' = [entity EXCEPT ![r] = IF zero THEN [found EXCEPT !.mentions = 0] ELSE found]
     /\ Goto(r, "load")
     /\ UNCHANGED <<row, op, message, loaded, undone>>

(* Without local fields the PATCH ends with its upsert. *)
PatchEnds(r) ==
  /\ at[r] = "find" /\ op[r] = "patch" /\ message[r] # 0
  /\ Goto(r, "done")
  /\ UNCHANGED <<row, op, message, entity, loaded, undone>>

Load(r) ==
  /\ at[r] = "load"
  /\ loaded' = [loaded EXCEPT ![r] =
       IF row # NoRow /\ row.id = entity[r].id THEN row ELSE NoRow]
  /\ Goto(r, "write")
  /\ UNCHANGED <<row, op, message, entity, undone>>

(* The columns the entity has changed, by what save() has loaded. *)
Written(w, e, l) ==
  [w EXCEPT !.cursor = IF e.cursor # l.cursor THEN e.cursor ELSE @,
            !.marker = IF e.marker # l.marker THEN e.marker ELSE @,
            !.mentions = IF e.mentions # l.mentions THEN e.mentions ELSE @,
            !.patched = @ \/ e.cursor # l.cursor \/ e.marker # l.marker]

WriteUpdate(r) ==
  /\ at[r] = "write" /\ loaded[r] # NoRow
  /\ row' = IF row # NoRow /\ row.id = entity[r].id
              THEN Written(row, entity[r], loaded[r]) ELSE row
  /\ Goto(r, "done")
  /\ UNCHANGED <<op, message, entity, loaded, undone>>

(* The row was not there, or is gone: the entity is inserted as it is. *)
WriteInsert(r) ==
  /\ at[r] = "write" /\ loaded[r] = NoRow
  /\ \/ /\ row = NoRow
        /\ row' = [entity[r] EXCEPT !.patched = @ \/ entity[r].id # <<r, "save">>]
        /\ Goto(r, "done")
     \/ row # NoRow /\ Goto(r, "failed") /\ UNCHANGED row
  /\ UNCHANGED <<op, message, entity, loaded, undone>>

-----------------------------------------------------------------------------
(* The database rejects a statement; a PATCH may have acknowledged before. *)
Rejected(r) ==
  /\ at[r] \in Statements
  /\ Goto(r, "failed")
  /\ UNCHANGED <<row, op, message, entity, loaded, undone>>

UpsertStep(r) == Update(r) \/ Insert(r) \/ UpdateAgain(r)

PatchStep(r) ==
  \/ \E zero \in BOOLEAN : FindPatched(r, zero)
  \/ PatchEnds(r) \/ Load(r) \/ WriteUpdate(r) \/ WriteInsert(r)

RequestStep(r) ==
  \/ \E o \in Ops, m \in 0 .. LastMessage : Begin(r, o, m)
  \/ UpsertStep(r)
  \/ FindMentioned(r) \/ Increment(r)
  \/ FindDeleted(r) \/ Remove(r)
  \/ PatchStep(r)
  \/ Rejected(r)

Next == \E r \in Requests : RequestStep(r)

Spec == Init /\ [][Next]_vars

-----------------------------------------------------------------------------
(* What an acknowledgement or advance that was answered has recorded stays *)
(* recorded: the cursor is at or past its message, whatever requests race  *)
(* with it, unless a deletion overtook it or a PATCH saved stale columns   *)
(* (upsertChannelMessageReadState, advanceNotificationCursorSql).          *)
AcksRecorded ==
  \A r \in Requests :
    at[r] = "done" /\ op[r] \in {"ack", "advance"} /\ r \notin undone =>
      row # NoRow /\ (row.patched \/ row.cursor >= message[r])

(* The cursor is at or past the marker (entities/ReadState.ts:26), unless  *)
(* a PATCH saved stale columns.                                            *)
MarkerWithinCursor ==
  row # NoRow /\ ~row.patched => row.marker <= row.cursor

(* Messages some request has sent to the database as read; 0 is none. *)
Acknowledged ==
  {0} \cup {message[r] : r \in
    {q \in Requests : at[q] \notin {"idle", "update", "insert", "update again"}}}

(* A message is never marked read that no request acknowledged: cursor and *)
(* marker are null or the message of a request whose upsert was sent, also *)
(* where a PATCH saved stale columns or inserted a deleted row again.      *)
NothingUnacknowledged ==
  row # NoRow => row.cursor \in Acknowledged /\ row.marker \in Acknowledged

(* While a row exists its cursor only moves forwards, but for a PATCH that *)
(* saves stale columns.                                                    *)
ForwardsUnlessPatched ==
  [][row # NoRow /\ row' # NoRow /\ row'.id = row.id /\ ~row'.patched
       => row'.cursor >= row.cursor]_vars

(* entities/ReadState.ts:25: the notification cursor is forwards-only.     *)
CursorForwardsOnly ==
  [][row # NoRow /\ row' # NoRow /\ row'.id = row.id
       => row'.cursor >= row.cursor]_vars

=============================================================================

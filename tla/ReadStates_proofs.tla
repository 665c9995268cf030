-------------------------- MODULE ReadStates_proofs -------------------------
(* Theorems about ReadStates, for any requests and any number of messages. *)
EXTENDS ReadStates, TLAPS

States == Statements \cup {"idle", "done", "failed"}

(* What the statements write are rows, and none goes behind the last one   *)
(* but for the local fields of a PATCH, which leave a mark.                *)
LEMMA AdvancedFacts ==
  ASSUME NEW w \in Row, NEW m \in 0 .. LastMessage
  PROVE  /\ Advanced(w, m) \in {w.cursor, w.marker, m}
         /\ Advanced(w, m) \in 0 .. LastMessage
         /\ Advanced(w, m) >= w.cursor
         /\ Advanced(w, m) >= w.marker
         /\ Advanced(w, m) >= m
<1>. DEFINE S == {w.cursor, w.marker, m}
<1>1. S \subseteq 0 .. LastMessage /\ LastMessage \in Nat
  BY ConstantsAssumption DEF Row
<1>2. \E c \in S : \A d \in S : d <= c
  <2>. DEFINE a == w.cursor
              b == w.marker
  <2>1. a \in Int /\ b \in Int /\ m \in Int
    BY <1>1
  <2>. HIDE DEF a, b
  <2>2. \E c \in {a, b, m} : \A d \in {a, b, m} : d <= c
    <3>1. CASE a >= b /\ a >= m
      BY <2>1, <3>1
    <3>2. CASE b >= a /\ b >= m
      BY <2>1, <3>2
    <3>3. CASE m >= a /\ m >= b
      BY <2>1, <3>3
    <3>. QED  BY <2>1, <3>1, <3>2, <3>3
  <2>. QED  BY <2>2 DEF a, b
<1>3. Advanced(w, m) \in S /\ \A d \in S : d <= Advanced(w, m)
  BY <1>2 DEF Advanced
<1>. QED  BY <1>1, <1>3

LEMMA UpdatedFacts ==
  ASSUME NEW w \in Row, NEW o \in Ops, NEW m \in 0 .. LastMessage
  PROVE  LET u == Updated(w, o, m) IN
         /\ u \in Row
         /\ u.id = w.id
         /\ u.patched = w.patched
         /\ u.cursor >= w.cursor
         /\ o # "pins" => u.cursor >= m
         /\ w.marker <= w.cursor => u.marker <= u.cursor
<1>1. CASE o = "pins"
  <2>1. Updated(w, o, m) = w
    BY <1>1 DEF Updated
  <2>. QED  BY <1>1, <2>1, ConstantsAssumption DEF Row
<1>2. CASE o = "advance"
  <2>1. Updated(w, o, m) = [w EXCEPT !.cursor = Advanced(w, m)]
    BY <1>2 DEF Updated
  <2>2. Updated(w, o, m) \in Row
    BY <2>1, AdvancedFacts DEF Row
  <2>3. /\ Updated(w, o, m).id = w.id
        /\ Updated(w, o, m).patched = w.patched
        /\ Updated(w, o, m).cursor = Advanced(w, m)
        /\ Updated(w, o, m).marker = w.marker
    BY <2>1 DEF Row
  <2>. QED  BY <2>2, <2>3, AdvancedFacts
<1>3. CASE o \notin {"pins", "advance"}
  <2>0. Updated(w, o, m) = [w EXCEPT !.cursor = Advanced(w, m), !.marker = m, !.mentions = 0]
    BY <1>3 DEF Updated
  <2>1. Updated(w, o, m) = [id |-> w.id, cursor |-> Advanced(w, m), marker |-> m, mentions |-> 0,
                            patched |-> w.patched]
    BY <2>0 DEF Row
  <2>2. Updated(w, o, m) \in Row
    <3>1. w.id \in RowIds /\ w.patched \in BOOLEAN
      BY DEF Row
    <3>. QED  BY <2>1, <3>1, AdvancedFacts DEF Row
  <2>3. /\ Updated(w, o, m).id = w.id
        /\ Updated(w, o, m).patched = w.patched
        /\ Updated(w, o, m).cursor = Advanced(w, m)
        /\ Updated(w, o, m).marker = m
    BY <2>1 DEF Row
  <2>. QED  BY <2>2, <2>3, AdvancedFacts
<1>. QED  BY <1>1, <1>2, <1>3

LEMMA InsertedFacts ==
  ASSUME NEW r \in Requests, NEW o, NEW m \in 0 .. LastMessage
  PROVE  LET u == Inserted(r, o, m) IN
         /\ u \in Row
         /\ u.cursor = m
         /\ u.marker <= u.cursor
         /\ ~u.patched
BY ConstantsAssumption DEF Inserted, Row, RowIds

LEMMA WrittenFacts ==
  ASSUME NEW w \in Row, NEW e \in Row, NEW l \in Row
  PROVE  LET u == Written(w, e, l) IN
         /\ u \in Row
         /\ u.id = w.id
         /\ u.patched \/ (~w.patched /\ u.cursor = w.cursor /\ u.marker = w.marker)
<1>. DEFINE p == w.patched \/ e.cursor # l.cursor \/ e.marker # l.marker
            c == IF e.cursor # l.cursor THEN e.cursor ELSE w.cursor
            k == IF e.marker # l.marker THEN e.marker ELSE w.marker
            n == IF e.mentions # l.mentions THEN e.mentions ELSE w.mentions
<1>1. Written(w, e, l) = [w EXCEPT !.cursor = c, !.marker = k, !.mentions = n, !.patched = p]
  BY Zenon DEF Written
<1>2. c \in 0 .. LastMessage /\ k \in 0 .. LastMessage /\ n \in Nat
  BY DEF Row
<1>3. p \in BOOLEAN
  OBVIOUS
<1>4. p \/ (~w.patched /\ c = w.cursor /\ k = w.marker)
  OBVIOUS
<1>. HIDE DEF p, c, k, n
<1>5. Written(w, e, l) \in Row
  BY <1>1, <1>2, <1>3 DEF Row
<1>6. Written(w, e, l).id = w.id /\ Written(w, e, l).cursor = c /\ Written(w, e, l).marker = k
  BY <1>1 DEF Row
<1>7. Written(w, e, l).patched = p
  BY <1>1 DEF Row
<1>. QED  BY <1>4, <1>5, <1>6, <1>7, Zenon

-----------------------------------------------------------------------------
(* What a request writes or removes it has found or created; its cursor    *)
(* was not behind the marker then.                                         *)
EntityInv ==
  \A r \in Requests :
    /\ at[r] \in {"load", "write", "remove"} => entity[r] \in Row
    /\ entity[r] # NoRow /\ ~entity[r].patched => entity[r].marker <= entity[r].cursor

(* A row that an insert has met is still there, but for a deletion. *)
ConflictInv ==
  \A r \in Requests : at[r] = "update again" /\ r \notin undone => row # NoRow

(* Which requests come to the statements that are not an upsert's. *)
PlaceInv ==
  \A r \in Requests :
    /\ at[r] = "increment" => op[r] = "mention"
    /\ at[r] = "remove" => op[r] = "delete"
    /\ at[r] \in {"load", "write"} => op[r] = "patch"

IInv == TypeOK /\ EntityInv /\ PlaceInv /\ ConflictInv /\ AcksRecorded /\ MarkerWithinCursor

(* Requests keep their places, the row is typed. *)
LEMMA TypeStep == TypeOK /\ EntityInv /\ [Next]_vars => TypeOK'
<1>. SUFFICES ASSUME TypeOK, EntityInv, [Next]_vars PROVE TypeOK'
  OBVIOUS
<1>. USE ConstantsAssumption
<1>1. ASSUME NEW r \in Requests, NEW o \in Ops, NEW m \in 0 .. LastMessage, Begin(r, o, m)
      PROVE  TypeOK'
  BY <1>1 DEF TypeOK, Begin, Goto, Statements
<1>2. ASSUME NEW r \in Requests, UpsertStep(r) PROVE TypeOK'
  <2>1. row # NoRow => Updated(row, op[r], message[r]) \in Row
    BY UpdatedFacts DEF TypeOK
  <2>2. Inserted(r, op[r], message[r]) \in Row
    BY InsertedFacts DEF TypeOK
  <2>3. row' \in Row \cup {NoRow}
    BY <1>2, <2>1, <2>2 DEF TypeOK, UpsertStep, Update, Insert, UpdateAgain
  <2>4. at' \in [Requests -> States]
    BY <1>2 DEF TypeOK, UpsertStep, Update, Insert, UpdateAgain, Goto, AfterUpsert, AfterConflict,
       Statements, States
  <2>5. UNCHANGED <<op, message, entity, loaded, undone>>
    BY <1>2 DEF UpsertStep, Update, Insert, UpdateAgain
  <2>. QED  BY <2>3, <2>4, <2>5 DEF TypeOK, States
<1>3. ASSUME NEW r \in Requests, FindMentioned(r) \/ Increment(r) PROVE TypeOK'
  <2>1. row \in Row => [row EXCEPT !.mentions = @ + 1] \in Row
    BY DEF Row
  <2>. QED  BY <1>3, <2>1 DEF TypeOK, FindMentioned, Increment, Goto, Statements
<1>4. ASSUME NEW r \in Requests, FindDeleted(r) \/ Remove(r) PROVE TypeOK'
  BY <1>4 DEF TypeOK, FindDeleted, Remove, Goto, Statements
<1>5. ASSUME NEW r \in Requests, PatchStep(r) PROVE TypeOK'
  <2>1. ASSUME NEW zero \in BOOLEAN, FindPatched(r, zero) PROVE TypeOK'
    <3>. DEFINE found == IF row # NoRow THEN row
                         ELSE [Inserted(r, "patch", 0) EXCEPT !.id = <<r, "save">>]
    <3>1. [Inserted(r, "patch", 0) EXCEPT !.id = <<r, "save">>] \in Row
      BY InsertedFacts DEF Row, RowIds
    <3>2. found \in Row /\ [found EXCEPT !.mentions = 0] \in Row
      BY <3>1 DEF TypeOK, Row
    <3>3. /\ entity' = [entity EXCEPT ![r] = IF zero THEN [found EXCEPT !.mentions = 0] ELSE found]
          /\ at' = [at EXCEPT ![r] = "load"]
          /\ UNCHANGED <<row, op, message, loaded, undone>>
      BY <2>1 DEF FindPatched, Goto
    <3>. HIDE DEF found
    <3>. QED  BY <3>2, <3>3 DEF TypeOK, Statements
  <2>2. CASE PatchEnds(r) \/ Load(r)
    BY <2>2 DEF TypeOK, PatchEnds, Load, Goto, Statements
  <2>3. CASE WriteUpdate(r)
    <3>1. row # NoRow /\ row.id = entity[r].id => Written(row, entity[r], loaded[r]) \in Row
      BY <2>3, WrittenFacts DEF TypeOK, EntityInv, WriteUpdate
    <3>. QED  BY <2>3, <3>1 DEF TypeOK, WriteUpdate, Goto, Statements
  <2>4. CASE WriteInsert(r)
    <3>1. entity[r] \in Row
      BY <2>4 DEF EntityInv, WriteInsert
    <3>2. [entity[r] EXCEPT !.patched = @ \/ entity[r].id # <<r, "save">>] \in Row
      BY <3>1 DEF Row
    <3>. QED  BY <2>4, <3>2 DEF TypeOK, WriteInsert, Goto, Statements
  <2>. QED  BY <1>5, <2>1, <2>2, <2>3, <2>4 DEF PatchStep
<1>6. ASSUME NEW r \in Requests, Rejected(r) PROVE TypeOK'
  BY <1>6 DEF TypeOK, Rejected, Goto, Statements
<1>7. CASE UNCHANGED vars
  BY <1>7 DEF TypeOK, vars
<1>. QED  BY <1>1, <1>2, <1>3, <1>4, <1>5, <1>6, <1>7 DEF Next, RequestStep

(* The statements of an upsert. *)
LEMMA UpsertKeeps ==
  ASSUME IInv, TypeOK', NEW r \in Requests, UpsertStep(r)
  PROVE  /\ IInv'
         /\ row # NoRow => row' # NoRow /\ row'.id = row.id /\ row'.cursor >= row.cursor
<1>. USE RowAssumption DEF IInv
<1>. DEFINE u == Updated(row, op[r], message[r])
            n == Inserted(r, op[r], message[r])
<1>1. row # NoRow =>
        /\ u \in Row /\ u.id = row.id /\ u.patched = row.patched /\ u.cursor >= row.cursor
        /\ op[r] # "pins" => u.cursor >= message[r]
        /\ row.marker <= row.cursor => u.marker <= u.cursor
  BY UpdatedFacts DEF TypeOK
<1>2. n \in Row /\ n.cursor = message[r] /\ n.marker <= n.cursor /\ ~n.patched
  BY InsertedFacts DEF TypeOK
<1>3. /\ at[r] \in {"update", "insert", "update again"}
      /\ \E s \in {"insert", "find", "done", "increment", "failed", "update again"} :
           at' = [at EXCEPT ![r] = s]
      /\ UNCHANGED <<op, message, entity, loaded, undone>>
  BY DEF UpsertStep, Update, Insert, UpdateAgain, Goto, AfterUpsert, AfterConflict
<1>4. /\ \A q \in Requests : q # r => at'[q] = at[q]
      /\ at'[r] \in {"insert", "find", "done", "increment", "failed", "update again"}
  BY <1>3 DEF TypeOK
<1>5. \/ row' = row
      \/ row # NoRow /\ row' = u
      \/ row = NoRow /\ row' = n
  BY DEF UpsertStep, Update, Insert, UpdateAgain
<1>6. at'[r] = "done" /\ op[r] \in {"ack", "advance"} /\ r \notin undone =>
        (row # NoRow /\ row' = u) \/ (row = NoRow /\ row' = n)
  BY DEF UpsertStep, Update, Insert, UpdateAgain, Goto, AfterUpsert, AfterConflict, TypeOK, ConflictInv
<1>7. at'[r] = "update again" => row' # NoRow
  BY DEF UpsertStep, Update, Insert, UpdateAgain, Goto, AfterUpsert, AfterConflict, TypeOK
<1>8. row # NoRow => row' # NoRow /\ row'.id = row.id /\ row'.cursor >= row.cursor
  BY <1>1, <1>5 DEF TypeOK, Row
<1>. HIDE DEF u, n
<1>9. EntityInv' /\ ConflictInv'
  BY <1>3, <1>4, <1>5, <1>7, <1>1, <1>2 DEF EntityInv, ConflictInv
<1>12. PlaceInv'
  <2>1. at'[r] = "increment" => op[r] = "mention"
    BY DEF UpsertStep, Update, Insert, UpdateAgain, Goto, AfterUpsert, AfterConflict, TypeOK
  <2>. QED  BY <1>3, <1>4, <2>1 DEF PlaceInv
<1>10. MarkerWithinCursor'
  BY <1>1, <1>2, <1>5 DEF MarkerWithinCursor
<1>11. AcksRecorded'
  <2>1. ASSUME NEW q \in Requests, q # r, at'[q] = "done", op'[q] \in {"ack", "advance"}, q \notin undone'
        PROVE  row' # NoRow /\ (row'.patched \/ row'.cursor >= message'[q])
    <3>1. row # NoRow /\ (row.patched \/ row.cursor >= message[q])
      BY <1>3, <1>4, <2>1 DEF AcksRecorded
    <3>2. row' # NoRow /\ row'.patched = row.patched /\ row'.cursor >= row.cursor
      BY <1>1, <1>5, <1>8, <3>1
    <3>3. row.cursor \in Int /\ row'.cursor \in Int /\ message[q] \in Int
      BY <3>1, <3>2 DEF TypeOK, Row
    <3>4. CASE row.patched
      <4>1. row'.patched
        BY <3>2, <3>4, Zenon
      <4>. QED  BY <3>2, <4>1
    <3>5. CASE row.cursor >= message[q]
      <4>1. row'.cursor >= message[q]
        BY <3>2, <3>3, <3>5
      <4>2. message' = message
        BY <1>3
      <4>. QED  BY <3>2, <4>1, <4>2
    <3>. QED  BY <3>1, <3>4, <3>5
  <2>2. ASSUME at'[r] = "done", op'[r] \in {"ack", "advance"}, r \notin undone'
        PROVE  row' # NoRow /\ (row'.patched \/ row'.cursor >= message'[r])
    <3>0. message[r] \in Int
      BY DEF TypeOK
    <3>1. op' = op /\ message' = message /\ undone' = undone
      BY <1>3
    <3>2. (row # NoRow /\ row' = u) \/ (row = NoRow /\ row' = n)
      BY <1>6, <2>2, <3>1
    <3>3. CASE row # NoRow /\ row' = u
      <4>1. u.cursor >= message[r]
        BY <1>1, <2>2, <3>1, <3>3
      <4>. QED  BY <1>8, <3>1, <3>3, <4>1
    <3>4. CASE row = NoRow /\ row' = n
      <4>1. n.cursor >= message[r] /\ n # NoRow
        BY <1>2, <3>0
      <4>. QED  BY <3>1, <3>4, <4>1
    <3>. QED  BY <3>2, <3>3, <3>4
  <2>. QED  BY <2>1, <2>2 DEF AcksRecorded
<1>. QED  BY <1>8, <1>9, <1>10, <1>11, <1>12

(* A step that writes nothing but what a request holds. *)
LEMMA RowKept ==
  ASSUME IInv, TypeOK', NEW r \in Requests,
         UNCHANGED <<row, undone>>,
         \E s \in States \ {"update again"} : at' = [at EXCEPT ![r] = s],
         at'[r] = "done" => op'[r] \notin {"ack", "advance"},
         \A q \in Requests : q # r => op'[q] = op[q] /\ message'[q] = message[q],
         EntityInv', PlaceInv'
  PROVE  IInv'
<1>1. \A q \in Requests : q # r => at'[q] = at[q]
  BY DEF IInv, TypeOK
<1>2. at'[r] # "update again"
  BY DEF IInv, TypeOK
<1>. QED  BY <1>1, <1>2 DEF IInv, ConflictInv, AcksRecorded, MarkerWithinCursor

LEMMA OtherKeeps ==
  ASSUME IInv, TypeOK', NEW r \in Requests,
         \/ \E o \in Ops, m \in 0 .. LastMessage : Begin(r, o, m)
         \/ FindMentioned(r) \/ Increment(r) \/ FindDeleted(r) \/ Remove(r) \/ Rejected(r)
  PROVE  /\ IInv'
         /\ row # NoRow /\ row' # NoRow => row'.id = row.id /\ row'.cursor >= row.cursor
<1>. USE RowAssumption
<1>0. row # NoRow => row.cursor >= row.cursor
  BY DEF IInv, TypeOK, Row
<1>1. ASSUME NEW o \in Ops, NEW m \in 0 .. LastMessage, Begin(r, o, m) PROVE IInv' /\ row' = row
  <2>1. \E s \in {"update", "find"} : at' = [at EXCEPT ![r] = s]
    BY <1>1 DEF Begin, Goto
  <2>2. at'[r] \in {"update", "find"} /\ \A q \in Requests : q # r => at'[q] = at[q]
    BY <2>1 DEF IInv, TypeOK
  <2>3. EntityInv'
    BY <1>1, <2>2 DEF IInv, EntityInv, Begin
  <2>4. /\ UNCHANGED <<row, undone>>
        /\ \A q \in Requests : q # r => op'[q] = op[q] /\ message'[q] = message[q]
    BY <1>1 DEF Begin, IInv, TypeOK
  <2>5. PlaceInv'
    BY <2>2, <2>4 DEF IInv, PlaceInv
  <2>. QED  BY <2>1, <2>2, <2>3, <2>4, <2>5, RowKept DEF States, Statements
<1>2. CASE FindMentioned(r) \/ FindDeleted(r) \/ Rejected(r)
  <2>1. /\ at[r] \in Statements
        /\ \E s \in {"insert", "increment", "remove", "done", "failed"} :
             /\ at' = [at EXCEPT ![r] = s]
             /\ s = "remove" => row # NoRow /\ entity' = [entity EXCEPT ![r] = row]
             /\ s \in {"done", "remove"} => op[r] = "delete"
             /\ s = "increment" => op[r] = "mention"
        /\ entity' = entity \/ entity' = [entity EXCEPT ![r] = row]
        /\ UNCHANGED <<row, op, message, undone>>
    BY <1>2 DEF FindMentioned, FindDeleted, Rejected, Goto, Statements
  <2>2. /\ \A q \in Requests : q # r => at'[q] = at[q] /\ entity'[q] = entity[q]
        /\ at'[r] \in {"insert", "increment", "remove", "done", "failed"}
        /\ entity'[r] = entity[r] \/ entity'[r] = row
        /\ at'[r] = "remove" => entity'[r] \in Row
        /\ at'[r] \in {"done", "remove"} => op[r] = "delete"
        /\ at'[r] = "increment" => op[r] = "mention"
    BY <2>1 DEF IInv, TypeOK
  <2>3. EntityInv'
    BY <2>2 DEF IInv, EntityInv, MarkerWithinCursor
  <2>4. PlaceInv'
    BY <2>1, <2>2 DEF IInv, PlaceInv
  <2>. QED  BY <1>0, <2>1, <2>2, <2>3, <2>4, RowKept DEF States, Statements
<1>3. CASE Increment(r)
  <2>1. /\ at[r] = "increment" /\ at' = [at EXCEPT ![r] = "done"]
        /\ UNCHANGED <<op, message, entity, undone>>
        /\ row' = IF row = NoRow THEN row ELSE [row EXCEPT !.mentions = @ + 1]
    BY <1>3 DEF Increment, Goto
  <2>2. row # NoRow => /\ row' # NoRow /\ row'.id = row.id /\ row'.cursor = row.cursor
                       /\ row'.marker = row.marker /\ row'.patched = row.patched
    BY <2>1 DEF IInv, TypeOK, Row
  <2>3. /\ \A q \in Requests : q # r => at'[q] = at[q]
        /\ at'[r] = "done"
        /\ row = NoRow => row' = NoRow
    BY <2>1 DEF IInv, TypeOK
  <2>4. EntityInv' /\ ConflictInv' /\ PlaceInv'
    BY <2>1, <2>2, <2>3 DEF IInv, EntityInv, ConflictInv, PlaceInv
  <2>5. MarkerWithinCursor'
    BY <2>1, <2>2, <2>3 DEF IInv, MarkerWithinCursor
  <2>6. AcksRecorded'
    BY <2>1, <2>2, <2>3 DEF IInv, AcksRecorded, PlaceInv
  <2>. QED  BY <1>0, <2>2, <2>4, <2>5, <2>6 DEF IInv
<1>4. CASE Remove(r)
  <2>1. /\ at[r] = "remove" /\ at' = [at EXCEPT ![r] = "done"]
        /\ UNCHANGED <<op, message, entity>>
        /\ \/ row' = NoRow /\ undone' = {q \in Requests : at[q] # "idle"}
           \/ UNCHANGED <<row, undone>>
    BY <1>4 DEF Remove, Goto
  <2>2. (\A q \in Requests : q # r => at'[q] = at[q]) /\ at'[r] = "done"
    BY <2>1 DEF IInv, TypeOK
  <2>. QED  BY <1>0, <2>1, <2>2 DEF IInv, EntityInv, PlaceInv, ConflictInv, AcksRecorded, MarkerWithinCursor
<1>. QED  BY <1>0, <1>1, <1>2, <1>3, <1>4

(* The local fields of a PATCH. *)
LEMMA PatchKeeps ==
  ASSUME IInv, TypeOK', NEW r \in Requests, PatchStep(r)
  PROVE  /\ IInv'
         /\ row # NoRow /\ row' # NoRow /\ ~row'.patched => row'.id = row.id /\ row'.cursor >= row.cursor
<1>. USE RowAssumption
<1>0. row # NoRow => row.cursor >= row.cursor
  BY DEF IInv, TypeOK, Row
<1>1. ASSUME NEW zero \in BOOLEAN, FindPatched(r, zero) PROVE IInv' /\ row' = row
  <2>. DEFINE found == IF row # NoRow THEN row
                       ELSE [Inserted(r, "patch", 0) EXCEPT !.id = <<r, "save">>]
              e == IF zero THEN [found EXCEPT !.mentions = 0] ELSE found
  <2>1. /\ entity' = [entity EXCEPT ![r] = e]
        /\ at' = [at EXCEPT ![r] = "load"]
        /\ UNCHANGED <<row, op, message, undone>>
        /\ op[r] = "patch"
    BY <1>1 DEF FindPatched, Goto
  <2>2. found \in Row /\ (~found.patched => found.marker <= found.cursor)
    <3>1. CASE row = NoRow
      <4>1. 0 \in 0 .. LastMessage
        BY ConstantsAssumption
      <4>2. Inserted(r, "patch", 0) \in Row /\ Inserted(r, "patch", 0).marker <= Inserted(r, "patch", 0).cursor
        BY <4>1, InsertedFacts
      <4>3. found = [Inserted(r, "patch", 0) EXCEPT !.id = <<r, "save">>]
        BY <3>1
      <4>. QED  BY <4>2, <4>3 DEF Row, RowIds
    <3>2. CASE row # NoRow
      BY <3>2 DEF IInv, TypeOK, MarkerWithinCursor
    <3>. QED  BY <3>1, <3>2
  <2>. HIDE DEF found
  <2>3. e \in Row /\ (~e.patched => e.marker <= e.cursor)
    BY <2>2 DEF Row
  <2>. HIDE DEF e
  <2>4. /\ \A q \in Requests : q # r => at'[q] = at[q] /\ entity'[q] = entity[q]
        /\ at'[r] = "load" /\ entity'[r] = e
    BY <2>1 DEF IInv, TypeOK
  <2>5. EntityInv' /\ PlaceInv'
    BY <2>1, <2>3, <2>4 DEF IInv, EntityInv, PlaceInv
  <2>. QED  BY <2>1, <2>4, <2>5, RowKept DEF States, Statements
<1>2. CASE PatchEnds(r) \/ Load(r)
  <2>1. /\ op[r] = "patch"
        /\ \/ at' = [at EXCEPT ![r] = "done"]
           \/ at[r] = "load" /\ at' = [at EXCEPT ![r] = "write"]
        /\ UNCHANGED <<row, op, message, entity, undone>>
    BY <1>2 DEF PatchEnds, Load, Goto, IInv, PlaceInv
  <2>2. /\ \A q \in Requests : q # r => at'[q] = at[q]
        /\ at'[r] = "done" \/ (at[r] = "load" /\ at'[r] = "write")
    BY <2>1 DEF IInv, TypeOK
  <2>3. EntityInv' /\ PlaceInv'
    BY <2>1, <2>2 DEF IInv, EntityInv, PlaceInv
  <2>. QED  BY <1>0, <2>1, <2>2, <2>3, RowKept DEF States, Statements
<1>3. CASE WriteUpdate(r)
  <2>. DEFINE u == Written(row, entity[r], loaded[r])
  <2>1. /\ at[r] = "write" /\ loaded[r] # NoRow
        /\ at' = [at EXCEPT ![r] = "done"]
        /\ UNCHANGED <<op, message, entity, undone>>
        /\ row' = IF row # NoRow /\ row.id = entity[r].id THEN u ELSE row
    BY <1>3 DEF WriteUpdate, Goto
  <2>2. (\A q \in Requests : q # r => at'[q] = at[q]) /\ at'[r] = "done" /\ op[r] = "patch"
    BY <2>1 DEF IInv, TypeOK, PlaceInv
  <2>3. row # NoRow => /\ u \in Row /\ u.id = row.id
                       /\ u.patched \/ (~row.patched /\ u.cursor = row.cursor /\ u.marker = row.marker)
    BY <2>1, WrittenFacts DEF IInv, TypeOK, EntityInv
  <2>. HIDE DEF u
  <2>4. CASE row' = row
    <3>1. EntityInv' /\ PlaceInv'
      BY <2>1, <2>2, <2>4 DEF IInv, EntityInv, PlaceInv
    <3>. QED  BY <1>0, <2>1, <2>2, <2>4, <3>1, RowKept DEF States
  <2>5. CASE row # NoRow /\ row' = u
    <3>1. row' # NoRow /\ row'.id = row.id
      BY <2>3, <2>5
    <3>2. row'.patched \/ (~row.patched /\ row'.cursor = row.cursor /\ row'.marker = row.marker)
      BY <2>3, <2>5, Zenon
    <3>3. EntityInv' /\ PlaceInv' /\ ConflictInv'
      BY <2>1, <2>2, <3>1 DEF IInv, EntityInv, PlaceInv, ConflictInv
    <3>4. MarkerWithinCursor'
      BY <2>5, <3>2 DEF IInv, MarkerWithinCursor
    <3>5. AcksRecorded'
      BY <2>1, <2>2, <2>5, <3>1, <3>2 DEF IInv, AcksRecorded
    <3>. QED  BY <1>0, <2>5, <3>1, <3>2, <3>3, <3>4, <3>5 DEF IInv
  <2>. QED  BY <2>1, <2>4, <2>5
<1>4. CASE WriteInsert(r)
  <2>. DEFINE e == [entity[r] EXCEPT !.patched = @ \/ entity[r].id # <<r, "save">>]
  <2>1. /\ at[r] = "write"
        /\ UNCHANGED <<op, message, entity, undone>>
        /\ \/ row = NoRow /\ row' = e /\ at' = [at EXCEPT ![r] = "done"]
           \/ row' = row /\ at' = [at EXCEPT ![r] = "failed"]
    BY <1>4 DEF WriteInsert, Goto
  <2>2. /\ \A q \in Requests : q # r => at'[q] = at[q]
        /\ at'[r] \in {"done", "failed"} /\ op[r] = "patch"
    BY <2>1 DEF IInv, TypeOK, PlaceInv
  <2>3. /\ entity[r] \in Row
        /\ ~entity[r].patched => entity[r].marker <= entity[r].cursor
    BY <2>1 DEF IInv, EntityInv
  <2>4. e \in Row /\ e.marker = entity[r].marker /\ e.cursor = entity[r].cursor
    BY <2>3 DEF Row
  <2>5. entity[r].patched => e.patched
    BY <2>3 DEF Row
  <2>. HIDE DEF e
  <2>6. EntityInv' /\ PlaceInv'
    BY <2>1, <2>2 DEF IInv, EntityInv, PlaceInv
  <2>7. CASE row' = row /\ at' = [at EXCEPT ![r] = "failed"]
    BY <1>0, <2>1, <2>2, <2>6, <2>7, RowKept DEF States
  <2>8. CASE row = NoRow /\ row' = e
    <3>1. MarkerWithinCursor'
      BY <2>3, <2>4, <2>5, <2>8 DEF MarkerWithinCursor
    <3>2. ConflictInv' /\ AcksRecorded'
      BY <2>1, <2>2, <2>8 DEF IInv, ConflictInv, AcksRecorded
    <3>. QED  BY <2>6, <2>8, <3>1, <3>2 DEF IInv
  <2>. QED  BY <2>1, <2>7, <2>8
<1>. QED  BY <1>0, <1>1, <1>2, <1>3, <1>4 DEF PatchStep

LEMMA RowStep ==
  IInv /\ [Next]_vars =>
    /\ IInv'
    /\ row # NoRow /\ row' # NoRow /\ ~row'.patched => row'.cursor >= row.cursor
<1>. SUFFICES ASSUME IInv, [Next]_vars
              PROVE  /\ IInv'
                     /\ row # NoRow /\ row' # NoRow /\ ~row'.patched => row'.cursor >= row.cursor
  OBVIOUS
<1>1. TypeOK'
  BY TypeStep DEF IInv
<1>2. CASE UNCHANGED vars
  <2>1. IInv'
    BY <1>2 DEF vars, IInv, TypeOK, EntityInv, PlaceInv, ConflictInv, AcksRecorded, MarkerWithinCursor
  <2>2. row' = row /\ (row # NoRow => row.cursor >= row.cursor)
    BY <1>2 DEF vars, IInv, TypeOK, Row
  <2>. QED  BY <2>1, <2>2
<1>3. ASSUME NEW r \in Requests, RequestStep(r)
      PROVE  /\ IInv'
             /\ row # NoRow /\ row' # NoRow /\ ~row'.patched => row'.cursor >= row.cursor
  <2>1. CASE UpsertStep(r)
    BY <1>1, <2>1, UpsertKeeps
  <2>2. CASE PatchStep(r)
    BY <1>1, <2>2, PatchKeeps
  <2>3. CASE ~UpsertStep(r) /\ ~PatchStep(r)
    BY <1>1, <1>3, <2>3, OtherKeeps DEF RequestStep
  <2>. QED  BY <2>1, <2>2, <2>3
<1>. QED  BY <1>2, <1>3 DEF Next

LEMMA Initially == Init => IInv
BY ConstantsAssumption, RowAssumption DEF Init, IInv, TypeOK, EntityInv, PlaceInv, ConflictInv,
     AcksRecorded, MarkerWithinCursor, Ops, Upserts

LEMMA Invariance == Spec => []IInv
BY Initially, RowStep, PTL DEF Spec

(* The row and the requests are always typed. *)
THEOREM TypeCorrect == Spec => []TypeOK
BY Invariance, PTL DEF IInv

(* An answered acknowledgement stays recorded (advanceNotificationCursorSql, *)
(* upsertChannelMessageReadState).                                           *)
THEOREM AcksAreRecorded == Spec => []AcksRecorded
BY Invariance, PTL DEF IInv

(* The cursor stays at or past the marker (entities/ReadState.ts:26). *)
THEOREM MarkerStaysWithin == Spec => []MarkerWithinCursor
BY Invariance, PTL DEF IInv

(* The cursor never goes back where no PATCH has saved stale columns. *)
THEOREM CursorForwards == Spec => ForwardsUnlessPatched
<1>1. IInv /\ [Next]_vars =>
        [row # NoRow /\ row' # NoRow /\ row'.id = row.id /\ ~row'.patched
           => row'.cursor >= row.cursor]_vars
  BY RowStep
<1>. QED  BY <1>1, Invariance, PTL DEF Spec, ForwardsUnlessPatched

-----------------------------------------------------------------------------
(* The values an upsert writes are its message or were in the row. *)
LEMMA ValuesUpserted ==
  ASSUME NEW w \in Row, NEW o \in Ops, NEW m \in 0 .. LastMessage
  PROVE  LET u == Updated(w, o, m) IN
         /\ u.cursor \in {w.cursor, w.marker, m}
         /\ u.marker \in {w.marker, m}
BY AdvancedFacts DEF Updated, Row

(* A mention names no message, and what a PATCH holds was acknowledged. *)
MentionInv == \A r \in Requests : op[r] = "mention" /\ at[r] # "idle" => message[r] = 0

FoundInv ==
  \A r \in Requests : entity[r] # NoRow =>
    entity[r].cursor \in Acknowledged /\ entity[r].marker \in Acknowledged

KnownInv == MentionInv /\ FoundInv /\ NothingUnacknowledged

Unsent == {"idle", "update", "insert", "update again"}

(* What is acknowledged stays acknowledged. *)
LEMMA AcknowledgedGrows ==
  ASSUME IInv, MentionInv, [Next]_vars
  PROVE  MentionInv' /\ Acknowledged \subseteq Acknowledged'
<1>0. /\ at \in [Requests -> States]
      /\ op \in [Requests -> Ops]
      /\ message \in [Requests -> 0 .. LastMessage]
  BY DEF IInv, TypeOK, States
<1>. DEFINE Keeps == /\ MentionInv'
                     /\ \A q \in Requests : at[q] \notin Unsent =>
                          (at'[q] \notin Unsent /\ message'[q] = message[q]) \/ message[q] = 0
<1>1. ASSUME NEW r \in Requests, RequestStep(r) PROVE Keeps
  <2>1. ASSUME NEW o \in Ops, NEW m \in 0 .. LastMessage, Begin(r, o, m) PROVE Keeps
    BY <1>0, <2>1 DEF Begin, Goto, MentionInv, Unsent
  <2>2. CASE UpsertStep(r)
    <3>1. UNCHANGED <<op, message>> /\ at[r] \in {"update", "insert", "update again"}
      BY <2>2 DEF UpsertStep, Update, Insert, UpdateAgain
    <3>2. \A q \in Requests : q # r => at'[q] = at[q]
      BY <1>0, <2>2 DEF UpsertStep, Update, Insert, UpdateAgain, Goto
    <3>3. at[r] # "idle" /\ (at'[r] # "idle" => op'[r] = op[r] /\ message'[r] = message[r])
      BY <3>1
    <3>. QED  BY <3>1, <3>2, <3>3 DEF MentionInv, Unsent
  <2>3. CASE FindMentioned(r) \/ Increment(r)
    BY <1>0, <2>3 DEF Goto, FindMentioned, Increment, MentionInv, Unsent
  <2>4. CASE FindDeleted(r) \/ Remove(r) \/ Rejected(r)
    BY <1>0, <2>4 DEF Goto, FindDeleted, Remove, Rejected, MentionInv, Unsent, Statements
  <2>5. CASE PatchStep(r)
    BY <1>0, <2>5 DEF Goto, PatchStep, FindPatched, PatchEnds, Load, WriteUpdate, WriteInsert, MentionInv, Unsent
  <2>. QED  BY <1>1, <2>1, <2>2, <2>3, <2>4, <2>5 DEF RequestStep
<1>2. ASSUME UNCHANGED vars PROVE Keeps
  <2>1. UNCHANGED <<at, op, message>>
    BY <1>2 DEF vars
  <2>. QED  BY <2>1 DEF MentionInv, Unsent
<1>. HIDE DEF Keeps
<1>3. Keeps
  BY <1>1, <1>2 DEF Next
<1>. USE DEF Keeps
<1>. QED  BY <1>3 DEF Acknowledged, Unsent

LEMMA KnownStep == IInv /\ KnownInv /\ [Next]_vars => KnownInv'
<1>. SUFFICES ASSUME IInv, KnownInv, [Next]_vars PROVE KnownInv'
  OBVIOUS
<1>. USE RowAssumption DEF KnownInv
<1>. DEFINE Known(w) == w.cursor \in Acknowledged' /\ w.marker \in Acknowledged'
<1>1. MentionInv' /\ Acknowledged \subseteq Acknowledged' /\ TypeOK'
  BY AcknowledgedGrows, TypeStep DEF IInv
<1>2. 0 \in Acknowledged'
  BY DEF Acknowledged
<1>3. /\ row # NoRow => Known(row)
      /\ \A q \in Requests : entity[q] # NoRow => Known(entity[q])
  BY <1>1 DEF NothingUnacknowledged, FoundInv
<1>4. ASSUME NEW r \in Requests, RequestStep(r)
      PROVE  /\ row' # NoRow => Known(row')
             /\ \A q \in Requests : entity'[q] # NoRow => Known(entity'[q])
  <2>1. CASE UpsertStep(r)
    <3>. DEFINE u == Updated(row, op[r], message[r])
                n == Inserted(r, op[r], message[r])
    <3>1. \/ row' = row
          \/ row # NoRow /\ row' = u
          \/ row = NoRow /\ row' = n
      BY <2>1 DEF UpsertStep, Update, Insert, UpdateAgain
    <3>2. UNCHANGED <<op, message, entity>>
      BY <2>1 DEF UpsertStep, Update, Insert, UpdateAgain
    <3>3. row' # row => message[r] \in Acknowledged'
      <4>1. row' # row => at'[r] \in {"increment", "find", "done"}
        BY <2>1 DEF UpsertStep, Update, Insert, UpdateAgain, Goto, AfterUpsert, IInv, TypeOK
      <4>. QED  BY <3>2, <4>1 DEF Acknowledged
    <3>4. row # NoRow => /\ u.cursor \in {row.cursor, row.marker, message[r]}
                         /\ u.marker \in {row.marker, message[r]}
      BY ValuesUpserted DEF IInv, TypeOK
    <3>5. n.cursor = message[r] /\ n.marker \in {0, message[r]}
      BY DEF Inserted
    <3>. HIDE DEF u, n
    <3>. QED  BY <1>2, <1>3, <3>1, <3>2, <3>3, <3>4, <3>5
  <2>2. CASE UNCHANGED <<row, entity>>
    BY <1>3, <2>2
  <2>3. CASE Increment(r) \/ Remove(r)
    <3>1. row # NoRow => /\ [row EXCEPT !.mentions = @ + 1].cursor = row.cursor
                         /\ [row EXCEPT !.mentions = @ + 1].marker = row.marker
      BY DEF IInv, TypeOK, Row
    <3>. QED  BY <1>3, <2>3, <3>1 DEF Increment, Remove
  <2>4. CASE FindDeleted(r)
    BY <1>3, <2>4 DEF FindDeleted, IInv, TypeOK
  <2>5. ASSUME NEW zero \in BOOLEAN, FindPatched(r, zero)
        PROVE  row' = row /\ \A q \in Requests : entity'[q] # NoRow => Known(entity'[q])
    <3>. DEFINE i == [Inserted(r, "patch", 0) EXCEPT !.id = <<r, "save">>]
                found == IF row # NoRow THEN row ELSE i
                e == IF zero THEN [found EXCEPT !.mentions = 0] ELSE found
    <3>1. row' = row /\ entity' = [entity EXCEPT ![r] = e]
      BY <2>5 DEF FindPatched
    <3>2. i.cursor = 0 /\ i.marker = 0 /\ i \in Row
      <4>1. 0 \in 0 .. LastMessage
        BY ConstantsAssumption
      <4>2. Inserted(r, "patch", 0) \in Row /\ Inserted(r, "patch", 0).cursor = 0
        BY <4>1, InsertedFacts
      <4>3. Inserted(r, "patch", 0).marker = 0
        BY DEF Inserted
      <4>. QED  BY <4>2, <4>3 DEF Row, RowIds
    <3>. HIDE DEF i
    <3>3. found \in Row /\ Known(found)
      BY <1>2, <1>3, <3>2 DEF IInv, TypeOK
    <3>. HIDE DEF found
    <3>4. Known(e)
      BY <3>3 DEF Row
    <3>. HIDE DEF e
    <3>. QED  BY <1>3, <3>1, <3>4 DEF IInv, TypeOK
  <2>6. CASE WriteUpdate(r)
    <3>1. /\ entity' = entity
          /\ row' # row => /\ row # NoRow /\ entity[r] \in Row /\ loaded[r] \in Row
                           /\ row' = Written(row, entity[r], loaded[r])
      BY <2>6 DEF WriteUpdate, IInv, TypeOK, EntityInv
    <3>2. ASSUME NEW w \in Row, NEW e \in Row, NEW l \in Row
          PROVE  /\ Written(w, e, l).cursor \in {w.cursor, e.cursor}
                 /\ Written(w, e, l).marker \in {w.marker, e.marker}
      <4>. DEFINE p == w.patched \/ e.cursor # l.cursor \/ e.marker # l.marker
                  c == IF e.cursor # l.cursor THEN e.cursor ELSE w.cursor
                  k == IF e.marker # l.marker THEN e.marker ELSE w.marker
                  n == IF e.mentions # l.mentions THEN e.mentions ELSE w.mentions
      <4>1. Written(w, e, l) = [w EXCEPT !.cursor = c, !.marker = k, !.mentions = n, !.patched = p]
        BY Zenon DEF Written
      <4>2. c \in {w.cursor, e.cursor} /\ k \in {w.marker, e.marker}
        OBVIOUS
      <4>. HIDE DEF c, k, n, p
      <4>. QED  BY <4>1, <4>2 DEF Row
    <3>3. CASE row' = row
      BY <1>3, <3>1, <3>3
    <3>4. CASE row' # row
      <4>1. row \in Row /\ entity[r] \in Row /\ loaded[r] \in Row
        BY <3>1, <3>4 DEF IInv, TypeOK
      <4>2. /\ Written(row, entity[r], loaded[r]).cursor \in {row.cursor, entity[r].cursor}
            /\ Written(row, entity[r], loaded[r]).marker \in {row.marker, entity[r].marker}
        BY <4>1, <3>2
      <4>. QED  BY <1>3, <3>1, <3>4, <4>1, <4>2
    <3>. QED  BY <3>3, <3>4
  <2>7. CASE WriteInsert(r)
    <3>. DEFINE e == [entity[r] EXCEPT !.patched = @ \/ entity[r].id # <<r, "save">>]
    <3>1. entity' = entity /\ entity[r] \in Row /\ (row' = row \/ row' = e)
      BY <2>7 DEF WriteInsert, IInv, EntityInv
    <3>2. e.cursor = entity[r].cursor /\ e.marker = entity[r].marker
      BY <3>1 DEF Row
    <3>. HIDE DEF e
    <3>. QED  BY <1>3, <3>1, <3>2
  <2>. QED  BY <1>4, <1>3, <2>1, <2>2, <2>3, <2>4, <2>5, <2>6, <2>7
            DEF RequestStep, PatchStep, Begin, FindMentioned, PatchEnds, Load, Rejected
<1>. HIDE DEF Known
<1>5. ASSUME UNCHANGED vars
      PROVE  /\ row' # NoRow => Known(row')
             /\ \A q \in Requests : entity'[q] # NoRow => Known(entity'[q])
  <2>1. row' = row /\ entity' = entity
    BY <1>5 DEF vars
  <2>. QED  BY <1>3, <2>1
<1>6. /\ row' # NoRow => Known(row')
      /\ \A q \in Requests : entity'[q] # NoRow => Known(entity'[q])
  BY <1>4, <1>5 DEF Next
<1>. QED  BY <1>1, <1>6 DEF NothingUnacknowledged, FoundInv, Known

(* No message is marked read that no request acknowledged, whatever a PATCH *)
(* overwrites or inserts again (ReadStatePersistence.ts, ReadStateAck.ts).  *)
THEOREM OnlyAcknowledged == Spec => []NothingUnacknowledged
<1>1. Init => KnownInv
  BY DEF Init, KnownInv, MentionInv, FoundInv, NothingUnacknowledged
<1>2. KnownInv => NothingUnacknowledged
  BY DEF KnownInv
<1>. QED  BY <1>1, <1>2, KnownStep, Invariance, PTL DEF Spec

-----------------------------------------------------------------------------
(* What two upserts leave as the cursor: the furthest of all. *)
LEMMA CursorUpserted ==
  ASSUME NEW w \in Row, NEW o \in {"ack", "advance"}, NEW m \in 0 .. LastMessage
  PROVE  /\ Updated(w, o, m) \in Row
         /\ Updated(w, o, m).cursor = Advanced(w, m)
         /\ Updated(w, o, m).marker = IF o = "ack" THEN m ELSE w.marker
         /\ Updated(w, o, m).mentions = IF o = "ack" THEN 0 ELSE w.mentions
<1>1. Updated(w, o, m) \in Row
  BY UpdatedFacts DEF Ops, Upserts
<1>. QED  BY <1>1 DEF Updated, Row

(* A repeated acknowledgement or advance changes nothing: a client or the  *)
(* second update of an upsert may retry it (upsertChannelMessageReadState, *)
(* advanceChannelReadStateNotificationCursor).                             *)
THEOREM RetryIsHarmless ==
  ASSUME NEW w \in Row, NEW o \in {"ack", "advance"}, NEW m \in 0 .. LastMessage
  PROVE  Updated(Updated(w, o, m), o, m) = Updated(w, o, m)
<1>. DEFINE u == Updated(w, o, m)
<1>1. u \in Row /\ u.cursor = Advanced(w, m)
  BY CursorUpserted
<1>2. /\ u.marker = IF o = "ack" THEN m ELSE w.marker
      /\ o = "ack" => u.mentions = 0
  BY CursorUpserted
<1>. HIDE DEF u
<1>3. Advanced(u, m) = u.cursor
  <2>1. Advanced(u, m) \in {u.cursor, u.marker, m} /\ Advanced(u, m) >= u.cursor
    BY <1>1, AdvancedFacts
  <2>2. u.cursor >= m /\ u.cursor >= w.marker
    BY <1>1, AdvancedFacts
  <2>3. u.cursor >= u.marker
    BY <1>2, <2>2
  <2>4. u.cursor \in Int /\ u.marker \in Int /\ m \in Int
    BY <1>1, ConstantsAssumption DEF Row
  <2>. QED  BY <2>1, <2>2, <2>3, <2>4
<1>4. CASE o = "advance"
  <2>1. Updated(u, o, m) = [u EXCEPT !.cursor = u.cursor]
    BY <1>3, <1>4 DEF Updated
  <2>. QED  BY <1>1, <2>1 DEF Row, u
<1>5. CASE o = "ack"
  <2>1. Updated(u, o, m) = [u EXCEPT !.cursor = u.cursor, !.marker = u.marker, !.mentions = u.mentions]
    BY <1>2, <1>3, <1>5 DEF Updated
  <2>2. Updated(u, o, m) = u
    BY <1>1, <2>1 DEF Row
  <2>. QED  BY <2>2 DEF u
<1>. QED  BY <1>4, <1>5

(* The furthest of a row's marks and two messages. *)
LEMMA CursorTwice ==
  ASSUME NEW w \in Row, NEW o \in {"ack", "advance"}, NEW p \in {"ack", "advance"},
         NEW m \in 0 .. LastMessage, NEW n \in 0 .. LastMessage
  PROVE  LET c == Updated(Updated(w, o, m), p, n).cursor IN
         /\ c \in {w.cursor, w.marker, m, n}
         /\ c >= w.cursor /\ c >= w.marker /\ c >= m /\ c >= n
<1>. DEFINE u == Updated(w, o, m)
            c == Updated(u, p, n).cursor
<1>1. /\ u \in Row /\ u.cursor = Advanced(w, m)
      /\ u.marker \in {w.marker, m}
  BY CursorUpserted
<1>. HIDE DEF u
<1>2. c = Advanced(u, n)
  BY <1>1, CursorUpserted
<1>. HIDE DEF c
<1>3. /\ u.cursor \in {w.cursor, w.marker, m}
      /\ u.cursor >= w.cursor /\ u.cursor >= w.marker /\ u.cursor >= m
  BY <1>1, AdvancedFacts
<1>4. c \in {u.cursor, u.marker, n} /\ c >= u.cursor /\ c >= u.marker /\ c >= n
  BY <1>1, <1>2, AdvancedFacts
<1>5. /\ u.cursor \in Int /\ u.marker \in Int /\ m \in Int /\ n \in Int /\ w.cursor \in Int /\ w.marker \in Int
  BY <1>1, ConstantsAssumption DEF Row
<1>6. c \in Int
  BY <1>4, <1>5
<1>7. c >= w.cursor /\ c >= w.marker /\ c >= m /\ c >= n
  BY <1>3, <1>4, <1>5, <1>6
<1>8. c \in {w.cursor, w.marker, m, n}
  BY <1>1, <1>3, <1>4
<1>. QED  BY <1>7, <1>8 DEF c, u

(* Two acknowledgements or advances of one row leave the same cursor in    *)
(* either order (the GREATEST of advanceNotificationCursorSql).            *)
THEOREM CursorOrderIndependent ==
  ASSUME NEW w \in Row, NEW o \in {"ack", "advance"}, NEW p \in {"ack", "advance"},
         NEW m \in 0 .. LastMessage, NEW n \in 0 .. LastMessage
  PROVE  Updated(Updated(w, o, m), p, n).cursor = Updated(Updated(w, p, n), o, m).cursor
<1>. DEFINE c == Updated(Updated(w, o, m), p, n).cursor
            d == Updated(Updated(w, p, n), o, m).cursor
<1>1. /\ c \in {w.cursor, w.marker, m, n}
      /\ c >= w.cursor /\ c >= w.marker /\ c >= m /\ c >= n
  BY CursorTwice
<1>2. /\ d \in {w.cursor, w.marker, m, n}
      /\ d >= w.cursor /\ d >= w.marker /\ d >= m /\ d >= n
  BY CursorTwice
<1>. HIDE DEF c, d
<1>3. w.cursor \in Int /\ w.marker \in Int /\ m \in Int /\ n \in Int
  BY ConstantsAssumption DEF Row
<1>4. c = d
  BY <1>1, <1>2, <1>3
<1>. QED  BY <1>4 DEF c, d

(* So do two that race for the first row: whichever inserts it, and the    *)
(* other then updates it, the cursor is the same.                          *)
THEOREM FirstRowOrderIndependent ==
  ASSUME NEW r \in Requests, NEW q \in Requests,
         NEW o \in {"ack", "advance"}, NEW p \in {"ack", "advance"},
         NEW m \in 0 .. LastMessage, NEW n \in 0 .. LastMessage
  PROVE  Updated(Inserted(r, o, m), p, n).cursor = Updated(Inserted(q, p, n), o, m).cursor
<1>1. ASSUME NEW s \in Requests, NEW a \in {"ack", "advance"}, NEW b \in {"ack", "advance"},
             NEW x \in 0 .. LastMessage, NEW y \in 0 .. LastMessage
      PROVE  LET c == Updated(Inserted(s, a, x), b, y).cursor IN
             c \in {x, y} /\ c >= x /\ c >= y
  <2>. DEFINE u == Inserted(s, a, x)
              c == Updated(u, b, y).cursor
  <2>1. u \in Row /\ u.cursor = x
    BY InsertedFacts
  <2>2. u.marker \in {0, x}
    BY DEF Inserted
  <2>. HIDE DEF u
  <2>3. c = Advanced(u, y)
    BY <2>1, CursorUpserted
  <2>. HIDE DEF c
  <2>4. c \in {x, u.marker, y} /\ c >= x /\ c >= y
    BY <2>1, <2>3, AdvancedFacts
  <2>5. x \in Nat /\ y \in Nat
    BY ConstantsAssumption
  <2>6. c \in {x, y}
    BY <2>2, <2>4, <2>5
  <2>. QED  BY <2>4, <2>6 DEF c, u
<1>. DEFINE c == Updated(Inserted(r, o, m), p, n).cursor
            d == Updated(Inserted(q, p, n), o, m).cursor
<1>2. c \in {m, n} /\ c >= m /\ c >= n
  BY <1>1
<1>3. d \in {m, n} /\ d >= m /\ d >= n
  BY <1>1
<1>. HIDE DEF c, d
<1>4. m \in Int /\ n \in Int
  OBVIOUS
<1>5. c = d
  BY <1>2, <1>3, <1>4
<1>. QED  BY <1>5 DEF c, d

=============================================================================

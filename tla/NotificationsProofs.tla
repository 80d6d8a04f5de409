------------------------- MODULE NotificationsProofs -------------------------
(***************************************************************************)
(* What internal/notifications promises, proved for any number of          *)
(* sessions, ticket types, requests, devices and pushes.                   *)
(*                                                                         *)
(* Announcements: rows keep their types and references, and calls that     *)
(* come one after the other tell everyone.  DeviceTokens: whose pushes     *)
(* arrive on a device that changes hands.                                  *)
(***************************************************************************)
EXTENDS Announcements, DeviceTokens, FiniteSetTheorems, SequenceTheorems,
        TLAPS

\* A cascade leaves no type with a session that is gone.
LEMMA CascadeType ==
  ASSUME TypeOK, NEW gone
  PROVE  CascadeTypes(gone) \in [Types -> (sessions \ gone) \cup {NoSession}]
  BY DEF TypeOK, CascadeTypes

LEMMA IdleType == Idle \in Request
  BY DEF Idle, Request, Saved

\* Every step of a call, whatever it sends or writes, keeps its record a request.
LEMMA SendsType ==
  ASSUME TypeOK, NEW q \in Requests, NEW r \in Request, Go(q, r),
         NEW p \in {"none", "event_available", "audience", "event_cancelled"}, Sends(p),
         overlapped' \in BOOLEAN
  PROVE  TypeOK'
  BY DEF TypeOK, Go, Sends, rows, Bookable, HasPieces

LEMMA UpdateType ==
  ASSUME TypeOK, NEW q \in Requests, Update(q), overlapped' \in BOOLEAN
  PROVE  TypeOK'
<1> request[q] \in Request
  BY DEF TypeOK
<1>1. ASSUME NEW new \in Saved, BeginUpdate(q, new)
      PROVE  TypeOK'
  <2>1. [Idle EXCEPT !.step = "update", !.was = status, !.new = new] \in Request
    BY <1>1, IdleType DEF BeginUpdate, TypeOK, Request
  <2> QED
    BY <1>1, <2>1, SendsType DEF BeginUpdate
<1>2. CASE WriteUpdate(q)
  <2>1. request[q].new \in Saved
    BY DEF Request
  <2>2. [request[q] EXCEPT !.step = "updated"] \in Request
    BY DEF Request
  <2> QED
    BY <1>2, <2>1, <2>2 DEF WriteUpdate, Writes, Go, TypeOK, Saved
<1>3. CASE ReadUpdated(q)
  <2>1. [request[q] EXCEPT !.step = "readback", !.new = status] \in Request
    BY <1>3 DEF ReadUpdated, TypeOK, Request
  <2> QED
    BY <1>3, <2>1, SendsType DEF ReadUpdated
<1>4. CASE NotifyUpdate(q)
  BY <1>4, IdleType, SendsType DEF NotifyUpdate
<1> QED
  BY <1>1, <1>2, <1>3, <1>4 DEF Update

LEMMA TicketTypeType ==
  ASSUME TypeOK, NEW q \in Requests, CreateTicketType(q), overlapped' \in BOOLEAN
  PROVE  TypeOK'
<1> request[q] \in Request
  BY DEF TypeOK
<1>1. ASSUME NEW s \in Sessions, BeginTicketType(q, s)
      PROVE  TypeOK'
  <2>1. status \in Saved
    BY <1>1 DEF BeginTicketType, TypeOK
  <2>2. [Idle EXCEPT !.step = "insert", !.was = status, !.session = s] \in Request
    BY <2>1, IdleType DEF Request
  <2> QED
    BY <1>1, <2>2, SendsType DEF BeginTicketType
<1>2. ASSUME NEW t \in Types, InsertTicketType(q, t)
      PROVE  TypeOK'
  <2>1. [request[q] EXCEPT !.step = "inserted", !.type = t] \in Request
    BY DEF Request
  <2> QED
    BY <1>2, <2>1 DEF InsertTicketType, References, Writes, Go, TypeOK
<1>3. CASE NotifyTicketType(q)
  BY <1>3, IdleType, SendsType DEF NotifyTicketType
<1> QED
  BY <1>1, <1>2, <1>3 DEF CreateTicketType

LEMMA HandleType ==
  ASSUME TypeOK, NEW q \in Requests, Handle(q), overlapped' \in BOOLEAN
  PROVE  TypeOK'
<1>1. CASE Update(q)
  BY <1>1, UpdateType
<1>2. CASE CreateTicketType(q)
  BY <1>2, TicketTypeType
<1>3. CASE NotFound(q)
  BY <1>3, IdleType, SendsType DEF NotFound
<1>4. ASSUME NEW s \in Sessions, CreateSession(q, s)
      PROVE  TypeOK'
  BY <1>4 DEF CreateSession, Writes, TypeOK
<1>5. ASSUME NEW s \in Sessions, DeleteSession(q, s)
      PROVE  TypeOK'
  BY <1>5, CascadeType DEF DeleteSession, Writes, TypeOK
<1>6. ASSUME NEW t \in Types, DeleteTicketType(q, t)
      PROVE  TypeOK'
  BY <1>6 DEF DeleteTicketType, Writes, TypeOK
<1>7. CASE Delete(q)
  BY <1>7, CascadeType DEF Delete, Writes, TypeOK
<1> QED
  BY <1>1, <1>2, <1>3, <1>4, <1>5, <1>6, <1>7 DEF Handle

\* Every row has its type, and a ticket type's session has a row, whatever
\* calls overlap: the foreign key decides at the insert.
THEOREM RowTypes == Spec => []TypeOK
<1>1. Init => TypeOK
  BY IdleType DEF Init, TypeOK, Saved
<1>2. TypeOK /\ [Next]_vars => TypeOK'
  <2> SUFFICES ASSUME TypeOK, [Next]_vars PROVE TypeOK'
    OBVIOUS
  <2>1. ASSUME NEW q \in Requests, Handle(q), Remember(q)
        PROVE  TypeOK'
    BY <2>1, HandleType DEF Remember
  <2>2. CASE UNCHANGED vars
    BY <2>2 DEF TypeOK, vars, rows, history
  <2> QED
    BY <2>1, <2>2 DEF Next
<1> QED
  BY <1>1, <1>2, PTL DEF Spec

-----------------------------------------------------------------------------
(***************************************************************************)
(* What a call that runs alone knows, and leaves behind.                   *)
(***************************************************************************)

Told == (Bookable => announced) /\ (status = "cancelled" => warned)

Alone(q) == \A p \in Requests \ {q} : request[p] = Idle

Known(q) ==
  LET r == request[q] IN
  /\ r.step \in {"update", "insert"} => Told /\ r.was = status
  /\ r.step \in {"updated", "readback"} =>
       /\ r.new = status
       /\ Bookable /\ r.was = "published" => announced
       /\ r.was # "published" => ~announced
       /\ status = "cancelled" /\ r.was = "cancelled" => warned
  /\ r.step = "inserted" =>
       /\ r.was = status
       /\ session[r.type] # NoSession
       /\ status = "cancelled" => warned
       /\ Bookable /\ TypeCount # 1 => announced
       /\ TypeCount = 1 => ~announced

\* The inductive invariant: with all calls idle everyone has been told, and a
\* call under way, alone, knows what it takes to tell them.
Orderly ==
  /\ announced => Bookable
  /\ \A t \in Types : session[t] # NoSession => t \in made
  /\ \A q \in Requests : request[q].step = "idle" => request[q] = Idle
  /\ ~overlapped =>
       /\ Quiet => Told
       /\ \A q \in Requests : request[q] # Idle => Alone(q) /\ Known(q)

\* A step of a call that keeps what Orderly says of it keeps Orderly.
LEMMA Conclude ==
  ASSUME TypeOK, Orderly, NEW q \in Requests,
         Remember(q),
         announced' => Bookable',
         \A t \in Types : session'[t] # NoSession => t \in made',
         NEW r, Go(q, r), r.step = "idle" => r = Idle,
         ~overlapped /\ Alone(q) => (r = Idle => Told') /\ (r # Idle => Known(q)')
  PROVE  Orderly'
<1>1. request' = [request EXCEPT ![q] = r] /\ request'[q] = r
  BY DEF Go, TypeOK
<1>2. \A p \in Requests : request'[p].step = "idle" => request'[p] = Idle
  BY <1>1 DEF Orderly, TypeOK
<1>3. ASSUME ~overlapped'
      PROVE  /\ Quiet' => Told'
             /\ \A p \in Requests : request'[p] # Idle => Alone(p)' /\ Known(p)'
  <2>1. CASE FreshStart'
    BY <2>1 DEF FreshStart, Quiet, Told
  <2>2. CASE ~FreshStart'
    <3>1. ~overlapped /\ Alone(q)
      BY <1>3, <2>2 DEF Remember, Overlaps, Alone, TypeOK
    <3>2. \A p \in Requests \ {q} : request'[p] = Idle
      BY <3>1, <1>1 DEF Alone, TypeOK
    <3> QED
      BY <1>1, <3>1, <3>2 DEF Quiet, Alone
  <2> QED
    BY <2>1, <2>2
<1> QED
  BY <1>2, <1>3 DEF Orderly

\* A step that only sends leaves the tables, and so what is bookable.
LEMMA SendsKeeps ==
  ASSUME TypeOK, Orderly, NEW p, Sends(p)
  PROVE  /\ UNCHANGED <<status, sessions, session, made>>
         /\ Bookable' = Bookable /\ TypeCount' = TypeCount /\ HasPieces' = HasPieces
         /\ announced' => Bookable'
         /\ announced => announced'
         /\ warned => warned'
         /\ p # "event_available" => announced' = announced
         /\ \A t \in Types : session'[t] # NoSession => t \in made'
<1>1. UNCHANGED <<status, sessions, session, made>>
  BY DEF Sends, rows
<1>2. TypeCount' = TypeCount
  BY <1>1 DEF TypeCount
<1>3. HasPieces' = HasPieces
  BY <1>1, <1>2 DEF HasPieces
<1>4. Bookable' = Bookable
  BY <1>1, <1>3 DEF Bookable
<1>5. announced' = (announced \/ (p = "event_available" /\ Bookable))
      /\ (warned => warned') /\ announced \in BOOLEAN
  BY DEF Sends, TypeOK
<1>6. (announced => announced') /\ (p # "event_available" => announced' = announced)
  BY <1>5
<1>7. announced' => Bookable'
  BY <1>4, <1>5 DEF Orderly
<1> QED
  BY <1>1, <1>2, <1>3, <1>4, <1>5, <1>6, <1>7 DEF Orderly

\* Before a call begins, alone, everyone has been told.
LEMMA BeginTold ==
  ASSUME Orderly, NEW q \in Requests, request[q] = Idle, ~overlapped, Alone(q)
  PROVE  Told
  BY DEF Orderly, Alone, Quiet

LEMMA AloneKnown ==
  ASSUME Orderly, NEW q \in Requests, request[q].step # "idle", ~overlapped
  PROVE  Known(q)
  BY DEF Orderly, Idle

LEMMA UpdateOrderly ==
  ASSUME TypeOK, Orderly, NEW q \in Requests, Update(q),
         Remember(q)
  PROVE  Orderly'
<1> request[q] \in Request
  BY DEF TypeOK
<1>1. ASSUME NEW new \in Saved, BeginUpdate(q, new)
      PROVE  Orderly'
  <2> DEFINE r == [Idle EXCEPT !.step = "update", !.was = status, !.new = new]
  <2>1. r.step = "update" /\ r.was = status
    BY DEF Idle
  <2>2. Sends("none") /\ Go(q, r) /\ request[q] = Idle
    BY <1>1 DEF BeginUpdate
  <2>3. request'[q] = r
    BY <2>2 DEF Go, TypeOK
  <2>4. ASSUME ~overlapped, Alone(q)
        PROVE  Known(q)'
    BY <2>1, <2>2, <2>3, <2>4, BeginTold, SendsKeeps DEF Known, Told
  <2>5. r # Idle
    BY <2>1 DEF Idle
  <2> HIDE DEF r
  <2> QED
    BY <2>1, <2>2, <2>4, <2>5, Conclude, SendsKeeps
<1>2. CASE WriteUpdate(q)
  <2> DEFINE r == [request[q] EXCEPT !.step = "updated"]
  <2>1. r.step = "updated" /\ r.was = request[q].was /\ r.new = request[q].new
    BY DEF Request
  <2>2. Go(q, r) /\ Writes /\ request[q].step = "update"
    BY <1>2 DEF WriteUpdate
  <2>3. request'[q] = r
    BY <2>2 DEF Go, TypeOK
  <2>4. ASSUME ~overlapped, Alone(q)
        PROVE  Known(q)'
    <3>1. Told /\ request[q].was = status
      BY <2>2, <2>4, AloneKnown DEF Known
    <3>2. status' = r.new /\ HasPieces' = HasPieces
      BY <1>2, <2>1 DEF WriteUpdate, HasPieces, TypeCount
    <3>3. announced' = (announced /\ Bookable') /\ warned' = (warned /\ status' = "cancelled")
      BY <2>2 DEF Writes
    <3>4. r.was # "published" => ~announced
      BY <2>1, <3>1 DEF Orderly, Bookable
    <3>5. Bookable' /\ r.was = "published" => announced'
      BY <2>1, <3>1, <3>2, <3>3 DEF Told, Bookable
    <3>6. status' = "cancelled" /\ r.was = "cancelled" => warned'
      BY <2>1, <3>1, <3>3 DEF Told
    <3> HIDE DEF r
    <3> QED
      BY <2>1, <2>3, <3>2, <3>3, <3>4, <3>5, <3>6 DEF Known
  <2>5. r # Idle
    BY <2>1 DEF Idle
  <2>6. announced' => Bookable'
    BY <2>2 DEF Writes
  <2>7. UNCHANGED <<session, made>>
    BY <1>2 DEF WriteUpdate
  <2> HIDE DEF r
  <2> QED
    BY <2>1, <2>2, <2>4, <2>5, <2>6, <2>7, Conclude DEF Orderly
<1>3. CASE ReadUpdated(q)
  <2> DEFINE r == [request[q] EXCEPT !.step = "readback", !.new = status]
  <2>1. r.step = "readback" /\ r.was = request[q].was /\ r.new = status
    BY DEF Request
  <2>2. Go(q, r) /\ Sends("none") /\ request[q].step = "updated"
    BY <1>3 DEF ReadUpdated
  <2>3. request'[q] = r
    BY <2>2 DEF Go, TypeOK
  <2>4. ASSUME ~overlapped, Alone(q)
        PROVE  Known(q)'
    <3>1. Known(q)
      BY <2>2, <2>4, AloneKnown
    <3> HIDE DEF r
    <3> QED
      BY <2>1, <2>2, <2>3, <3>1, SendsKeeps DEF Known
  <2>5. r # Idle
    BY <2>1 DEF Idle
  <2> HIDE DEF r
  <2> QED
    BY <2>1, <2>2, <2>4, <2>5, Conclude, SendsKeeps
<1>4. CASE NotifyUpdate(q)
  <2>1. Go(q, Idle) /\ request[q].step = "readback"
    BY <1>4 DEF NotifyUpdate
  <2>2. PICK p \in {"none", "event_available", "audience", "event_cancelled"} :
          /\ Sends(p)
          /\ Cancelled(request[q].was, request[q].new) => p = "event_cancelled"
          /\ ~Cancelled(request[q].was, request[q].new) /\ request[q].new = "published"
               /\ PiecesEnough /\ JustPublished(request[q].was, request[q].new)
                 => p = "event_available"
    BY <1>4 DEF NotifyUpdate
  <2>3. ASSUME ~overlapped, Alone(q)
        PROVE  Told'
    <3>1. Known(q)
      BY <2>1, <2>3, AloneKnown
    <3>2. Bookable => announced'
      BY <2>1, <2>2, <3>1, SendsKeeps
         DEF Known, Sends, Bookable, PiecesEnough, JustPublished, Cancelled
    <3>3. status = "cancelled" => warned'
      BY <2>1, <2>2, <3>1 DEF Known, Sends, Cancelled
    <3> QED
      BY <2>2, <3>2, <3>3, SendsKeeps DEF Told
  <2> QED
    BY <2>1, <2>2, <2>3, Conclude, SendsKeeps
<1> QED
  BY <1>1, <1>2, <1>3, <1>4 DEF Update

\* An event has its pieces when it has a ticket type: that has a session.
LEMMA PiecesAreTypes ==
  ASSUME TypeOK
  PROVE  HasPieces <=> \E t \in Types : session[t] # NoSession
<1> DEFINE S == {u \in Types : session[u] # NoSession}
<1>1. IsFiniteSet(S)
  BY TypesAssumption, FS_Subset
<1>2. Cardinality(S) \in Nat /\ (Cardinality(S) = 0 <=> S = {})
  BY <1>1, FS_CardinalityType, FS_EmptySet
<1>3. S # {} => sessions # {}
  BY DEF TypeOK
<1> QED
  BY <1>2, <1>3 DEF HasPieces, TypeCount

LEMMA PiecesAreTypesNext ==
  (TypeOK => (HasPieces <=> \E t \in Types : session[t] # NoSession))'
<1>1. TypeOK => (HasPieces <=> \E t \in Types : session[t] # NoSession)
  BY PiecesAreTypes
<1> QED
  BY <1>1, PTL

\* An id that was not used adds one to the count of ticket types.
LEMMA CountAfterInsert ==
  ASSUME TypeOK, Orderly, NEW t \in Types, t \notin made,
         NEW s \in Sessions, session' = [session EXCEPT ![t] = s]
  PROVE  TypeCount' = TypeCount + 1 /\ TypeCount \in Nat
<1> DEFINE S == {u \in Types : session[u] # NoSession}
<1>1. IsFiniteSet(S)
  BY TypesAssumption, FS_Subset
<1>2. t \notin S
  BY DEF Orderly
<1>3. {u \in Types : session'[u] # NoSession} = S \cup {t}
  BY NoSessionAssumption DEF TypeOK
<1>4. Cardinality(S \cup {t}) = Cardinality(S) + 1
  BY <1>1, <1>2, FS_AddElement
<1> QED
  BY <1>1, <1>3, <1>4, FS_CardinalityType DEF TypeCount

LEMMA TicketTypeOrderly ==
  ASSUME TypeOK, Orderly, NEW q \in Requests, CreateTicketType(q),
         Remember(q)
  PROVE  Orderly'
<1> request[q] \in Request
  BY DEF TypeOK
<1>1. ASSUME NEW s \in Sessions, BeginTicketType(q, s)
      PROVE  Orderly'
  <2> DEFINE r == [Idle EXCEPT !.step = "insert", !.was = status, !.session = s]
  <2>1. r.step = "insert" /\ r.was = status
    BY DEF Idle
  <2>2. Sends("none") /\ Go(q, r) /\ request[q] = Idle
    BY <1>1 DEF BeginTicketType
  <2>3. request'[q] = r
    BY <2>2 DEF Go, TypeOK
  <2>4. ASSUME ~overlapped, Alone(q)
        PROVE  Known(q)'
    BY <2>1, <2>2, <2>3, <2>4, BeginTold, SendsKeeps DEF Known, Told
  <2>5. r # Idle
    BY <2>1 DEF Idle
  <2> HIDE DEF r
  <2> QED
    BY <2>1, <2>2, <2>4, <2>5, Conclude, SendsKeeps
<1>2. ASSUME NEW t \in Types, InsertTicketType(q, t)
      PROVE  Orderly'
  <2> DEFINE r == [request[q] EXCEPT !.step = "inserted", !.type = t]
  <2>1. r.step = "inserted" /\ r.was = request[q].was /\ r.type = t
    BY DEF Request
  <2>2. Go(q, r) /\ Writes /\ request[q].step = "insert" /\ t \notin made
    BY <1>2 DEF InsertTicketType
  <2>3. request'[q] = r
    BY <2>2 DEF Go, TypeOK
  <2>4. request[q].session \in Sessions /\ UNCHANGED <<status, sessions>>
          /\ session' = [session EXCEPT ![t] = request[q].session]
          /\ made' = made \cup {t}
    BY <1>2 DEF InsertTicketType, References, TypeOK
  <2>5. TypeCount' = TypeCount + 1 /\ TypeCount \in Nat
    BY <2>2, <2>4, CountAfterInsert
  <2>6. ASSUME ~overlapped, Alone(q)
        PROVE  Known(q)'
    <3>1. Told /\ request[q].was = status
      BY <2>2, <2>6, AloneKnown DEF Known
    <3>2. announced' = (announced /\ Bookable') /\ warned' = (warned /\ status' = "cancelled")
      BY <2>2 DEF Writes
    <3>3. TypeCount' = 1 => ~announced
      BY <2>5 DEF Orderly, Bookable, HasPieces
    <3>4. Bookable' /\ TypeCount' # 1 => announced'
      <4>1. TypeCount' # 1 => TypeCount > 0
        BY <2>5
      <4>2. Bookable' /\ TypeCount' # 1 => Bookable
        BY <2>4, <3>1, <4>1 DEF Bookable, HasPieces
      <4> QED
        BY <3>1, <3>2, <4>2 DEF Told
    <3>5. session'[t] # NoSession
      BY <2>4, NoSessionAssumption DEF TypeOK
    <3> HIDE DEF r
    <3> QED
      BY <2>1, <2>3, <2>4, <3>1, <3>2, <3>3, <3>4, <3>5 DEF Known, Told
  <2>7. r # Idle
    BY <2>1 DEF Idle
  <2>8. announced' => Bookable'
    BY <2>2 DEF Writes
  <2>9. \A u \in Types : session'[u] # NoSession => u \in made'
    BY <2>4 DEF Orderly, TypeOK
  <2> HIDE DEF r
  <2> QED
    BY <2>1, <2>2, <2>6, <2>7, <2>8, <2>9, Conclude
<1>3. CASE NotifyTicketType(q)
  <2>1. Go(q, Idle) /\ request[q].step = "inserted"
    BY <1>3 DEF NotifyTicketType
  <2>2. PICK p \in {"none", "event_available", "audience"} :
          /\ Sends(p)
          /\ request[q].was = "published" /\ HasPieces /\ TypeCount = 1 => p = "event_available"
    BY <1>3 DEF NotifyTicketType, First
  <2>3. ASSUME ~overlapped, Alone(q)
        PROVE  Told'
    <3>1. Known(q)
      BY <2>1, <2>3, AloneKnown
    <3>2. Bookable => announced'
      BY <2>1, <2>2, <3>1, SendsKeeps DEF Known, Sends, Bookable
    <3> QED
      BY <2>1, <2>2, <3>1, <3>2, SendsKeeps DEF Known, Told
  <2> QED
    BY <2>1, <2>2, <2>3, Conclude, SendsKeeps
<1> QED
  BY <1>1, <1>2, <1>3 DEF CreateTicketType

\* Alone, a call finds what it has read before, unless it was about nothing more.
LEMMA NotFoundOrderly ==
  ASSUME TypeOK, Orderly, NEW q \in Requests, NotFound(q),
         Remember(q)
  PROVE  Orderly'
<1>1. Go(q, Idle) /\ Sends("none") /\ request[q].step # "idle" /\ request[q] \in Request
  BY DEF NotFound, TypeOK
<1>2. ASSUME ~overlapped, Alone(q)
      PROVE  Told'
  <2>1. Known(q)
    BY <1>1, <1>2, AloneKnown
  <2>2. request[q].new # "deleted"
    BY <1>1 DEF Request, Saved
  <2>3. Told
    BY <2>1, <2>2 DEF NotFound, Known
  <2> QED
    BY <1>1, <2>3, SendsKeeps DEF Told
<1> QED
  BY <1>1, <1>2, Conclude, SendsKeeps

\* Calls that write once leave no event bookable that was not, and cancel none.
LEMMA SingleOrderly ==
  ASSUME TypeOK, Orderly, NEW q \in Requests,
         \/ \E s \in Sessions : CreateSession(q, s) \/ DeleteSession(q, s)
         \/ \E t \in Types : DeleteTicketType(q, t)
         \/ Delete(q),
         Remember(q), TypeOK'
  PROVE  Orderly'
<1>1. request[q] = Idle /\ UNCHANGED request /\ Writes
  BY DEF CreateSession, DeleteSession, DeleteTicketType, Delete
<1>2. Go(q, Idle)
  BY <1>1 DEF Go, TypeOK
<1>3. \A t \in Types : session'[t] # NoSession => t \in made'
  BY DEF CreateSession, DeleteSession, DeleteTicketType, Delete, CascadeTypes, Orderly, TypeOK
<1>4. announced' => Bookable'
  BY <1>1 DEF Writes
<1>5. status' \in {status, "deleted"}
  BY DEF CreateSession, DeleteSession, DeleteTicketType, Delete
<1>6. ASSUME ~overlapped, Alone(q)
      PROVE  Told'
  <2>1. Told
    BY <1>1, <1>6, BeginTold
  <2>2. announced' = (announced /\ Bookable') /\ warned' = (warned /\ status' = "cancelled")
    BY <1>1 DEF Writes
  <2>3. Bookable' => Bookable
    <3>1. \A t \in Types : session'[t] # NoSession => session[t] # NoSession
      BY DEF CreateSession, DeleteSession, DeleteTicketType, Delete, CascadeTypes, TypeOK
    <3>2. HasPieces' => \E t \in Types : session'[t] # NoSession
      BY PiecesAreTypesNext
    <3>3. status' = "published" => status = "published"
      BY <1>5
    <3> QED
      BY <3>1, <3>2, <3>3, PiecesAreTypes DEF Bookable
  <2> QED
    BY <1>5, <2>1, <2>2, <2>3 DEF Told
<1> QED
  BY <1>1, <1>2, <1>3, <1>4, <1>6, Conclude

LEMMA OrderlyStep == TypeOK /\ TypeOK' /\ Orderly /\ [Next]_vars => Orderly'
<1> SUFFICES ASSUME TypeOK, TypeOK', Orderly, [Next]_vars
             PROVE  Orderly'
  OBVIOUS
<1>1. ASSUME NEW q \in Requests, Handle(q), Remember(q)
      PROVE  Orderly'
  BY <1>1, UpdateOrderly, TicketTypeOrderly, NotFoundOrderly, SingleOrderly DEF Handle
<1>2. CASE UNCHANGED vars
  BY <1>2 DEF vars, rows, history, Orderly, Bookable, HasPieces, TypeCount, Quiet, Told,
              Alone, Known
<1> QED
  BY <1>1, <1>2 DEF Next

THEOREM StaysOrderly == Spec => []Orderly
<1>1. Init => Orderly
  BY DEF Init, Orderly, Bookable, HasPieces, Quiet, Told, Idle
<1>2. TypeOK /\ TypeOK' /\ Orderly /\ [Next]_vars => Orderly'
  BY OrderlyStep
<1> QED
  BY <1>1, <1>2, RowTypes, PTL DEF Spec

\* An event that can be booked was announced, unless calls overlapped since all
\* were last at rest with nothing to tell.
THEOREM BookableAnnounced == Spec => []BookableIsAnnounced
<1>1. Orderly => BookableIsAnnounced
  BY DEF Orderly, BookableIsAnnounced, Told
<1> QED
  BY <1>1, StaysOrderly, PTL

\* The holders of tickets for a cancelled event were warned, with the same exception.
THEOREM CancellationWarned == Spec => []CancellationWarns
<1>1. Orderly => CancellationWarns
  BY DEF Orderly, CancellationWarns, Told
<1> QED
  BY <1>1, StaysOrderly, PTL

-----------------------------------------------------------------------------
\* Only two steps tell everyone, and alone, each does so for an event that is
\* bookable and that nobody was told of.
LEMMA AnnouncementStep ==
  ASSUME TypeOK, Orderly, [Next]_vars, ~UNCHANGED vars,
         push' = "event_available", ~overlapped
  PROVE  Bookable /\ ~announced
<1>1. PICK q \in Requests : Handle(q) /\ Remember(q)
  BY DEF Next, vars
<1>2. ~overlapped /\ request[q] \in Request
  BY <1>1 DEF TypeOK
<1>3. NotifyUpdate(q) \/ NotifyTicketType(q)
  BY <1>1 DEF Handle, Update, CreateTicketType, NotFound, BeginUpdate, WriteUpdate, ReadUpdated,
              BeginTicketType, InsertTicketType, CreateSession, DeleteSession, DeleteTicketType,
              Delete, Writes, Sends
<1>4. CASE NotifyUpdate(q)
  <2>1. Known(q) /\ request[q].step = "readback"
    BY <1>2, <1>4, AloneKnown DEF NotifyUpdate
  <2>2. request[q].new = "published" /\ HasPieces /\ request[q].was # "published"
    BY <1>4 DEF NotifyUpdate, Sends, PiecesEnough, JustPublished
  <2> QED
    BY <2>1, <2>2 DEF Known, Bookable
<1>5. CASE NotifyTicketType(q)
  <2>1. Known(q) /\ request[q].step = "inserted"
    BY <1>2, <1>5, AloneKnown DEF NotifyTicketType
  <2>2. request[q].was = "published" /\ HasPieces /\ TypeCount = 1
    BY <1>5 DEF NotifyTicketType, Sends, First
  <2> QED
    BY <2>1, <2>2 DEF Known, Bookable
<1> QED
  BY <1>3, <1>4, <1>5

\* Everyone is told only of an event that is bookable and that nobody was told of,
\* unless calls overlapped since the last fresh start.
THEOREM OnlyNewsAnnounced == Spec => OnlyNewsIsAnnounced
<1>1. TypeOK /\ Orderly /\ [Next]_vars =>
        [push' = "event_available" /\ ~overlapped => Bookable /\ ~announced]_vars
  BY AnnouncementStep
<1> QED
  BY <1>1, RowTypes, StaysOrderly, PTL DEF Spec, OnlyNewsIsAnnounced

-----------------------------------------------------------------------------
(***************************************************************************)
(* The devices the pushes go to.                                           *)
(***************************************************************************)

\* What is left of a device's calls when one of them arrives or is lost.
LEMMA OthersStay ==
  ASSUME NEW S, NEW s \in Seq(S), NEW i \in DOMAIN s
  PROVE  /\ RemoveAt(s, i) \in Seq(S)
         /\ i \in 1..Len(s)
         /\ DOMAIN RemoveAt(s, i) = 1..(Len(s) - 1)
         /\ Len(RemoveAt(s, i)) = Len(s) - 1
         /\ \A j \in 1..(Len(s) - 1) :
              RemoveAt(s, i)[j] = IF j < i THEN s[j] ELSE s[j + 1]
<1> DEFINE a == SubSeq(s, 1, i - 1)
           b == SubSeq(s, i + 1, Len(s))
<1>1. i \in 1..Len(s) /\ Len(s) \in Nat
  OBVIOUS
<1>2. a \in Seq(S) /\ Len(a) = i - 1 /\ \A j \in 1..(i - 1) : a[j] = s[j]
  BY <1>1
<1>3. b \in Seq(S) /\ Len(b) = Len(s) - i /\ \A j \in 1..(Len(s) - i) : b[j] = s[i + j]
  BY <1>1
<1> HIDE DEF a, b
<1>4. /\ a \o b \in Seq(S)
      /\ Len(a \o b) = Len(s) - 1
      /\ \A j \in 1..(Len(s) - 1) : (a \o b)[j] = IF j < i THEN a[j] ELSE b[j - (i - 1)]
  <2>1. a \o b \in Seq(S) /\ Len(a \o b) = Len(a) + Len(b)
    BY <1>2, <1>3, ConcatProperties
  <2>2. \A j \in 1..(Len(a) + Len(b)) :
          (a \o b)[j] = IF j <= Len(a) THEN a[j] ELSE b[j - Len(a)]
    BY <1>2, <1>3, ConcatProperties
  <2>3. Len(a) + Len(b) = Len(s) - 1
    BY <1>1, <1>2, <1>3
  <2>4. \A j \in 1..(Len(s) - 1) : (a \o b)[j] = IF j < i THEN a[j] ELSE b[j - (i - 1)]
    BY <1>1, <1>2, <2>2, <2>3
  <2> QED
    BY <2>1, <2>3, <2>4
<1>5. ASSUME NEW j \in 1..(Len(s) - 1)
      PROVE  (a \o b)[j] = IF j < i THEN s[j] ELSE s[j + 1]
  <2>1. CASE j < i
    BY <1>1, <1>2, <1>4, <2>1
  <2>2. CASE ~(j < i)
    <3>1. j - (i - 1) \in 1..(Len(s) - i) /\ i + (j - (i - 1)) = j + 1
      BY <1>1, <2>2
    <3>2. b[j - (i - 1)] = s[i + (j - (i - 1))]
      BY <1>3, <3>1
    <3>3. (a \o b)[j] = b[j - (i - 1)]
      BY <1>4, <2>2
    <3> QED
      BY <2>2, <3>1, <3>2, <3>3
  <2> QED
    BY <2>1, <2>2
<1>6. RemoveAt(s, i) = a \o b
  BY DEF RemoveAt, a, b
<1>7. DOMAIN (a \o b) = 1..(Len(s) - 1)
  BY <1>4
<1> QED
  BY <1>1, <1>4, <1>5, <1>6, <1>7

LEMMA OneMore ==
  ASSUME NEW S, NEW s \in Seq(S), NEW e \in S
  PROVE  /\ Append(s, e) \in Seq(S)
         /\ DOMAIN Append(s, e) = 1..(Len(s) + 1)
         /\ Len(Append(s, e)) = Len(s) + 1
         /\ Append(s, e)[Len(s) + 1] = e
         /\ \A j \in 1..Len(s) : Append(s, e)[j] = s[j]
  OBVIOUS

LEMMA DevicesNextTypeOK == DevicesTypeOK /\ [DevicesNext]_deviceVars => DevicesTypeOK'
<1> SUFFICES ASSUME DevicesTypeOK, [DevicesNext]_deviceVars
             PROVE  DevicesTypeOK'
  OBVIOUS
<1> USE DEF DevicesTypeOK, table, device
<1>1. ASSUME NEW t \in Tokens, NEW u \in Users, SignIn(t, u)
      PROVE  DevicesTypeOK'
  <2>1. Append(calls[t], [kind |-> "register", user |-> u]) \in Seq(Call)
    BY OneMore DEF Call
  <2> QED
    BY <1>1, <2>1 DEF SignIn
<1>2. ASSUME NEW t \in Tokens, SignOut(t)
      PROVE  DevicesTypeOK'
  <2>1. [kind |-> "unregister", user |-> holder[t]] \in Call
    BY <1>2 DEF Call, SignOut
  <2>2. Append(calls[t], [kind |-> "unregister", user |-> holder[t]]) \in Seq(Call)
    BY <2>1, OneMore
  <2> QED
    BY <1>2, <2>2 DEF SignOut
<1>3. ASSUME NEW t \in Tokens, Uninstall(t)
      PROVE  DevicesTypeOK'
  BY <1>3 DEF Uninstall
<1>4. ASSUME NEW t \in Tokens, NEW i \in DOMAIN calls[t],
             Lose(t, i) \/ UpsertDeviceToken(t, i) \/ RevokeUserDeviceToken(t, i)
      PROVE  DevicesTypeOK'
  <2>1. RemoveAt(calls[t], i) \in Seq(Call) /\ calls[t][i] \in Call
    BY OthersStay
  <2>2. calls' \in [Tokens -> Seq(Call)]
    BY <1>4, <2>1 DEF Lose, UpsertDeviceToken, RevokeUserDeviceToken
  <2>3. CASE Lose(t, i)
    BY <2>2, <2>3 DEF Lose
  <2>4. CASE UpsertDeviceToken(t, i)
    BY <2>1, <2>2, <2>4, NoUserAssumption DEF UpsertDeviceToken, NewOwner, Call
  <2>5. CASE RevokeUserDeviceToken(t, i)
    BY <2>2, <2>5 DEF RevokeUserDeviceToken
  <2> QED
    BY <1>4, <2>3, <2>4, <2>5
<1>5. ASSUME NEW t \in Tokens, NEW p \in Pushes, SendToToken(p, t)
      PROVE  DevicesTypeOK'
  <2>1. sending[p] \in [to : SUBSET Tokens, refused : SUBSET Tokens]
    OBVIOUS
  <2>2. CASE sending' = [sending EXCEPT ![p].to = @ \ {t}]
    <3>1. sending' \in [Pushes -> [to : SUBSET Tokens, refused : SUBSET Tokens]]
      BY <2>1, <2>2
    <3> QED
      BY <1>5, <3>1 DEF SendToToken
  <2>3. CASE sending' = [sending EXCEPT ![p] = [to |-> sending[p].to \ {t}, refused |-> {t}]]
    <3>1. sending' \in [Pushes -> [to : SUBSET Tokens, refused : SUBSET Tokens]]
      BY <2>1, <2>3
    <3> QED
      BY <1>5, <3>1 DEF SendToToken
  <2> QED
    BY <1>5, <2>2, <2>3 DEF SendToToken
<1>6. ASSUME NEW u \in Users, DeleteUser(u)
      PROVE  DevicesTypeOK'
  BY <1>6 DEF DeleteUser, RowsOf
<1>7. ASSUME NEW p \in Pushes, NEW us \in SUBSET Users, ListActiveTokens(p, us)
      PROVE  DevicesTypeOK'
  BY <1>7 DEF ListActiveTokens
<1>8. ASSUME NEW p \in Pushes, RevokeToken(p)
      PROVE  DevicesTypeOK'
  BY <1>8 DEF RevokeToken
<1>9. CASE UNCHANGED deviceVars
  BY <1>9 DEF deviceVars
<1> QED
  BY <1>1, <1>2, <1>3, <1>4, <1>5, <1>6, <1>7, <1>8, <1>9 DEF DevicesNext

\* The rows of the device tokens keep their types; a token that is not revoked
\* has an owner, and that owner an account, however a late registration
\* interleaves with the deletion of the account.
THEOREM DeviceTypes == DevicesSpec => []DevicesTypeOK
<1>1. DevicesInit => DevicesTypeOK
  BY ApnsTokensAssumption DEF DevicesInit, DevicesTypeOK, NoPush
<1> QED
  BY <1>1, DevicesNextTypeOK, PTL DEF DevicesSpec

-----------------------------------------------------------------------------
(***************************************************************************)
(* Whose pushes a device gets.  What its calls still on their way amount   *)
(* to: from the oldest registration on nothing is missing and it ends with *)
(* what the device did last; without one, the table says who is signed in, *)
(* or is one sign-out behind.                                              *)
(***************************************************************************)

Registering(t) == \E i \in DOMAIN calls[t] : calls[t][i].kind = "register"
Newest(t) == calls[t][Len(calls[t])]

Alternating(t) ==
  \A i \in DOMAIN calls[t] :
    calls[t][i].kind = "register" =>
      /\ i + 1 \in DOMAIN calls[t] =>
           calls[t][i + 1] = [kind |-> "unregister", user |-> calls[t][i].user]
      /\ i + 2 \in DOMAIN calls[t] => calls[t][i + 2].kind = "register"

UpToDate(t) ==
  IF Registering(t)
  THEN holder[t] = IF Newest(t).kind = "register" THEN Newest(t).user ELSE NoUser
  ELSE IF holder[t] # NoUser
  THEN /\ t \in active => owner[t] = holder[t]
       /\ t \in known /\ holder[t] \in accounts => t \in active
       /\ \A i \in DOMAIN calls[t] : calls[t][i].user # holder[t]
  ELSE t \in active => calls[t] # <<>> /\ owner[t] = Newest(t).user

InStep ==
  /\ \A p \in Pushes : sending[p].refused \cap known = {}
  /\ \A t \in orderly : Alternating(t) /\ UpToDate(t)

\* Nothing but the last two calls matters to what a new call follows.
LEMMA CallsType ==
  ASSUME DevicesTypeOK, NEW t \in Tokens
  PROVE  /\ calls[t] \in Seq(Call)
         /\ Len(calls[t]) \in Nat
         /\ DOMAIN calls[t] = 1..Len(calls[t])
         /\ calls[t] # <<>> <=> Len(calls[t]) # 0
         /\ \A i \in DOMAIN calls[t] :
              /\ calls[t][i] = [kind |-> calls[t][i].kind, user |-> calls[t][i].user]
              /\ calls[t][i].kind \in {"register", "unregister"}
              /\ calls[t][i].user \in Users
<1>1. calls[t] \in Seq(Call)
  BY DEF DevicesTypeOK
<1>2. \A i \in DOMAIN calls[t] : calls[t][i] \in Call
  BY <1>1
<1> QED
  BY <1>1, <1>2 DEF Call

\* A device none of whose calls moved: its row may go, or be revoked when the
\* token is no longer known, but it does not come back and is nobody else's.
LEMMA Elsewhere ==
  ASSUME NEW t, Alternating(t), UpToDate(t),
         calls'[t] = calls[t], holder'[t] = holder[t],
         t \in active' => t \in active /\ owner'[t] = owner[t],
         t \in known' => t \in known,
         holder[t] \in accounts' => holder[t] \in accounts,
         t \in known' /\ holder[t] \in accounts' /\ t \in active /\ owner[t] = holder[t]
           => t \in active'
  PROVE  Alternating(t)' /\ UpToDate(t)'
  BY DEF Alternating, UpToDate, Registering, Newest

\* A new user signs in: with nothing on its way a new start is made.
LEMMA SignInInStep ==
  ASSUME DevicesTypeOK, DevicesTypeOK', InStep,
         NEW t \in Tokens, NEW u \in Users, SignIn(t, u), t \in orderly'
  PROVE  Alternating(t)' /\ UpToDate(t)'
<1> DEFINE n == Len(calls[t])
           e == [kind |-> "register", user |-> u]
<1>1. /\ calls'[t] = Append(calls[t], e)
      /\ holder[t] = NoUser /\ holder'[t] = u
  BY DEF SignIn, DevicesTypeOK
<1>2. /\ n \in Nat
      /\ DOMAIN calls[t] = 1..n
      /\ DOMAIN calls'[t] = 1..(n + 1)
      /\ Len(calls'[t]) = n + 1
      /\ calls'[t][n + 1] = e
      /\ \A j \in 1..n : calls'[t][j] = calls[t][j]
  <2>1. e \in Call /\ calls[t] \in Seq(Call)
    BY DEF Call, DevicesTypeOK
  <2> HIDE DEF e
  <2> QED
    BY <1>1, <2>1, OneMore
<1>3. ASSUME NEW i \in 1..n, calls[t][i].kind = "register"
      PROVE  /\ i + 1 <= n
             /\ calls[t][i + 1] = [kind |-> "unregister", user |-> calls[t][i].user]
             /\ i + 2 <= n => calls[t][i + 2].kind = "register"
  <2>1. t \in orderly
    BY <1>2, <1>3 DEF SignIn, DevicesTypeOK
  <2>2. Alternating(t) /\ UpToDate(t) /\ Registering(t)
    BY <1>2, <1>3, <2>1 DEF InStep, Registering
  <2>3. i # n
    BY <1>1, <1>2, <1>3, <2>2, CallsType, NoUserAssumption DEF UpToDate, Newest
  <2>4. i + 1 \in DOMAIN calls[t]
    BY <1>2, <2>3
  <2> QED
    BY <1>2, <1>3, <2>2, <2>4 DEF Alternating
<1> HIDE DEF e, n
<1>4. Alternating(t)'
  <2> SUFFICES ASSUME NEW i \in 1..(n + 1), calls'[t][i].kind = "register"
               PROVE  /\ i + 1 \in 1..(n + 1) =>
                           calls'[t][i + 1] = [kind |-> "unregister", user |-> calls'[t][i].user]
                      /\ i + 2 \in 1..(n + 1) => calls'[t][i + 2].kind = "register"
    BY <1>2 DEF Alternating
  <2>1. CASE i = n + 1
    BY <1>2, <2>1
  <2>2. CASE i \in 1..n
    <3>1. calls[t][i].kind = "register"
      BY <1>2, <2>2
    <3>2. /\ i + 1 <= n
          /\ calls[t][i + 1] = [kind |-> "unregister", user |-> calls[t][i].user]
          /\ i + 2 <= n => calls[t][i + 2].kind = "register"
      BY <1>3, <2>2, <3>1
    <3>3. i + 1 \in 1..n /\ calls'[t][i + 1] = calls[t][i + 1]
      BY <1>2, <2>2, <3>2
    <3>4. i + 2 \in 1..(n + 1) => calls'[t][i + 2].kind = "register"
      <4>1. CASE i + 2 = n + 1
        BY <1>2, <4>1 DEF e
      <4>2. CASE i + 2 <= n
        BY <1>2, <2>2, <3>2, <4>2
      <4> QED
        BY <1>2, <4>1, <4>2
    <3> QED
      BY <1>2, <2>2, <3>2, <3>3, <3>4
  <2> QED
    BY <1>2, <2>1, <2>2
<1>5. UpToDate(t)'
  <2>1. Registering(t)' /\ Newest(t)' = e
    BY <1>2 DEF Registering, Newest, e
  <2> QED
    BY <1>1, <2>1 DEF UpToDate, e
<1> QED
  BY <1>4, <1>5

LEMMA SignOutInStep ==
  ASSUME DevicesTypeOK, DevicesTypeOK', InStep, NEW t \in Tokens, SignOut(t), t \in orderly'
  PROVE  Alternating(t)' /\ UpToDate(t)'
<1> DEFINE n == Len(calls[t])
           v == holder[t]
           e == [kind |-> "unregister", user |-> v]
<1>1. /\ calls'[t] = Append(calls[t], e)
      /\ v \in Users /\ v # NoUser /\ holder'[t] = NoUser
      /\ active' = active /\ owner' = owner
      /\ Alternating(t) /\ UpToDate(t)
  BY DEF SignOut, DevicesTypeOK, InStep, table
<1>2. /\ n \in Nat
      /\ DOMAIN calls[t] = 1..n
      /\ DOMAIN calls'[t] = 1..(n + 1)
      /\ Len(calls'[t]) = n + 1
      /\ calls'[t][n + 1] = e
      /\ \A j \in 1..n : calls'[t][j] = calls[t][j]
  <2>1. e \in Call /\ calls[t] \in Seq(Call)
    BY <1>1 DEF Call, DevicesTypeOK
  <2> HIDE DEF e, v
  <2> QED
    BY <1>1, <2>1, OneMore
<1>3. Registering(t) => n # 0 /\ calls[t][n].kind = "register" /\ calls[t][n].user = v
  BY <1>1, <1>2 DEF UpToDate, Newest, Registering
<1>4. Newest(t)' = e /\ calls'[t] # <<>> /\ e.kind = "unregister" /\ e.user = v
  BY <1>2 DEF Newest
<1>5. Registering(t)' <=> Registering(t)
  <2>1. \A i \in 1..(n + 1) : i \in 1..n \/ i = n + 1
    BY <1>2
  <2>2. \A i \in 1..n : i \in 1..(n + 1)
    BY <1>2
  <2> HIDE DEF e, n
  <2> QED
    BY <1>2, <1>4, <2>1, <2>2 DEF Registering
<1> HIDE DEF e, n, v
<1>6. Alternating(t)'
  <2> SUFFICES ASSUME NEW i \in 1..(n + 1), calls'[t][i].kind = "register"
               PROVE  /\ i + 1 \in 1..(n + 1) =>
                           calls'[t][i + 1] = [kind |-> "unregister", user |-> calls'[t][i].user]
                      /\ i + 2 \in 1..(n + 1) => calls'[t][i + 2].kind = "register"
    BY <1>2 DEF Alternating
  <2>1. i \in 1..n /\ calls[t][i].kind = "register" /\ calls'[t][i] = calls[t][i]
    BY <1>2, <1>4
  <2>2. Registering(t)
    BY <1>2, <2>1 DEF Registering
  <2>3. CASE i = n
    BY <1>2, <1>3, <2>1, <2>2, <2>3 DEF e
  <2>4. CASE i < n
    <3>1. i + 1 \in 1..n
      BY <1>2, <2>1, <2>4
    <3>2. calls[t][i + 1] = [kind |-> "unregister", user |-> calls[t][i].user]
      BY <1>1, <1>2, <2>1, <3>1 DEF Alternating
    <3>3. i + 1 # n
      BY <1>3, <2>2, <3>2
    <3>4. i + 2 \in 1..n
      BY <1>2, <2>1, <3>1, <3>3
    <3>5. calls[t][i + 2].kind = "register"
      BY <1>1, <1>2, <2>1, <3>4 DEF Alternating
    <3> QED
      BY <1>2, <2>1, <3>1, <3>2, <3>4, <3>5
  <2> QED
    BY <1>2, <2>1, <2>3, <2>4
<1>7. UpToDate(t)'
  <2>1. CASE Registering(t)
    BY <1>1, <1>4, <1>5, <2>1 DEF UpToDate
  <2>2. CASE ~Registering(t)
    <3>1. t \in active => owner[t] = v
      BY <1>1, <2>2 DEF UpToDate, v
    <3> QED
      BY <1>1, <1>4, <1>5, <2>2, <3>1 DEF UpToDate
  <2> QED
    BY <2>1, <2>2
<1> QED
  BY <1>6, <1>7

\* What is left of the calls once one of them has arrived.
LEMMA OneLess ==
  ASSUME DevicesTypeOK, NEW t \in Tokens, NEW i \in DOMAIN calls[t],
         calls'[t] = RemoveAt(calls[t], i)
  PROVE  /\ Len(calls[t]) \in Nat /\ i \in 1..Len(calls[t])
         /\ DOMAIN calls[t] = 1..Len(calls[t])
         /\ DOMAIN calls'[t] = 1..(Len(calls[t]) - 1)
         /\ Len(calls'[t]) = Len(calls[t]) - 1
         /\ \A j \in 1..(Len(calls[t]) - 1) :
              calls'[t][j] = IF j < i THEN calls[t][j] ELSE calls[t][j + 1]
         /\ calls'[t] # <<>> <=> Len(calls[t]) # 1
<1>1. calls[t] \in Seq(Call) /\ Len(calls[t]) \in Nat /\ DOMAIN calls[t] = 1..Len(calls[t])
  BY CallsType
<1> DEFINE s == calls[t]
           c == RemoveAt(s, i)
<1>2. /\ c \in Seq(Call)
      /\ i \in 1..Len(s)
      /\ DOMAIN c = 1..(Len(s) - 1)
      /\ Len(c) = Len(s) - 1
      /\ \A j \in 1..(Len(s) - 1) : c[j] = IF j < i THEN s[j] ELSE s[j + 1]
  <2> HIDE DEF s
  <2>1. s \in Seq(Call) /\ i \in DOMAIN s
    BY <1>1 DEF s
  <2> QED
    BY <2>1, OthersStay
<1>3. c # <<>> <=> Len(s) # 1
  <2> HIDE DEF c
  <2>1. c # <<>> <=> Len(c) # 0
    BY <1>2, EmptySeq
  <2> HIDE DEF s
  <2> QED
    BY <1>1, <1>2, <2>1 DEF s
<1>4. calls'[t] = c
  OBVIOUS
<1> HIDE DEF c
<1> QED
  BY <1>1, <1>2, <1>3, <1>4

\* A call that overtakes no registration leaves what follows as it was.
LEMMA StillAlternating ==
  ASSUME DevicesTypeOK, NEW t \in Tokens, Alternating(t), NEW i \in DOMAIN calls[t],
         calls'[t] = RemoveAt(calls[t], i),
         \A j \in 1..(i - 1) : calls[t][j].kind # "register"
  PROVE  Alternating(t)'
<1> DEFINE n == Len(calls[t])
<1>1. /\ n \in Nat /\ i \in 1..n
      /\ DOMAIN calls[t] = 1..n
      /\ DOMAIN calls'[t] = 1..(n - 1)
      /\ \A j \in 1..(n - 1) : calls'[t][j] = IF j < i THEN calls[t][j] ELSE calls[t][j + 1]
  BY OneLess
<1> HIDE DEF n
<1> SUFFICES ASSUME NEW j \in 1..(n - 1), calls'[t][j].kind = "register"
             PROVE  /\ j + 1 \in 1..(n - 1) =>
                         calls'[t][j + 1] = [kind |-> "unregister", user |-> calls'[t][j].user]
                    /\ j + 2 \in 1..(n - 1) => calls'[t][j + 2].kind = "register"
  BY <1>1 DEF Alternating
<1>2. i <= j
  BY <1>1
<1>3. j + 1 \in 1..n /\ calls'[t][j] = calls[t][j + 1]
  BY <1>1, <1>2
<1>4. j + 1 \in 1..(n - 1) => calls'[t][j + 1] = calls[t][(j + 1) + 1] /\ (j + 1) + 1 \in 1..n
  BY <1>1, <1>2
<1>5. j + 2 \in 1..(n - 1) => calls'[t][j + 2] = calls[t][(j + 1) + 2] /\ (j + 1) + 2 \in 1..n
  BY <1>1, <1>2
<1> QED
  BY <1>1, <1>3, <1>4, <1>5 DEF Alternating

\* A registration arrives in its turn: its user is the owner, and what is left of
\* the calls is the sign-outs of others and what came after it.
LEMMA RegisterInStep ==
  ASSUME DevicesTypeOK, DevicesTypeOK', InStep,
         NEW t \in Tokens, NEW i \in DOMAIN calls[t], UpsertDeviceToken(t, i), t \in orderly'
  PROVE  Alternating(t)' /\ UpToDate(t)'
<1> DEFINE n == Len(calls[t])
           v == calls[t][i].user
<1>1. /\ calls[t][i].kind = "register" /\ v \in accounts /\ v # NoUser
      /\ owner'[t] = v /\ t \in active' /\ holder' = holder
      /\ calls'[t] = RemoveAt(calls[t], i)
      /\ ~Overtakes(t, i) /\ t \in orderly
  BY NoUserAssumption DEF UpsertDeviceToken, NewOwner, DevicesTypeOK
<1>2. /\ n \in Nat /\ i \in 1..n
      /\ DOMAIN calls[t] = 1..n
      /\ DOMAIN calls'[t] = 1..(n - 1) /\ Len(calls'[t]) = n - 1
      /\ \A j \in 1..(n - 1) : calls'[t][j] = IF j < i THEN calls[t][j] ELSE calls[t][j + 1]
      /\ calls'[t] # <<>> <=> n # 1
  BY <1>1, OneLess
<1>3. \A j \in 1..(i - 1) : calls[t][j].kind # "register" /\ calls[t][j].user # v
  BY <1>1 DEF Overtakes
<1>4. Alternating(t) /\ UpToDate(t) /\ Registering(t)
  BY <1>1 DEF InStep, Registering
<1>5. Alternating(t)'
  BY <1>1, <1>3, <1>4, StillAlternating
<1> HIDE DEF n, v
<1>7. CASE i = n
  <2>1. holder[t] = v
    BY <1>1, <1>2, <1>4, <1>7 DEF UpToDate, Newest, n, v
  <2>2. \A j \in 1..(n - 1) : calls'[t][j].kind # "register" /\ calls'[t][j].user # v
    BY <1>2, <1>3, <1>7
  <2>3. ~Registering(t)'
    BY <1>2, <2>2 DEF Registering
  <2> QED
    BY <1>1, <1>2, <1>5, <2>1, <2>2, <2>3 DEF UpToDate
<1>8. CASE i + 1 = n
  <2>1. calls[t][n] = [kind |-> "unregister", user |-> v]
    <3>1. i + 1 \in DOMAIN calls[t] /\ calls[t][i].kind = "register" /\ i \in DOMAIN calls[t]
      BY <1>1, <1>2, <1>8
    <3>2. calls[t][i + 1] = [kind |-> "unregister", user |-> calls[t][i].user]
      BY <1>4, <3>1 DEF Alternating
    <3> QED
      BY <1>8, <3>2 DEF v
  <2>2. holder[t] = NoUser
    BY <1>4, <2>1 DEF UpToDate, Newest, n
  <2>3. \A j \in 1..(n - 1) : calls'[t][j].kind # "register"
    <3> SUFFICES ASSUME NEW j \in 1..(n - 1) PROVE calls'[t][j].kind # "register"
      OBVIOUS
    <3>1. CASE j < i
      <4>1. j \in 1..(i - 1)
        BY <1>2, <3>1
      <4> QED BY <1>2, <1>3, <3>1, <4>1
    <3>2. CASE j = i
      BY <1>2, <1>8, <2>1, <3>2
    <3> QED
      BY <1>2, <1>8, <3>1, <3>2
  <2>4. ~Registering(t)'
    BY <1>2, <2>3 DEF Registering
  <2>5. calls'[t] # <<>> /\ Newest(t)' = calls[t][n]
    BY <1>2, <1>8 DEF Newest
  <2> QED
    BY <1>1, <1>5, <2>1, <2>2, <2>4, <2>5 DEF UpToDate
<1>9. CASE i + 2 <= n
  <2>1. calls[t][i + 2].kind = "register"
    <3>1. i + 2 \in DOMAIN calls[t] /\ calls[t][i].kind = "register" /\ i \in DOMAIN calls[t]
      BY <1>1, <1>2, <1>9
    <3> QED
      BY <1>4, <3>1 DEF Alternating
  <2>2. i + 1 \in 1..(n - 1) /\ calls'[t][i + 1] = calls[t][i + 2]
    BY <1>2, <1>9
  <2>3. Registering(t)'
    BY <1>2, <2>1, <2>2 DEF Registering
  <2>4. Newest(t)' = Newest(t)
    <3>1. n - 1 \in 1..(n - 1) /\ ~(n - 1 < i) /\ (n - 1) + 1 = n
      BY <1>2, <1>9
    <3>2. calls'[t][n - 1] = calls[t][n]
      BY <1>2, <3>1
    <3> QED
      BY <1>2, <3>2 DEF Newest, n
  <2> QED
    BY <1>1, <1>4, <1>5, <2>3, <2>4 DEF UpToDate
<1> QED
  BY <1>2, <1>7, <1>8, <1>9

\* A sign-out arrives: the owner's takes the token away, anybody else's nothing.
LEMMA UnregisterInStep ==
  ASSUME DevicesTypeOK, DevicesTypeOK', InStep,
         NEW t \in Tokens, NEW i \in DOMAIN calls[t], RevokeUserDeviceToken(t, i), t \in orderly'
  PROVE  Alternating(t)' /\ UpToDate(t)'
<1> DEFINE n == Len(calls[t])
           x == calls[t][i].user
<1>1. /\ calls[t][i].kind = "unregister"
      /\ active' = IF owner[t] = x THEN active \ {t} ELSE active
      /\ UNCHANGED <<owner, holder, known, accounts>>
      /\ calls'[t] = RemoveAt(calls[t], i)
      /\ ~Overtakes(t, i) /\ t \in orderly
  BY DEF RevokeUserDeviceToken, OwnedBy, DevicesTypeOK
<1>2. /\ n \in Nat /\ i \in 1..n
      /\ DOMAIN calls[t] = 1..n
      /\ DOMAIN calls'[t] = 1..(n - 1) /\ Len(calls'[t]) = n - 1
      /\ \A j \in 1..(n - 1) : calls'[t][j] = IF j < i THEN calls[t][j] ELSE calls[t][j + 1]
      /\ calls'[t] # <<>> <=> n # 1
  BY <1>1, OneLess
<1>3. \A j \in 1..(i - 1) : calls[t][j].kind # "register" /\ calls[t][j].user # x
  BY <1>1 DEF Overtakes
<1>4. Alternating(t) /\ UpToDate(t)
  BY <1>1 DEF InStep
<1>5. Alternating(t)'
  BY <1>1, <1>3, <1>4, StillAlternating
<1> HIDE DEF n, x
<1>7. i # n => calls'[t] # <<>> /\ Newest(t)' = Newest(t)
  <2> SUFFICES ASSUME i # n PROVE calls'[t] # <<>> /\ Newest(t)' = Newest(t)
    OBVIOUS
  <2>1. n - 1 \in 1..(n - 1) /\ ~(n - 1 < i) /\ (n - 1) + 1 = n /\ n # 1
    BY <1>2
  <2>2. calls'[t][n - 1] = calls[t][n]
    BY <1>2, <2>1
  <2> QED
    BY <1>2, <2>1, <2>2 DEF Newest, n
<1>8. CASE Registering(t)
  <2>1. PICK k \in 1..n : calls[t][k].kind = "register"
    BY <1>2, <1>8 DEF Registering
  <2>2. i < k
    BY <1>1, <1>2, <1>3, <2>1
  <2>3. k - 1 \in 1..(n - 1) /\ calls'[t][k - 1] = calls[t][k]
    <3>1. k - 1 \in 1..(n - 1) /\ ~(k - 1 < i) /\ (k - 1) + 1 = k
      BY <1>2, <2>2
    <3> QED
      BY <1>2, <3>1
  <2>4. Registering(t)'
    BY <1>2, <2>1, <2>3 DEF Registering
  <2>5. i # n
    BY <1>2, <2>2
  <2> QED
    BY <1>1, <1>4, <1>5, <1>7, <1>8, <2>4, <2>5 DEF UpToDate
<1>9. CASE ~Registering(t)
  <2>1. \A j \in 1..(n - 1) : \E k \in 1..n : calls'[t][j] = calls[t][k]
    BY <1>2
  <2>2. ~Registering(t)'
    BY <1>2, <1>9, <2>1 DEF Registering
  <2>3. CASE holder[t] # NoUser
    <3>1. x # holder[t] /\ \A j \in 1..(n - 1) : calls'[t][j].user # holder[t]
      BY <1>2, <1>4, <1>9, <2>1, <2>3 DEF UpToDate, x
    <3>2. t \in active => owner[t] # x
      BY <1>4, <1>9, <2>3, <3>1 DEF UpToDate
    <3>3. t \in active' <=> t \in active
      BY <1>1, <3>2
    <3> QED
      BY <1>1, <1>2, <1>4, <1>5, <1>9, <2>2, <2>3, <3>1, <3>3 DEF UpToDate
  <2>4. CASE holder[t] = NoUser
    <3>1. t \in active' => t \in active /\ owner[t] # x
      BY <1>1
    <3>2. t \in active' => i # n
      BY <1>2, <1>4, <1>9, <2>4, <3>1 DEF UpToDate, Newest, n, x
    <3> QED
      BY <1>1, <1>4, <1>5, <1>7, <1>9, <2>2, <2>4, <3>1, <3>2 DEF UpToDate
  <2> QED
    BY <2>3, <2>4
<1> QED
  BY <1>8, <1>9

LEMMA DevicesStayInStep ==
  ASSUME DevicesTypeOK, DevicesTypeOK', InStep, [DevicesNext]_deviceVars
  PROVE  InStep'
<1> USE DEF table, device
<1>1. ASSUME NEW t \in Tokens, t \in orderly,
             calls'[t] = calls[t], holder'[t] = holder[t],
             t \in active' => t \in active /\ owner'[t] = owner[t],
             t \in known' => t \in known,
             holder[t] \in accounts' => holder[t] \in accounts,
             t \in known' /\ holder[t] \in accounts' /\ t \in active /\ owner[t] = holder[t]
               => t \in active'
      PROVE  Alternating(t)' /\ UpToDate(t)'
  BY <1>1, Elsewhere DEF InStep
<1>2. ASSUME NEW d \in Tokens,
             \A t \in Tokens \ {d} :
               /\ calls'[t] = calls[t] /\ holder'[t] = holder[t] /\ owner'[t] = owner[t]
               /\ t \in active' <=> t \in active
               /\ t \in orderly' <=> t \in orderly,
             UNCHANGED <<accounts, known, sending>>,
             d \in orderly' => Alternating(d)' /\ UpToDate(d)'
      PROVE  InStep'
  <2>1. \A t \in orderly' : Alternating(t)' /\ UpToDate(t)'
    <3> SUFFICES ASSUME NEW t \in orderly', t # d
                 PROVE  Alternating(t)' /\ UpToDate(t)'
      BY <1>2
    <3>1. t \in Tokens /\ t \in orderly
      BY <1>2 DEF DevicesTypeOK
    <3> QED
      BY <1>1, <1>2, <3>1
  <2> QED
    BY <1>2, <2>1 DEF InStep
<1>3. ASSUME NEW t \in Tokens, NEW u \in Users, SignIn(t, u)
      PROVE  InStep'
  <2>1. t \in orderly' => Alternating(t)' /\ UpToDate(t)'
    BY <1>3, SignInInStep
  <2> QED
    BY <1>2, <1>3, <2>1 DEF SignIn, DevicesTypeOK
<1>4. ASSUME NEW t \in Tokens, SignOut(t)
      PROVE  InStep'
  <2>1. t \in orderly' => Alternating(t)' /\ UpToDate(t)'
    BY <1>4, SignOutInStep
  <2> QED
    BY <1>2, <1>4, <2>1 DEF SignOut, DevicesTypeOK
<1>5. ASSUME NEW t \in Tokens, NEW i \in DOMAIN calls[t], Lose(t, i)
      PROVE  InStep'
  BY <1>2, <1>5 DEF Lose, DevicesTypeOK
<1>6. ASSUME NEW t \in Tokens, NEW i \in DOMAIN calls[t], UpsertDeviceToken(t, i)
      PROVE  InStep'
  <2>1. t \in orderly' => Alternating(t)' /\ UpToDate(t)'
    BY <1>6, RegisterInStep
  <2> QED
    BY <1>2, <1>6, <2>1 DEF UpsertDeviceToken, DevicesTypeOK
<1>7. ASSUME NEW t \in Tokens, NEW i \in DOMAIN calls[t], RevokeUserDeviceToken(t, i)
      PROVE  InStep'
  <2>1. t \in orderly' => Alternating(t)' /\ UpToDate(t)'
    BY <1>7, UnregisterInStep
  <2> QED
    BY <1>2, <1>7, <2>1 DEF RevokeUserDeviceToken, DevicesTypeOK
<1>8. ASSUME NEW d \in Tokens, Uninstall(d)
      PROVE  InStep'
  <2>1. \A t \in orderly : Alternating(t)' /\ UpToDate(t)'
    BY <1>1, <1>8 DEF Uninstall, DevicesTypeOK
  <2> QED
    BY <1>8, <2>1 DEF Uninstall, InStep
<1>9. ASSUME NEW u \in Users, DeleteUser(u)
      PROVE  InStep'
  <2>1. \A t \in orderly : Alternating(t)' /\ UpToDate(t)'
    <3> SUFFICES ASSUME NEW t \in orderly
                 PROVE  Alternating(t)' /\ UpToDate(t)'
      OBVIOUS
    <3>1. t \in Tokens
      BY DEF DevicesTypeOK
    <3>2. owner'[t] = (IF owner[t] = u THEN NoUser ELSE owner[t])
      BY <1>9, <3>1 DEF DeleteUser, RowsOf
    <3>3. t \in active' <=> t \in active /\ owner[t] # u
      BY <1>9, <3>1 DEF DeleteUser, RowsOf
    <3>4. holder[t] \in accounts' => holder[t] \in accounts /\ holder[t] # u
      BY <1>9 DEF DeleteUser
    <3>5. UNCHANGED <<calls, holder, known>>
      BY <1>9 DEF DeleteUser
    <3> QED
      BY <1>1, <3>1, <3>2, <3>3, <3>4, <3>5
  <2> QED
    BY <1>9, <2>1 DEF DeleteUser, InStep
<1>10. ASSUME NEW p \in Pushes,
              \/ \E us \in SUBSET Users : ListActiveTokens(p, us)
              \/ \E t \in Tokens : SendToToken(p, t)
              \/ RevokeToken(p)
       PROVE  InStep'
  <2>1. \A t \in orderly : Alternating(t)' /\ UpToDate(t)'
    <3>1. /\ UNCHANGED <<accounts, owner, known, holder, calls>>
          /\ active' \subseteq active
          /\ active \cap known \subseteq active'
      BY <1>10 DEF ListActiveTokens, SendToToken, RevokeToken, InStep
    <3> QED
      BY <1>1, <3>1 DEF DevicesTypeOK
  <2>2. \A q \in Pushes : sending'[q].refused \cap known = {}
    <3> SUFFICES ASSUME NEW q \in Pushes PROVE sending'[q].refused \cap known = {}
      OBVIOUS
    <3>1. sending[q].refused \cap known = {}
      BY DEF InStep
    <3>2. /\ sending \in [Pushes -> [to : SUBSET Tokens, refused : SUBSET Tokens]]
          /\ sending[p] \in [to : SUBSET Tokens, refused : SUBSET Tokens]
      BY DEF DevicesTypeOK
    <3>3. ASSUME NEW us \in SUBSET Users, ListActiveTokens(p, us)
          PROVE  sending'[q].refused = sending[q].refused
      BY <3>2, <3>3 DEF ListActiveTokens
    <3>4. ASSUME NEW t \in Tokens, SendToToken(p, t)
          PROVE  sending'[q].refused = sending[q].refused \/ (sending'[q].refused = {t} /\ t \notin known)
      BY <3>2, <3>4 DEF SendToToken, IsUnregistered
    <3>5. ASSUME RevokeToken(p)
          PROVE  sending'[q].refused \in {{}, sending[q].refused}
      BY <3>2, <3>5 DEF RevokeToken
    <3> QED
      BY <1>10, <3>1, <3>3, <3>4, <3>5
  <2>3. UNCHANGED <<known, orderly>>
    BY <1>10 DEF ListActiveTokens, SendToToken, RevokeToken
  <2> QED
    BY <2>1, <2>2, <2>3 DEF InStep
<1>11. CASE UNCHANGED deviceVars
  <2>1. \A t \in orderly : Alternating(t)' /\ UpToDate(t)'
    BY <1>1, <1>11 DEF deviceVars, DevicesTypeOK
  <2> QED
    BY <1>11, <2>1 DEF deviceVars, InStep
<1> QED
  BY <1>3, <1>4, <1>5, <1>6, <1>7, <1>8, <1>9, <1>10, <1>11 DEF DevicesNext

LEMMA DevicesInStep == DevicesSpec => []InStep
<1>1. DevicesInit => InStep
  BY DEF DevicesInit, InStep, Alternating, UpToDate, Registering, NoPush
<1>2. DevicesTypeOK /\ DevicesTypeOK' /\ InStep /\ [DevicesNext]_deviceVars => InStep'
  BY DevicesStayInStep
<1> QED
  BY <1>1, <1>2, DeviceTypes, PTL DEF DevicesSpec

\* For any number of devices and users, calls under way and pushes: once the
\* calls of a device have arrived, none lost or overtaken by one it matters to,
\* the registration of whoever is signed in on it stands, and is theirs.
THEOREM OwnPushes == DevicesSpec => []SignedInGetTheirPushes
<1>1. DevicesTypeOK /\ InStep => SignedInGetTheirPushes
  BY NoUserAssumption
     DEF DevicesTypeOK, InStep, UpToDate, Registering, SignedInGetTheirPushes, Settled
<1> QED
  BY <1>1, DeviceTypes, DevicesInStep, PTL

\* Only the listing adds to whom a push goes, and it adds tokens that are not revoked.
LEMMA TakenUpAreActive ==
  ASSUME DevicesTypeOK, [DevicesNext]_deviceVars,
         NEW p \in Pushes, NEW t \in sending'[p].to \ sending[p].to
  PROVE  t \in active
<1>1. sending \in [Pushes -> [to : SUBSET Tokens, refused : SUBSET Tokens]]
  BY DEF DevicesTypeOK
<1>2. PICK q \in Pushes :
        \/ \E us \in SUBSET Users : ListActiveTokens(q, us)
        \/ \E u \in Tokens : SendToToken(q, u)
        \/ RevokeToken(q)
  BY DEF DevicesNext, deviceVars, SignIn, SignOut, Uninstall, Lose, UpsertDeviceToken,
         RevokeUserDeviceToken, DeleteUser
<1>3. CASE \E us \in SUBSET Users : ListActiveTokens(q, us)
  BY <1>1, <1>3 DEF ListActiveTokens
<1>4. CASE \E u \in Tokens : SendToToken(q, u)
  BY <1>1, <1>4 DEF SendToToken
<1>5. CASE RevokeToken(q)
  BY <1>1, <1>5 DEF RevokeToken
<1> QED
  BY <1>2, <1>3, <1>4, <1>5

\* And no push takes the device up for anybody else, or after a sign-out; what was
\* listed before is sent all the same.
THEOREM TakenUpForTheSignedIn == DevicesSpec => PushesTakeUpWhoIsSignedIn
<1>1. DevicesTypeOK /\ InStep /\ [DevicesNext]_deviceVars =>
        [\A p \in Pushes, t \in Tokens :
           t \in sending'[p].to \ sending[p].to /\ Settled(t)
             => holder[t] # NoUser /\ owner[t] = holder[t]]_deviceVars
  <2> SUFFICES ASSUME DevicesTypeOK, InStep, [DevicesNext]_deviceVars,
                      NEW p \in Pushes, NEW t \in Tokens,
                      t \in sending'[p].to \ sending[p].to, Settled(t)
               PROVE  holder[t] # NoUser /\ owner[t] = holder[t]
    OBVIOUS
  <2>1. t \in active
    BY TakenUpAreActive
  <2>2. UpToDate(t) /\ ~Registering(t) /\ calls[t] = <<>>
    BY DEF InStep, Settled, Registering
  <2> QED
    BY <2>1, <2>2 DEF UpToDate
<1> QED
  BY <1>1, DeviceTypes, DevicesInStep, PTL DEF DevicesSpec, PushesTakeUpWhoIsSignedIn
=============================================================================

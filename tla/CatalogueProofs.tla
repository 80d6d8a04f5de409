--------------------------- MODULE CatalogueProofs ---------------------------
(***************************************************************************)
(* The safety properties of Catalogue, proved for any sessions, ticket     *)
(* types, plans and length of time; then those of DbPool, the connections  *)
(* that the public list shares with every other request, for any requests  *)
(* and any size of the pool.                                               *)
(***************************************************************************)
EXTENDS Catalogue, DbPool, FiniteSetTheorems, TLAPS

\* The histories keep their types, whatever the step.
LEMMA WatchType ==
  ASSUME TypeOK, Watch
  PROVE  seen' \in SUBSET Types /\ lasting' \in SUBSET Types
  BY DEF TypeOK, Watch, Offered

\* A step that leaves the rows and the clock alone and keeps the page a page.
LEMMA ReaderType ==
  ASSUME TypeOK, Reader
  PROVE  TypeOK'
<1> USE DEF TypeOK, event, Valid
<1>1. CASE ReadEvent
  BY <1>1, WatchType DEF ReadEvent, NoPage
<1>2. CASE ReadSessions
  BY <1>2, WatchType DEF ReadSessions
<1>3. ASSUME NEW s \in Sessions, ReadTypes(s)
      PROVE  TypeOK'
  BY <1>3, WatchType DEF ReadTypes, PublicTypes
<1>4. CASE Answer
  BY <1>4, WatchType DEF Answer, NoPage
<1> QED
  BY <1>1, <1>2, <1>3, <1>4 DEF Reader

LEMMA NoPlanType == NoPlan \in Plan
  BY TimeAssumption DEF NoPlan, Plan

\* An organizer's call: the rows are of their types, the rest is not touched.
LEMMA EditsType ==
  ASSUME TypeOK, Edits,
         status' \in {"draft", "published", "cancelled", "deleted"},
         plan' \in [Sessions -> Plan],
         state' \in [Sessions -> {"none", "scheduled", "completed", "cancelled"}],
         session' \in [Types -> {s \in Sessions : state'[s] # "none"} \cup {NoSession}],
         \A s \in Sessions : state'[s] # "none" => Valid(plan'[s])
  PROVE  TypeOK'
  BY WatchType DEF TypeOK, Edits, Valid

LEMMA SaveType ==
  ASSUME TypeOK, NEW s \in Sessions, NEW p \in Plans,
         NEW st \in {"scheduled", "completed", "cancelled"}, SaveSession(s, p, st)
  PROVE  TypeOK'
  BY PlansAssumption, EditsType DEF TypeOK, SaveSession, Valid

LEMMA OrganizerType ==
  ASSUME TypeOK, Organizer
  PROVE  TypeOK'
<1>1. ASSUME NEW new \in {"draft", "published", "cancelled"}, Update(new)
      PROVE  TypeOK'
  BY <1>1, EditsType DEF Update, TypeOK
<1>2. CASE Delete
  BY <1>2, NoPlanType, EditsType DEF Delete, TypeOK
<1>3. ASSUME NEW s \in Sessions, NEW p \in Plans, NEW st \in {"scheduled", "completed", "cancelled"},
             CreateSession(s, p, st) \/ UpdateSession(s, p, st)
      PROVE  TypeOK'
  BY <1>3, SaveType DEF CreateSession, UpdateSession
<1>4. ASSUME NEW s \in Sessions, DeleteSession(s)
      PROVE  TypeOK'
  BY <1>4, NoPlanType, EditsType DEF DeleteSession, TypesWithout, TypeOK
<1>5. ASSUME NEW s \in Sessions, NEW t \in Types, CreateTicketType(t, s)
      PROVE  TypeOK'
  BY <1>5, EditsType DEF CreateTicketType, TypeOK
<1>6. ASSUME NEW t \in Types, DeleteTicketType(t)
      PROVE  TypeOK'
  BY <1>6, EditsType DEF DeleteTicketType, TypeOK
<1> QED
  BY <1>1, <1>2, <1>3, <1>4, <1>5, <1>6 DEF Organizer

LEMMA ClockType ==
  ASSUME TypeOK, Tick \/ CompletePastEventSessions
  PROVE  TypeOK'
<1>1. CASE Tick
  BY <1>1, WatchType, TimeAssumption DEF Tick, TypeOK, event, Valid
<1>2. CASE CompletePastEventSessions
  BY <1>2, WatchType DEF CompletePastEventSessions, Past, TypeOK, Valid
<1> QED
  BY <1>1, <1>2

\* Every row has its type and its parent, and the times of a session are in the
\* order that validateEventSessionInput asks for.
THEOREM RowTypes == Spec => []TypeOK
<1>1. Init => TypeOK
  <2>1. 0 \in 0..MaxTime
    BY TimeAssumption
  <2>2. NoPage \in [step : {"none", "sessions", "types"},
                   todo : SUBSET Sessions, shown : SUBSET Types]
    BY DEF NoPage
  <2> QED
    BY <2>1, <2>2, NoPlanType DEF Init, TypeOK
<1>2. TypeOK /\ [Next]_vars => TypeOK'
  <2> SUFFICES ASSUME TypeOK, [Next]_vars PROVE TypeOK'
    OBVIOUS
  <2>1. CASE UNCHANGED vars
    BY <2>1 DEF TypeOK, vars, event, Valid
  <2> QED
    BY <2>1, OrganizerType, ClockType, ReaderType DEF Next
<1> QED
  BY <1>1, <1>2, PTL DEF Spec

-----------------------------------------------------------------------------
\* What a page that is being read owes to the reads it has made: what lasted is
\* shown already or will be, and without edits what will be shown was on sale.
Truthful ==
  /\ page.step # "none" => lasting \subseteq Offered
  /\ page.step = "sessions" => page.shown = {} /\ (~edited => status = "published")
  /\ page.step = "types" =>
       /\ \A t \in lasting : t \in page.shown \/ session[t] \in page.todo
       /\ ~edited =>
            /\ status = "published"
            /\ page.shown \subseteq seen
            /\ \A t \in Types : session[t] \in page.todo => t \in seen

\* A step that does not turn the page: what was seen stays seen, and what lasts
\* was lasting before.
LEMMA Watching ==
  ASSUME Watch, page.step # "none", page'.step # "none"
  PROVE  /\ seen \subseteq seen'
         /\ {t \in Types : Reservable(t)'} \subseteq seen'
         /\ lasting' = lasting \cap Offered'
  BY DEF Watch

\* An edit moves no ticket type that is on sale to another session.
LEMMA EditsKeep ==
  ASSUME TypeOK, Truthful, Edits,
         \A t \in Types : session'[t] \in {session[t], NoSession} \/ session[t] = NoSession
  PROVE  Truthful'
<1>1. page' = page /\ Watch /\ (page.step # "none" => edited')
  BY DEF Edits
<1>2. CASE page.step = "none"
  BY <1>1, <1>2 DEF Truthful
<1>3. CASE page.step # "none"
  <2>1. lasting' = lasting \cap Offered'
    BY <1>1, <1>3, Watching
  <2>2. ASSUME NEW t \in lasting'
        PROVE  session'[t] = session[t] /\ t \in lasting
    <3>1. session'[t] # NoSession /\ t \in lasting /\ t \in Types
      BY <2>1 DEF Offered, Reservable
    <3>2. session[t] # NoSession
      BY <1>3, <3>1 DEF Truthful, Offered, Reservable
    <3> QED
      BY <3>1, <3>2
  <2> QED
    BY <1>1, <1>3, <2>1, <2>2 DEF Truthful
<1> QED
  BY <1>2, <1>3

LEMMA OrganizerTruthful ==
  ASSUME TypeOK, Truthful, Organizer
  PROVE  Truthful'
<1>1. Edits
  BY DEF Organizer, Update, Delete, CreateSession, UpdateSession, SaveSession, DeleteSession,
         CreateTicketType, DeleteTicketType
<1>2. \A t \in Types : session'[t] \in {session[t], NoSession} \/ session[t] = NoSession
  BY DEF Organizer, Update, Delete, CreateSession, UpdateSession, SaveSession, DeleteSession,
         TypesWithout, CreateTicketType, DeleteTicketType, TypeOK
<1> QED
  BY <1>1, <1>2, EditsKeep

LEMMA ClockTruthful ==
  ASSUME TypeOK, Truthful, Tick \/ CompletePastEventSessions
  PROVE  Truthful'
<1>1. UNCHANGED <<status, session, page, edited>> /\ Watch
  BY DEF Tick, CompletePastEventSessions, event
<1>2. CASE page.step = "none"
  BY <1>1, <1>2 DEF Truthful
<1>3. CASE page.step # "none"
  BY <1>1, <1>3, Watching DEF Truthful
<1> QED
  BY <1>2, <1>3

LEMMA ReaderTruthful ==
  ASSUME TypeOK, Truthful, Reader
  PROVE  Truthful'
<1>1. CASE ReadEvent
  BY <1>1 DEF ReadEvent, Watch, Truthful, NoPage, event
<1>2. CASE ReadSessions
  <2>1. UNCHANGED <<now, status, plan, state, session, edited>> /\ page'.step = "types"
          /\ page'.todo = {s \in Sessions : Listed(s)} /\ page'.shown = {} /\ Watch
    BY <1>2 DEF ReadSessions, event, TypeOK, Truthful
  <2>2. /\ {t \in Types : Reservable(t)'} \subseteq seen'
        /\ lasting' = lasting \cap Offered'
    BY <1>2, <2>1, Watching DEF ReadSessions
  <2>3. \A t \in lasting' : session'[t] \in page'.todo
    BY <2>1, <2>2 DEF Offered, Listed, Open, Reservable, TypeOK
  <2>4. ASSUME ~edited', NEW t \in Types, session'[t] \in page'.todo
        PROVE  t \in seen'
    <3>1. status = "published"
      BY <1>2, <2>1, <2>4 DEF ReadSessions, Truthful
    <3>2. session[t] \in Sessions /\ Listed(session[t])
      BY <2>1, <2>4
    <3>3. Reservable(t)
      BY <3>1, <3>2, NoSessionAssumption DEF Reservable, Listed
    <3>4. Reservable(t)'
      BY <2>1, <3>3 DEF Reservable, Open
    <3> QED
      BY <2>2, <3>4
  <2> QED
    BY <1>2, <2>1, <2>2, <2>3, <2>4 DEF Truthful, ReadSessions
<1>3. ASSUME NEW s \in Sessions, ReadTypes(s)
      PROVE  Truthful'
  <2>1. UNCHANGED <<now, status, plan, state, session, edited>> /\ page.step = "types"
          /\ page'.step = "types" /\ s \in page.todo /\ page'.todo = page.todo \ {s}
          /\ page'.shown = page.shown \cup PublicTypes(s) /\ Watch
    BY <1>3 DEF ReadTypes, event, TypeOK
  <2>2. seen \subseteq seen' /\ lasting' = lasting \cap Offered'
    BY <2>1, Watching
  <2>3. ASSUME NEW t \in lasting'
        PROVE  t \in page'.shown \/ session'[t] \in page'.todo
    <3>1. t \in Types /\ status = "published" /\ state[session[t]] = "scheduled"
      BY <2>1, <2>2 DEF Offered, Reservable
    <3>2. CASE session[t] = s
      BY <2>1, <3>1, <3>2 DEF PublicTypes
    <3>3. CASE session[t] # s
      BY <2>1, <2>2, <3>3 DEF Truthful
    <3> QED
      BY <3>2, <3>3
  <2>4. ASSUME ~edited'
        PROVE  page'.shown \subseteq seen'
    BY <2>1, <2>2, <2>4 DEF Truthful, PublicTypes
  <2> QED
    BY <2>1, <2>2, <2>3, <2>4 DEF Truthful
<1>4. CASE Answer
  BY <1>4 DEF Answer, Watch, Truthful, NoPage
<1> QED
  BY <1>1, <1>2, <1>3, <1>4 DEF Reader

\* A page misses nothing that was on sale for as long as it was read, and shows
\* nothing that was not unless the organizer edited the event meanwhile.
THEOREM PagesTruthful == Spec => []PagesShowWhatIsOnSale
<1>1. Init => Truthful
  BY DEF Init, Truthful, NoPage
<1>2. TypeOK /\ Truthful /\ [Next]_vars => Truthful'
  <2> SUFFICES ASSUME TypeOK, Truthful, [Next]_vars PROVE Truthful'
    OBVIOUS
  <2>1. CASE UNCHANGED vars
    BY <2>1 DEF Truthful, vars, event, Offered, Reservable, Listed, Open
  <2> QED
    BY <2>1, OrganizerTruthful, ClockTruthful, ReaderTruthful DEF Next
<1>3. TypeOK /\ Truthful => PagesShowWhatIsOnSale
  BY DEF Truthful, PagesShowWhatIsOnSale, Read
<1> QED
  BY <1>1, <1>2, <1>3, RowTypes, PTL DEF Spec

-----------------------------------------------------------------------------
(***************************************************************************)
(* The pool of connections that public lists, among others, draw on.       *)
(***************************************************************************)

Job ==
  {Idle} \cup [kind : Kinds, step : {"connect", "run", "second", "nested"}, left : 0..MaxQueries]

LEMMA JobSteps ==
  ASSUME job \in [Requests -> Job], NEW q \in Requests
  PROVE  /\ job[q].step \in {"idle", "connect", "run", "second", "nested"}
         /\ job[q].kind \in Kinds
         /\ job[q].left \in 0..MaxQueries
         /\ job[q].step # "idle" => job[q] \in Job \ {Idle}
  BY MaxQueriesAssumption DEF Job, Idle, Kinds

LEMMA HeldType ==
  ASSUME job \in [Requests -> Job], NEW q \in Requests
  PROVE  /\ Held(q) \in 0..2
         /\ Held(q) = 0 <=> job[q].step \in {"idle", "connect"}
         /\ Held(q) = 1 <=> job[q].step \in {"run", "second"}
         /\ Held(q) = 2 <=> job[q].step = "nested"
  BY JobSteps DEF Held

\* The same of the state after a step.
LEMMA HeldTypeNext ==
  ASSUME job' \in [Requests -> Job], NEW q \in Requests
  PROVE  Held(q)' \in 0..2
<1>1. job'[q] \in Job
  OBVIOUS
<1>2. job'[q].step \in {"idle", "connect", "run", "second", "nested"}
  BY <1>1, MaxQueriesAssumption DEF Job, Idle, Kinds
<1> QED
  BY <1>2 DEF Held

LEMMA ConnectionsFinite ==
  /\ IsFiniteSet(Connections) /\ InUse \in Nat
  /\ IsFiniteSet(Connections') /\ InUse' \in Nat
<1>1. IsFiniteSet(Requests \X {1, 2})
  <2>1. IsFiniteSet({1, 2})
    <3>1. IsFiniteSet({1} \cup {2})
      BY FS_Singleton, FS_AddElement
    <3> QED
      BY <3>1, {1, 2} = {1} \cup {2}
  <2> QED
    BY <2>1, PoolRequestsAssumption, FS_Product
<1>2. Connections \subseteq Requests \X {1, 2} /\ Connections' \subseteq Requests \X {1, 2}
  BY DEF Connections
<1>3. IsFiniteSet(Connections) /\ IsFiniteSet(Connections')
  BY <1>1, <1>2, FS_Subset
<1> QED
  BY <1>3, FS_CardinalityType DEF InUse

\* One request returns connections, or gets one more.
LEMMA Returned ==
  ASSUME NEW q \in Requests, \A p \in Requests \ {q} : job'[p] = job[p],
         job \in [Requests -> Job], job' \in [Requests -> Job], Held(q)' <= Held(q)
  PROVE  InUse' <= InUse
<1>1. \A p \in Requests \ {q} : Held(p)' = Held(p)
  BY DEF Held
<1>2. Held(q) \in 0..2 /\ Held(q)' \in 0..2
  BY HeldType, HeldTypeNext
<1>3. Connections' \subseteq Connections
  BY <1>1, <1>2 DEF Connections
<1> QED
  BY <1>3, ConnectionsFinite, FS_Subset DEF InUse

LEMMA HandedOut ==
  ASSUME NEW q \in Requests, \A p \in Requests \ {q} : job'[p] = job[p],
         job \in [Requests -> Job], job' \in [Requests -> Job], Held(q)' = Held(q) + 1
  PROVE  InUse' <= InUse + 1
<1>1. \A p \in Requests \ {q} : Held(p)' = Held(p)
  BY DEF Held
<1>2. Held(q) \in 0..2
  BY HeldType
<1> DEFINE c == <<q, Held(q) + 1>>
<1>3. Connections' \subseteq Connections \cup {c}
  BY <1>1, <1>2 DEF Connections
<1>4. /\ IsFiniteSet(Connections \cup {c})
      /\ Cardinality(Connections \cup {c}) <= InUse + 1
      /\ Cardinality(Connections \cup {c}) \in Nat
  <2> DEFINE S == Connections
  <2>1. IsFiniteSet(S) /\ Cardinality(S) \in Nat /\ InUse = Cardinality(S)
    BY ConnectionsFinite DEF InUse
  <2> HIDE DEF c, S
  <2>2. /\ IsFiniteSet(S \cup {c})
        /\ Cardinality(S \cup {c}) = IF c \in S THEN Cardinality(S) ELSE Cardinality(S) + 1
    BY <2>1, FS_AddElement
  <2>3. Cardinality(S \cup {c}) <= InUse + 1 /\ Cardinality(S \cup {c}) \in Nat
    BY <2>1, <2>2
  <2> QED
    BY <2>2, <2>3 DEF S
<1> HIDE DEF c
<1>5. Cardinality(Connections') <= Cardinality(Connections \cup {c})
  BY <1>3, <1>4, FS_Subset
<1> QED
  BY <1>4, <1>5, ConnectionsFinite DEF InUse

\* A request that takes its step: the others stay.
LEMMA OneGoes ==
  ASSUME job \in [Requests -> Job], NEW q \in Requests, NEW j \in Job,
         job' = [job EXCEPT ![q] = j]
  PROVE  /\ job' \in [Requests -> Job]
         /\ \A p \in Requests \ {q} : job'[p] = job[p]
         /\ job'[q] = j
  OBVIOUS

LEMMA StepsWithin ==
  ASSUME job \in [Requests -> Job], NEW q \in Requests, job[q].step # "idle",
         NEW step \in {"connect", "run", "second", "nested"}
  PROVE  /\ Go(q, step) =>
              \E j \in Job : job' = [job EXCEPT ![q] = j] /\ j.step = step /\ j.kind = job[q].kind /\ j.left = job[q].left
         /\ Advance(q, step) /\ job[q].left > 0 =>
              \E j \in Job : job' = [job EXCEPT ![q] = j] /\ j.step = step /\ j.kind = job[q].kind
         /\ End(q) => \E j \in Job : job' = [job EXCEPT ![q] = j] /\ j = Idle
<1>1. job[q] \in [kind : Kinds, step : {"connect", "run", "second", "nested"}, left : 0..MaxQueries]
  BY JobSteps DEF Job
<1>2. MaxQueries \in Nat
  BY MaxQueriesAssumption
<1>3. ASSUME Go(q, step)
      PROVE  \E j \in Job : job' = [job EXCEPT ![q] = j] /\ j.step = step /\ j.kind = job[q].kind /\ j.left = job[q].left
  <2>1. [job[q] EXCEPT !.step = step] \in Job
    BY <1>1 DEF Job
  <2>2. job' = [job EXCEPT ![q] = [job[q] EXCEPT !.step = step]]
    BY <1>3 DEF Go
  <2> QED
    BY <1>1, <2>1, <2>2
<1>4. ASSUME Advance(q, step), job[q].left > 0
      PROVE  \E j \in Job : job' = [job EXCEPT ![q] = j] /\ j.step = step /\ j.kind = job[q].kind
  <2> DEFINE j == [[job[q] EXCEPT !.step = step] EXCEPT !.left = job[q].left - 1]
  <2>1. job[q].left - 1 \in 0..MaxQueries
    BY <1>1, <1>2, <1>4
  <2>2. j \in Job /\ j.step = step /\ j.kind = job[q].kind
    BY <1>1, <2>1 DEF Job
  <2>3. job' = [job EXCEPT ![q] = j]
    BY <1>4 DEF Advance
  <2> HIDE DEF j
  <2> QED
    BY <2>2, <2>3
<1>5. End(q) => \E j \in Job : job' = [job EXCEPT ![q] = j] /\ j = Idle
  BY DEF End, Job
<1> QED
  BY <1>3, <1>4, <1>5

\* Only a public list, with an event in hand, waits for a second connection or has it.
Borrowing == \A q \in Requests : job[q].step \in {"second", "nested"} => job[q].kind = "listing" /\ job[q].left > 0

PoolInv == PoolTypeOK /\ Borrowing

\* One request steps to j, which needs no more connections than it has.
LEMMA StepReturns ==
  ASSUME PoolInv, NEW q \in Requests, NEW j \in Job, job' = [job EXCEPT ![q] = j],
         j.step \in {"second", "nested"} => j.kind = "listing" /\ j.left > 0,
         Held(q)' <= Held(q)
  PROVE  PoolInv'
<1>1. job \in [Requests -> Job] /\ InUse <= MaxOpenConns
  BY DEF PoolInv, PoolTypeOK, Job
<1>2. /\ job' \in [Requests -> Job]
      /\ \A p \in Requests \ {q} : job'[p] = job[p]
      /\ job'[q] = j
  BY <1>1, OneGoes
<1>3. InUse' <= MaxOpenConns
  BY <1>1, <1>2, Returned, ConnectionsFinite, MaxOpenConnsAssumption
<1>4. Borrowing'
  BY <1>2 DEF PoolInv, Borrowing
<1> QED
  BY <1>2, <1>3, <1>4 DEF PoolInv, PoolTypeOK, Job

\* The pool has a connection left and one request gets it.
LEMMA StepTakes ==
  ASSUME PoolInv, Free, NEW q \in Requests, NEW j \in Job, job' = [job EXCEPT ![q] = j],
         j.step \in {"second", "nested"} => j.kind = "listing" /\ j.left > 0,
         Held(q)' = Held(q) + 1
  PROVE  PoolInv'
<1>1. job \in [Requests -> Job]
  BY DEF PoolInv, PoolTypeOK, Job
<1>2. /\ job' \in [Requests -> Job]
      /\ \A p \in Requests \ {q} : job'[p] = job[p]
      /\ job'[q] = j
  BY <1>1, OneGoes
<1>3. InUse' <= MaxOpenConns
  BY <1>1, <1>2, HandedOut, ConnectionsFinite, MaxOpenConnsAssumption DEF Free
<1>4. Borrowing'
  BY <1>2 DEF PoolInv, Borrowing
<1> QED
  BY <1>2, <1>3, <1>4 DEF PoolInv, PoolTypeOK, Job

\* What a request may step to.
LEMMA PoolInvStep ==
  ASSUME PoolInv, PoolNext
  PROVE  PoolInv'
<1>1. job \in [Requests -> Job] /\ Borrowing
  BY DEF PoolInv, PoolTypeOK, Job
<1>2. PICK q \in Requests :
        \/ \E kind \in Kinds, n \in 1..MaxQueries : Begin(q, kind, n)
        \/ Connect(q) \/ ConnectAgain(q) \/ Run(q) \/ GiveUp(q)
  BY DEF PoolNext
<1>3. \A j : job' = [job EXCEPT ![q] = j] => job'[q] = j
  BY <1>1
<1>4. ASSUME End(q)
      PROVE  PoolInv'
  <2>1. Idle \in Job /\ job' = [job EXCEPT ![q] = Idle] /\ Idle.step = "idle"
    BY <1>4 DEF End, Job, Idle
  <2>2. Held(q)' = 0 /\ Held(q) \in 0..2
    BY <1>1, <1>3, <2>1, HeldType DEF Held
  <2>3. Held(q)' <= Held(q)
    BY <2>2
  <2>4. ~(Idle.step \in {"second", "nested"})
    BY <2>1
  <2> QED
    BY <2>1, <2>3, <2>4, StepReturns
<1>5. ASSUME NEW step \in {"connect", "run"}, job[q].step \in {"run", "nested"}, job[q].left > 0,
             Advance(q, step)
      PROVE  PoolInv'
  <2>1. PICK j \in Job : job' = [job EXCEPT ![q] = j] /\ j.step = step
    BY <1>1, <1>5, StepsWithin
  <2>2. Held(q)' <= 1 /\ Held(q) >= 1
    BY <1>1, <1>3, <1>5, <2>1 DEF Held
  <2>3. Held(q)' \in 0..2 /\ Held(q) \in 0..2
    BY <1>1, <2>1, HeldType, HeldTypeNext, OneGoes
  <2>4. Held(q)' <= Held(q) /\ ~(j.step \in {"second", "nested"})
    BY <2>1, <2>2, <2>3
  <2> QED
    BY <2>1, <2>4, StepReturns
<1>6. ASSUME NEW kind \in Kinds, NEW n \in 1..MaxQueries, Begin(q, kind, n)
      PROVE  PoolInv'
  <2> DEFINE j == [kind |-> kind, step |-> "connect", left |-> n]
  <2>1. j \in Job /\ job' = [job EXCEPT ![q] = j] /\ j.step = "connect"
    BY <1>6, MaxQueriesAssumption DEF Begin, Job
  <2>2. Held(q)' = 0 /\ Held(q) \in 0..2
    BY <1>1, <1>3, <2>1, HeldType DEF Held
  <2> HIDE DEF j
  <2>3. Held(q)' <= Held(q) /\ ~(j.step \in {"second", "nested"})
    BY <2>1, <2>2
  <2> QED
    BY <2>1, <2>3, StepReturns
<1>7. CASE Connect(q)
  <2>1. PICK j \in Job : job' = [job EXCEPT ![q] = j] /\ j.step = "run"
    BY <1>1, <1>7, StepsWithin DEF Connect
  <2>2. Held(q)' = 1 /\ Held(q) = 0
    BY <1>1, <1>3, <1>7, <2>1 DEF Held, Connect
  <2>3. Held(q)' = Held(q) + 1 /\ ~(j.step \in {"second", "nested"})
    BY <2>1, <2>2
  <2> QED
    BY <1>7, <2>1, <2>3, StepTakes DEF Connect
<1>8. CASE ConnectAgain(q)
  <2>1. job[q].kind = "listing" /\ job[q].left > 0
    BY <1>1, <1>8 DEF Borrowing, ConnectAgain
  <2>2. PICK j \in Job : job' = [job EXCEPT ![q] = j] /\ j.step = "nested" /\ j.kind = "listing" /\ j.left = job[q].left
    BY <1>1, <1>8, <2>1, StepsWithin DEF ConnectAgain
  <2>3. Held(q)' = 2 /\ Held(q) = 1
    BY <1>1, <1>3, <1>8, <2>2 DEF Held, ConnectAgain
  <2>4. Held(q)' = Held(q) + 1 /\ j.left > 0
    BY <2>1, <2>2, <2>3
  <2> QED
    BY <1>8, <2>2, <2>4, StepTakes DEF ConnectAgain
<1>9. CASE Run(q)
  <2>1. CASE Statement(q)
    <3>1. job[q].left > 1 => job[q].left > 0
      BY <1>1, JobSteps
    <3> QED
      BY <1>4, <1>5, <2>1, <3>1 DEF Statement
  <2>2. CASE Transact(q)
    BY <1>4, <1>5, <2>2 DEF Transact
  <2>3. CASE ListPublic(q)
    <3>1. CASE job[q].left > 0
      <4>1. PICK j \in Job : job' = [job EXCEPT ![q] = j] /\ j.step = "second" /\ j.kind = "listing" /\ j.left = job[q].left
        BY <1>1, <2>3, <3>1, StepsWithin DEF ListPublic
      <4>2. Held(q)' = 1 /\ Held(q) = 1
        BY <1>1, <1>3, <2>3, <4>1 DEF Held, ListPublic
      <4>3. Held(q)' <= Held(q) /\ j.left > 0
        BY <3>1, <4>1, <4>2
      <4> QED
        BY <4>1, <4>3, StepReturns
    <3>2. CASE ~(job[q].left > 0)
      BY <1>4, <2>3, <3>2 DEF ListPublic
    <3> QED
      BY <3>1, <3>2
  <2>4. CASE Nested(q)
    BY <1>1, <1>5, <2>4 DEF Nested, Borrowing
  <2> QED
    BY <1>9, <2>1, <2>2, <2>3, <2>4 DEF Run
<1>10. CASE GiveUp(q)
  BY <1>4, <1>10 DEF GiveUp
<1> QED
  BY <1>2, <1>6, <1>7, <1>8, <1>9, <1>10

LEMMA PoolInvHolds == PoolSpec => []PoolInv
<1>1. PoolInit => PoolInv
  <2> SUFFICES ASSUME PoolInit
               PROVE  PoolInv
    OBVIOUS
  <2>1. job \in [Requests -> Job] /\ \A q \in Requests : job[q].step = "idle"
    BY DEF PoolInit, Job, Idle
  <2>2. Connections = {}
    BY <2>1 DEF Connections, Held
  <2>3. InUse <= MaxOpenConns
    BY <2>2, FS_EmptySet, MaxOpenConnsAssumption DEF InUse
  <2> QED
    BY <2>1, <2>3 DEF PoolInv, PoolTypeOK, Borrowing, Job
<1>2. PoolInv /\ [PoolNext]_poolVars => PoolInv'
  <2>1. PoolInv /\ UNCHANGED poolVars => PoolInv'
    BY DEF PoolInv, PoolTypeOK, Borrowing, poolVars, InUse, Connections, Held
  <2> QED
    BY <2>1, PoolInvStep
<1> QED
  BY <1>1, <1>2, PTL DEF PoolSpec

\* However many requests there are, the pool never hands out more connections than
\* it may open, and the variables keep their types.
THEOREM PoolTypes == PoolSpec => []PoolTypeOK
<1>1. PoolInv => PoolTypeOK
  BY DEF PoolInv
<1> QED
  BY <1>1, PoolInvHolds, PTL

\* When no connection is left, some request has what it needs for its next step and
\* will return one, unless all are held by public lists that wait for a second.
BusyOrJammed == Free \/ Jammed \/ \E q \in Requests : job[q].step \in {"run", "nested"}

\* The public list (repository.go:133) is the only handler that can bring the pool
\* to a stop: while it is not jammed, a full pool has somebody who goes on.
THEOREM OnlyListingsJam == PoolSpec => []BusyOrJammed
<1>1. PoolInv => BusyOrJammed
  <2> SUFFICES ASSUME PoolInv, ~Free, \A q \in Requests : job[q].step \notin {"run", "nested"},
                      NEW q \in Requests, Held(q) > 0
               PROVE  job[q].kind = "listing" /\ job[q].step = "second"
    BY DEF BusyOrJammed, Jammed
  <2>1. job \in [Requests -> Job] /\ Borrowing
    BY DEF PoolInv, PoolTypeOK, Job
  <2>2. job[q].step = "second"
    BY <2>1, HeldType
  <2> QED
    BY <2>1, <2>2 DEF Borrowing
<1> QED
  BY <1>1, PoolInvHolds, PTL

\* The public lists that hold a connection and wait for another.
Waiting == {q \in Requests : job[q].kind = "listing" /\ job[q].step = "second"}

JamTakesAll == Jammed => Cardinality(Waiting) >= MaxOpenConns

\* The pool jams only when at least as many public lists are under way at once as it
\* has connections: 25 of them (mysql.go:16).
THEOREM JamsTakeAPoolOfListings == PoolSpec => []JamTakesAll
<1>1. PoolInv => JamTakesAll
  <2> SUFFICES ASSUME PoolInv, Jammed
               PROVE  Cardinality(Waiting) >= MaxOpenConns
    BY DEF JamTakesAll
  <2>1. job \in [Requests -> Job] /\ InUse >= MaxOpenConns
    BY ConnectionsFinite, MaxOpenConnsAssumption DEF PoolInv, PoolTypeOK, Job, Jammed, Free
  <2> DEFINE first == [q \in Waiting |-> <<q, 1>>]
  <2>2. \A q \in Waiting : <<q, 1>> \in Connections
    BY <2>1, HeldType DEF Waiting, Connections
  <2>3. ASSUME NEW c \in Connections
        PROVE  \E q \in Waiting : c = <<q, 1>>
    <3>1. PICK q \in Requests, n \in {1, 2} : c = <<q, n>> /\ n <= Held(q)
      BY DEF Connections
    <3>2. Held(q) = 1
      BY <2>1, <3>1, HeldType DEF Jammed
    <3> QED
      BY <3>1, <3>2 DEF Jammed, Waiting
  <2>4. first \in Surjection(Waiting, Connections)
    BY <2>2, <2>3 DEF Surjection
  <2>5. IsFiniteSet(Waiting)
    BY PoolRequestsAssumption, FS_Subset DEF Waiting
  <2> HIDE DEF first
  <2>6. Cardinality(Connections) <= Cardinality(Waiting) /\ Cardinality(Waiting) \in Nat
    BY <2>4, <2>5, FS_Surjection, FS_CardinalityType
  <2> QED
    BY <2>1, <2>6, ConnectionsFinite, MaxOpenConnsAssumption DEF InUse
<1> QED
  BY <1>1, PoolInvHolds, PTL
=============================================================================

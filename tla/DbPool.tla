-------------------------------- MODULE DbPool --------------------------------
(***************************************************************************)
(* The connections to MySQL.  internal/platform/db/mysql.go opens one pool *)
(* of 25 for the whole server and database/sql makes whoever finds it      *)
(* empty wait, without a timeout, until a connection is returned or the    *)
(* request's context is cancelled.  cmd/api/main.go gives no handler a     *)
(* deadline, so the context ends only with the client.                     *)
(*                                                                         *)
(* A statement borrows a connection for as long as it runs, a transaction  *)
(* for all its statements.  ListPublic of internal/events/repository.go is *)
(* the exception: while it iterates over the events it keeps the           *)
(* connection of the outer query and runs its other queries through the    *)
(* pool, on a second one.                                                  *)
(***************************************************************************)
EXTENDS Naturals, FiniteSets

CONSTANTS
  Requests,       \* requests the server handles at the same time
  MaxOpenConns,   \* connections in the pool
  MaxQueries      \* bound: how many statements one request makes

ASSUME PoolRequestsAssumption == IsFiniteSet(Requests)
ASSUME MaxOpenConnsAssumption == MaxOpenConns \in Nat \ {0}
ASSUME MaxQueriesAssumption == MaxQueries \in Nat \ {0}

VARIABLES
  job   \* each request: what it is, how far it is, how many statements are left

poolVars == <<job>>

\* Handlers that make one statement after the other, those that open a
\* transaction, and the public list of events.
Kinds == {"statements", "transaction", "listing"}
Idle == [kind |-> "statements", step |-> "idle", left |-> 0]

Held(q) ==
  CASE job[q].step \in {"idle", "connect"} -> 0
    [] job[q].step \in {"run", "second"}   -> 1
    [] job[q].step = "nested"              -> 2

\* The first and the second connection of each request.
Connections == {c \in Requests \X {1, 2} : c[2] <= Held(c[1])}
InUse == Cardinality(Connections)

\* Mutation: one connection more.
OneToSpare == InUse <= MaxOpenConns
Free == InUse < MaxOpenConns

Go(q, step) == job' = [job EXCEPT ![q].step = step]
Advance(q, step) == job' = [job EXCEPT ![q].step = step, ![q].left = @ - 1]
End(q) == job' = [job EXCEPT ![q] = Idle]

-----------------------------------------------------------------------------
Begin(q, kind, n) ==
  /\ job[q] = Idle
  /\ job' = [job EXCEPT ![q] = [kind |-> kind, step |-> "connect", left |-> n]]

\* The pool hands out a connection: the first of a request, or one more.
Connect(q) == job[q].step = "connect" /\ Free /\ Go(q, "run")
ConnectAgain(q) == job[q].step = "second" /\ Free /\ Go(q, "nested")

\* The connection is returned, and fetched again for the next statement.
Statement(q) ==
  /\ job[q].kind = "statements" /\ job[q].step = "run"
  /\ IF job[q].left > 1 THEN Advance(q, "connect") ELSE End(q)

\* Mutation: one statement of the transaction is given to the pool instead.
TransactThroughPool(q) ==
  /\ job[q].kind = "transaction" /\ job[q].step = "run"
  /\ IF job[q].left > 0 THEN Go(q, "second") ELSE End(q)

\* The statements of a transaction run on its own connection, also while Stripe
\* is asked for a session in between; then it commits.
Transact(q) ==
  /\ job[q].kind = "transaction" /\ job[q].step = "run"
  /\ IF job[q].left > 0 THEN Advance(q, "run") ELSE End(q)

\* The next event of the outer query, and the queries for its sessions and their
\* ticket types; the outer connection is returned when there is none left.
ListPublic(q) ==
  /\ job[q].kind = "listing" /\ job[q].step = "run"
  /\ IF job[q].left > 0 THEN Go(q, "second") ELSE End(q)

Nested(q) == job[q].step = "nested" /\ Advance(q, "run")

\* A statement fails or the client hangs up: all connections are returned.
GiveUp(q) == job[q] # Idle /\ End(q)

-----------------------------------------------------------------------------
PoolInit == job = [q \in Requests |-> Idle]

Run(q) == Statement(q) \/ Transact(q) \/ ListPublic(q) \/ Nested(q)

PoolNext ==
  \E q \in Requests :
    \/ \E kind \in Kinds, n \in 1..MaxQueries : Begin(q, kind, n)
    \/ Connect(q) \/ ConnectAgain(q)
    \/ Run(q)
    \/ GiveUp(q)

PoolSpec == PoolInit /\ [][PoolNext]_poolVars

\* What has its connection goes on.  A connection that is returned goes to one of
\* those that wait, and nobody is passed over for ever.  No client has to give up.
Fairness ==
  \A q \in Requests : WF_poolVars(Run(q)) /\ SF_poolVars(Connect(q)) /\ SF_poolVars(ConnectAgain(q))

FairPoolSpec == PoolSpec /\ Fairness

-----------------------------------------------------------------------------
(* Properties. *)

\* The types of the variables; no more connections than the pool has.
PoolTypeOK ==
  /\ job \in [Requests ->
       {Idle} \cup [kind : Kinds, step : {"connect", "run", "second", "nested"}, left : 0..MaxQueries]]
  /\ InUse <= MaxOpenConns

\* Every connection is the outer one of a public list that waits for another.
Jammed ==
  /\ ~Free
  /\ \A q \in Requests : Held(q) > 0 => job[q].kind = "listing" /\ job[q].step = "second"

\* Whoever waits for a connection gets it, however many wait, unless as many
\* public lists as there are connections each hold one and wait for a second:
\* then nobody is served any more until one of their clients hangs up
\* (repository.go:133).  Transactions and other handlers never do that.
EveryoneIsServed ==
  \A q \in Requests :
    job[q].step \in {"connect", "second"} ~> job[q].step \notin {"connect", "second"} \/ []Jammed
=============================================================================

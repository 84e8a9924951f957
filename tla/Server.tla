------------------------------- MODULE Server -------------------------------
(***************************************************************************)
(* One process of the service: the HTTP server, its handlers over the      *)
(* connection pool of internal/repo/postgres, the time limit of the router *)
(* and the shutdown of cmd/shelf-auth/main.go.                             *)
(*                                                                         *)
(* What a handler computes is left to Sessions and Accounts.  Here it is   *)
(* the sequence of what it does with connections: it acquires one, runs a  *)
(* statement and keeps it, or runs its last one and gives it back.         *)
(***************************************************************************)
EXTENDS Naturals, FiniteSetsExt, SequencesExt

CONSTANTS
  Requests,    \* slots for requests: how many can be active at once
  MaxConns,    \* connections of the pool (10)
  Limit,       \* the time limit of a request, in ticks (10 s)
  DrainLimit   \* the time limit of Shutdown, in ticks (10 s)

ASSUME ServerAssumption ==
  /\ MaxConns \in Nat \ {0}
  /\ Limit \in Nat \ {0}
  /\ DrainLimit \in Nat /\ Limit <= DrainLimit

VARIABLES
  mode,      \* of the process; "closing": main has returned, the pool closes
  drain,     \* ticks left for Shutdown
  database,  \* whether PostgreSQL answers
  free,      \* connections nobody has
  queue,     \* the requests that wait for a connection, in their order
  req        \* req[r]: the handler in slot r

vars == <<mode, drain, database, free, queue, req>>

-----------------------------------------------------------------------------
(* What the handlers do with connections.                                  *)

Statement == {"acquire", "run", "last"}

(* Query, QueryRow with its Scan, Exec: on a connection of their own. *)
Query == <<"acquire", "last">>

(* Mutant: the INSERT runs on the pool instead of on the transaction. *)
InsertOnPool == <<"acquire", "run">> \o Query \o <<"last">>

(* Rotate: BEGIN, INSERT and UPDATE keep the connection, COMMIT ends it. *)
Transaction == <<"acquire", "run", "last">>

Endpoint == {"healthz", "logout", "login", "refresh"}

(* register and me are like logout, a reuse is like a login. *)
Program(e) ==
  CASE e = "healthz" -> << >>
    [] e = "logout"  -> Query
    [] e = "login"   -> Query \o Query
    [] e = "refresh" -> Query \o Transaction

Handler ==
  [phase : {"idle", "reading", "serving"},   \* "reading": its header
   late  : BOOLEAN,           \* history: the header came after Shutdown began
   todo  : Seq(Statement),    \* what it has still to do
   held  : Nat,               \* connections it holds
   age   : 0..Limit]          \* ticks since its header was read

Idle == [phase |-> "idle", late |-> FALSE, todo |-> << >>, held |-> 0, age |-> 0]

Serving(r) == req[r].phase = "serving"
Active     == {r \in Requests : req[r].phase # "idle"}
Waiting(r) == Contains(queue, r)
Next1(r)   == IF req[r].todo = << >> THEN "reply" ELSE Head(req[r].todo)

(* The first bytes of a request, on a new connection or an idle one. *)
Arrive(r) ==
  /\ mode = "up"
  /\ req[r].phase = "idle"
  /\ req' = [req EXCEPT ![r].phase = "reading"]
  /\ UNCHANGED <<mode, drain, database, free, queue>>

(* The header is complete and the router's time limit begins.  Shutdown     *)
(* closes idle connections only, so this may come after it.                 *)
Accept(r, e) ==
  /\ mode \in {"up", "draining"}
  /\ req[r].phase = "reading"
  /\ req' = [req EXCEPT ![r] = [Idle EXCEPT !.phase = "serving",
                                           !.late  = mode = "draining",
                                           !.todo  = Program(e)]]
  /\ UNCHANGED <<mode, drain, database, free, queue>>

(* ReadHeaderTimeout, or the client hangs up. *)
Abandon(r) ==
  /\ req[r].phase = "reading"
  /\ req' = [req EXCEPT ![r] = Idle]
  /\ UNCHANGED <<mode, drain, database, free, queue>>

-----------------------------------------------------------------------------
(* The pool.  A connection that is given back goes to the first in line.   *)

(* Mutant: a connection that was passed on is counted as free as well. *)
GiveTwice(n, line, handlers) ==
  LET served == IF n < Len(line) THEN n ELSE Len(line)
  IN  /\ free' = free + n
      /\ queue' = SubSeq(line, served + 1, Len(line))
      /\ req' = [r \in Requests |->
           IF \E k \in 1..served : line[k] = r
           THEN [handlers[r] EXCEPT !.held = @ + 1, !.todo = Tail(@)]
           ELSE handlers[r]]

(* n connections come back to a pool with this line of waiting requests. *)
Give(n, line, handlers) ==
  LET served == IF n < Len(line) THEN n ELSE Len(line)
  IN  /\ free' = free + n - served
      /\ queue' = SubSeq(line, served + 1, Len(line))
      /\ req' = [r \in Requests |->
           IF \E k \in 1..served : line[k] = r
           THEN [handlers[r] EXCEPT !.held = @ + 1, !.todo = Tail(@)]
           ELSE handlers[r]]

(* Mutant: the deferred Rollback forgotten, a connection is not given back. *)
EndKeepsConnections(r) ==
  Give(0, RemoveFirst(queue, r), [req EXCEPT ![r] = Idle])

(* The handler returns: deferred calls give back what it holds. *)
End(r) == Give(req[r].held, RemoveFirst(queue, r), [req EXCEPT ![r] = Idle])

(* Mutant: as many connections as requests. *)
AcquireUnbounded(r) ==
  /\ Next1(r) = "acquire"
  /\ req' = [req EXCEPT ![r].held = @ + 1, ![r].todo = Tail(@)]
  /\ free' = free - 1
  /\ UNCHANGED <<mode, drain, database, queue>>

Acquire(r) ==
  /\ Next1(r) = "acquire" /\ ~ Waiting(r)
  /\ IF mode = "closing" THEN End(r)   \* ErrClosedPool
     ELSE IF free > 0
     THEN /\ req' = [req EXCEPT ![r].held = @ + 1, ![r].todo = Tail(@)]
          /\ free' = free - 1
          /\ UNCHANGED queue
     ELSE queue' = Append(queue, r) /\ UNCHANGED <<free, req>>
  /\ UNCHANGED <<mode, drain, database>>

(* PostgreSQL answers a statement.  With the last one the connection goes   *)
(* back.                                                                    *)
Run(r) ==
  /\ Next1(r) \in {"run", "last"}
  /\ database = "up"
  /\ LET after == [req EXCEPT ![r].todo = Tail(@)]
     IN  IF Next1(r) = "run" THEN req' = after /\ UNCHANGED <<free, queue>>
         ELSE Give(1, queue, [after EXCEPT ![r].held = @ - 1])
  /\ UNCHANGED <<mode, drain, database>>

(* A statement fails, and the handler answers with an error. *)
Fail(r) ==
  /\ Next1(r) \in {"run", "last"}
  /\ End(r)
  /\ UNCHANGED <<mode, drain, database>>

(* Mutant: statements run without the context of the request. *)
ExpireWaitingOnly(r) ==
  /\ Waiting(r)
  /\ req[r].age = Limit \/ mode = "closing"
  /\ End(r)
  /\ UNCHANGED <<mode, drain, database>>

(* The context of the request is done, because of its time limit or because *)
(* srv.Close cut its connection: what it waits for returns an error.        *)
Expire(r) ==
  /\ req[r].todo # << >>
  /\ req[r].age = Limit \/ mode = "closing"
  /\ End(r)
  /\ UNCHANGED <<mode, drain, database>>

Reply(r) ==
  /\ Serving(r) /\ req[r].todo = << >>
  /\ End(r)
  /\ UNCHANGED <<mode, drain, database>>

-----------------------------------------------------------------------------
(* The process.                                                            *)

Down ==
  /\ mode' = "down" /\ drain' = 0
  /\ free' = MaxConns /\ queue' = << >>
  /\ req' = [r \in Requests |-> Idle]
  /\ UNCHANGED database

(* postgres.Open pings the database; without an answer main gives up. *)
Start ==
  /\ mode = "down" /\ database = "up"
  /\ mode' = "up"
  /\ UNCHANGED <<drain, database, free, queue, req>>

(* SIGTERM, or ListenAndServe returned: nobody new is let in from here. *)
Shutdown ==
  /\ mode = "up"
  /\ mode' = "draining" /\ drain' = DrainLimit
  /\ UNCHANGED <<database, free, queue, req>>

(* Mutant: srv.Close instead of srv.Shutdown. *)
Hasten ==
  /\ mode = "draining"
  /\ mode' = "closing"
  /\ UNCHANGED <<drain, database, free, queue, req>>

(* Shutdown returns because every request has ended or its time is over;   *)
(* then main closes the server, and its deferred db.Close the pool.        *)
Drained ==
  /\ mode = "draining"
  /\ Active = {} \/ drain = 0
  /\ mode' = "closing"
  /\ UNCHANGED <<drain, database, free, queue, req>>

(* db.Close waits for the connections; the handlers that are left die. *)
Exit ==
  /\ mode = "closing" /\ free = MaxConns
  /\ Down

Crash == mode # "down" /\ Down

(* The database stops answering, or answers again. *)
Outage ==
  /\ database' = IF database = "up" THEN "hung" ELSE "up"
  /\ UNCHANGED <<mode, drain, free, queue, req>>

Tick ==
  /\ req' = [r \in Requests |->
       IF Serving(r) /\ req[r].age < Limit
       THEN [req[r] EXCEPT !.age = @ + 1] ELSE req[r]]
  /\ drain' = IF drain > 0 THEN drain - 1 ELSE 0
  /\ UNCHANGED <<mode, database, free, queue>>

-----------------------------------------------------------------------------
Init ==
  /\ mode = "down" /\ drain = 0
  /\ database = "up"
  /\ free = MaxConns /\ queue = << >>
  /\ req = [r \in Requests |-> Idle]

Handle(r) == Acquire(r) \/ Run(r) \/ Expire(r) \/ Reply(r)
Stop      == Drained \/ Exit

Next ==
  \/ \E r \in Requests :
       \/ Arrive(r) \/ Abandon(r) \/ \E e \in Endpoint : Accept(r, e)
       \/ Handle(r) \/ Fail(r)
  \/ Start \/ Shutdown \/ Stop \/ Crash \/ Outage \/ Tick

Spec == Init /\ [][Next]_vars

(* Goroutines are scheduled, time passes, and main goes on to its end.     *)
FairSpec ==
  /\ Spec
  /\ \A r \in Requests : WF_vars(Handle(r))
  /\ WF_vars(Tick) /\ WF_vars(Stop)

-----------------------------------------------------------------------------
(* Every variable has its type. *)
TypeOK ==
  /\ mode \in {"down", "up", "draining", "closing"}
  /\ drain \in 0..DrainLimit
  /\ database \in {"up", "hung"}
  /\ free \in 0..MaxConns
  /\ queue \in Seq(Requests) /\ IsInjective(queue)
  /\ req \in [Requests -> Handler]

Holders == {r \in Requests : req[r].held > 0}

(* No connection is lost or handed out twice, whichever way a handler ends  *)
(* (statement, error, time limit, cut connection), no handler has two, and  *)
(* nobody waits while one is free (repo/postgres/postgres.go:29,            *)
(* sessions.go:61-81).                                                      *)
PoolWhole ==
  /\ \A r \in Requests : req[r].held <= 1
  /\ free + Cardinality(Holders) = MaxConns
  /\ queue # << >> => free = 0

(* The handlers cannot block one another at the limit of the pool: while    *)
(* requests wait for a connection, one that has a connection does not       *)
(* (repo/postgres/sessions.go:56-81: the transaction never asks the pool).  *)
WaitersHaveRunner ==
  queue # << >> => \E r \in Requests : req[r].held > 0 /\ ~ Waiting(r)

(* A shutdown cuts no request short that was there when it began: when the  *)
(* pool closes, those that are left have had their full time, because the   *)
(* limit of the drain is not below that of a request (main.go:141-148,      *)
(* router.go:47).                                                           *)
NothingCutShort ==
  mode = "closing" =>
    \A r \in Requests : Serving(r) /\ ~ req[r].late => req[r].age = Limit

(* Every accepted request ends, even if the database hangs for good and the *)
(* pool is empty (router.go:47, and the context every statement gets).      *)
Ended == \A r \in Requests : Serving(r) ~> ~ Serving(r)

(* A process that was told to stop stops, though db.Close waits for every   *)
(* connection and the database may hang (main.go:131-151).                  *)
ShutdownEnds == mode = "draining" ~> mode = "down"
=============================================================================

---------------------------- MODULE ServerProofs ----------------------------
(***************************************************************************)
(* Proofs that a shutdown cuts no request short and that the pool is whole  *)
(* and cannot block, for any number of requests and connections and any    *)
(* limits with Limit <= DrainLimit.                                         *)
(***************************************************************************)
EXTENDS Server, FiniteSetTheorems, SequenceTheorems, TLAPS

USE ServerAssumption

Fields == {"phase", "late", "todo", "held", "age"}

(* Every request is a record with an age. *)
RequestsHaveAges ==
  /\ drain \in Nat
  /\ DOMAIN req = Requests
  /\ \A r \in Requests : DOMAIN req[r] = Fields /\ req[r].age \in 0..Limit

(* While main waits in Shutdown, a request that was there when it began     *)
(* runs out of time before main does.                                       *)
DrainOutlasts ==
  mode = "draining" =>
    \A r \in Requests : Serving(r) /\ ~ req[r].late => Limit <= req[r].age + drain

IInv == RequestsHaveAges /\ DrainOutlasts /\ NothingCutShort

(* What IInv asks of one request, in a process with that mode and drain. *)
Timely(m, d, q) ==
  /\ DOMAIN q = Fields /\ q.age \in 0..Limit
  /\ q.phase = "serving" /\ ~ q.late =>
       /\ m = "draining" => Limit <= q.age + d
       /\ m = "closing"  => q.age = Limit

LEMMA InvIsTimely ==
  IInv <=> /\ drain \in Nat /\ DOMAIN req = Requests
           /\ \A r \in Requests : Timely(mode, drain, req[r])
BY DEF IInv, RequestsHaveAges, DrainOutlasts, NothingCutShort, Timely, Serving

LEMMA IdleTimely ==
  ASSUME NEW m, NEW d
  PROVE  Timely(m, d, Idle)
BY DEF Timely, Idle, Fields

(* Connections that come back change no clock of a request. *)
LEMMA GiveKeepsTime ==
  ASSUME NEW n, NEW line, NEW handlers, Give(n, line, handlers),
         \A r \in Requests : Timely(mode, drain, handlers[r])
  PROVE  /\ DOMAIN req' = Requests
         /\ \A r \in Requests : Timely(mode, drain, req'[r])
<1>1. ASSUME NEW r \in Requests
      PROVE  Timely(mode, drain, req'[r])
  <2> DEFINE h == handlers[r]
             given == [h EXCEPT !.held = @ + 1, !.todo = Tail(@)]
  <2>1. req'[r] = given \/ req'[r] = h
    BY DEF Give
  <2>2. /\ DOMAIN given = DOMAIN h
        /\ DOMAIN h = Fields =>
             given.age = h.age /\ given.phase = h.phase /\ given.late = h.late
    BY DEF Fields
  <2> HIDE DEF given
  <2> QED
    BY <2>1, <2>2 DEF Timely
<1> QED
  BY <1>1 DEF Give

LEMMA EndKeepsTime ==
  ASSUME IInv, NEW r \in Requests, End(r)
  PROVE  DOMAIN req' = Requests /\ \A x \in Requests : Timely(mode, drain, req'[x])
<1> DEFINE handlers == [req EXCEPT ![r] = Idle]
<1>1. \A x \in Requests : Timely(mode, drain, handlers[x])
  BY InvIsTimely, IdleTimely
<1> QED
  BY <1>1, GiveKeepsTime DEF End

(* The other way round, for the state after a step. *)
LEMMA TimelyIsInv ==
  ASSUME DOMAIN req' = Requests, drain' \in Nat,
         \A x \in Requests : Timely(mode', drain', req'[x])
  PROVE  IInv'
BY DEF IInv, RequestsHaveAges, DrainOutlasts, NothingCutShort, Timely, Serving

-----------------------------------------------------------------------------
(* A handler that ends, or gives a connection back, changes no clock. *)
LEMMA HandlerStep ==
  ASSUME IInv, NEW r \in Requests, Handle(r) \/ Fail(r)
  PROVE  IInv'
<1>1. UNCHANGED <<mode, drain>>
  BY DEF Handle, Fail, Acquire, Run, Expire, Reply
<1>2. drain \in Nat /\ DOMAIN req = Requests
      /\ \A x \in Requests : Timely(mode, drain, req[x])
  BY InvIsTimely
<1>3. CASE End(r)
  BY <1>1, <1>2, <1>3, EndKeepsTime, TimelyIsInv
<1>4. CASE req' = req
  BY <1>1, <1>2, <1>4, TimelyIsInv
<1>5. CASE req' = [req EXCEPT ![r].held = @ + 1, ![r].todo = Tail(@)]
  <2>1. /\ DOMAIN req' = Requests /\ DOMAIN req'[r] = DOMAIN req[r]
        /\ \A x \in Requests \ {r} : req'[x] = req[x]
        /\ DOMAIN req[r] = Fields =>
             /\ req'[r].age = req[r].age /\ req'[r].phase = req[r].phase
             /\ req'[r].late = req[r].late
    BY <1>2, <1>5 DEF Fields
  <2>2. Timely(mode, drain, req'[r])
    BY <1>2, <2>1 DEF Timely
  <2> QED
    BY <1>1, <1>2, <2>1, <2>2, TimelyIsInv
<1>6. CASE Run(r)
  <2> DEFINE after == [req EXCEPT ![r].todo = Tail(@)]
             handlers == [after EXCEPT ![r].held = @ - 1]
  <2>1. req' = after \/ Give(1, queue, handlers)
    BY <1>6 DEF Run
  <2>2. /\ DOMAIN after = Requests
        /\ \A x \in Requests : Timely(mode, drain, after[x])
    BY <1>2 DEF Timely, Fields
  <2>3. \A x \in Requests : Timely(mode, drain, handlers[x])
    BY <2>2 DEF Timely, Fields
  <2> HIDE DEF after, handlers
  <2> QED
    BY <1>1, <1>2, <2>1, <2>2, <2>3, GiveKeepsTime, TimelyIsInv
<1> QED
  BY <1>3, <1>4, <1>5, <1>6 DEF Handle, Fail, Acquire, Expire, Reply

(* A request that begins has its whole time, or is late. *)
LEMMA RequestBegins ==
  ASSUME IInv, NEW r \in Requests,
         Arrive(r) \/ Abandon(r) \/ \E e \in Endpoint : Accept(r, e)
  PROVE  IInv'
<1>1. drain \in Nat /\ DOMAIN req = Requests
      /\ \A x \in Requests : Timely(mode, drain, req[x])
  BY InvIsTimely
<1>2. /\ UNCHANGED <<mode, drain>> /\ DOMAIN req' = Requests
      /\ \A x \in Requests \ {r} : req'[x] = req[x]
  BY <1>1 DEF Arrive, Abandon, Accept
<1>3. ASSUME Arrive(r)
      PROVE  Timely(mode, drain, req'[r])
  BY <1>1, <1>3 DEF Arrive, Timely, Fields
<1>4. ASSUME Abandon(r)
      PROVE  Timely(mode, drain, req'[r])
  BY <1>1, <1>4, IdleTimely DEF Abandon
<1>5. ASSUME NEW e \in Endpoint, Accept(r, e)
      PROVE  Timely(mode, drain, req'[r])
  <2> DEFINE q(late) == [Idle EXCEPT !.phase = "serving", !.late = late,
                                    !.todo = Program(e)]
  <2>1. req'[r] = q(mode = "draining") /\ mode \in {"up", "draining"}
    BY <1>1, <1>5 DEF Accept
  <2>2. ASSUME NEW late
        PROVE  /\ DOMAIN q(late) = Fields
               /\ q(late).age = 0 /\ q(late).late = late
    BY DEF Idle, Fields
  <2>3. /\ DOMAIN req'[r] = Fields /\ req'[r].age = 0
        /\ req'[r].late = (mode = "draining")
    BY <2>1, <2>2
  <2> HIDE DEF q
  <2>4. mode = "draining" => req'[r].late
    BY <2>3, Zenon
  <2>5. DOMAIN req'[r] = Fields /\ req'[r].age \in 0..Limit /\ mode # "closing"
    BY <2>1, <2>3
  <2> QED
    BY <2>4, <2>5 DEF Timely
<1> QED
  BY <1>1, <1>2, <1>3, <1>4, <1>5, TimelyIsInv

(* Time passes for the requests and for main alike. *)
LEMMA TickStep ==
  ASSUME IInv, Tick
  PROVE  IInv'
<1>1. drain \in Nat /\ DOMAIN req = Requests
      /\ \A x \in Requests : Timely(mode, drain, req[x])
  BY InvIsTimely
<1>2. drain' \in Nat /\ mode' = mode /\ DOMAIN req' = Requests
  BY <1>1 DEF Tick
<1>3. ASSUME NEW x \in Requests
      PROVE  Timely(mode, drain', req'[x])
  <2> DEFINE older == [req[x] EXCEPT !.age = @ + 1]
  <2>1. Timely(mode, drain, req[x])
    BY <1>1
  <2>2. CASE Serving(x) /\ req[x].age < Limit
    <3>1. req'[x] = older
      BY <2>2 DEF Tick
    <3>2. /\ DOMAIN older = Fields /\ older.age = req[x].age + 1
          /\ older.phase = req[x].phase /\ older.late = req[x].late
      BY <2>1 DEF Timely, Fields
    <3> HIDE DEF older
    <3> QED
      BY <1>1, <2>1, <2>2, <3>1, <3>2 DEF Timely, Tick
  <2>3. CASE ~ (Serving(x) /\ req[x].age < Limit)
    <3>1. req'[x] = req[x]
      BY <2>3 DEF Tick
    <3> QED
      BY <1>1, <2>1, <2>3, <3>1 DEF Timely, Tick, Serving
  <2> QED
    BY <2>2, <2>3
<1> QED
  BY <1>2, <1>3, TimelyIsInv

(* Main begins to wait for as long as a request may take, and goes on when  *)
(* none is left or all have had their time.                                 *)
LEMMA ProcessStep ==
  ASSUME IInv, Start \/ Shutdown \/ Stop \/ Crash \/ Outage
  PROVE  IInv'
<1>1. drain \in Nat /\ DOMAIN req = Requests
      /\ \A x \in Requests : Timely(mode, drain, req[x])
  BY InvIsTimely
<1>2. CASE Down
  <2>1. /\ drain' \in Nat /\ DOMAIN req' = Requests
        /\ \A x \in Requests : req'[x] = Idle
    BY <1>2 DEF Down
  <2> QED
    BY <2>1, IdleTimely, TimelyIsInv
<1>3. CASE Start \/ Shutdown \/ Drained \/ Outage
  <2>1. req' = req /\ drain' \in Nat
    BY <1>1, <1>3 DEF Start, Shutdown, Drained, Outage
  <2>2. ASSUME NEW x \in Requests
        PROVE  Timely(mode', drain', req[x])
    <3>1. Timely(mode, drain, req[x])
      BY <1>1
    <3>2. CASE Start
      BY <3>1, <3>2 DEF Start, Timely
    <3>3. CASE Shutdown
      BY <3>1, <3>3 DEF Shutdown, Timely
    <3>4. CASE Drained
      BY <1>1, <3>1, <3>4 DEF Drained, Timely, Active
    <3>5. CASE Outage
      BY <3>1, <3>5 DEF Outage, Timely
    <3> QED
      BY <1>3, <3>2, <3>3, <3>4, <3>5
  <2> QED
    BY <1>1, <2>1, <2>2, TimelyIsInv
<1> QED
  BY <1>2, <1>3 DEF Stop, Exit, Crash

(* A request that was there when a shutdown began and is there when the     *)
(* pool closes has had its whole time, whatever the database, the pool and  *)
(* the other requests did (main.go:141-148, router.go:47).                  *)
THEOREM ShutdownIsPatient == Spec => []NothingCutShort
<1>1. Init => IInv
  <2> SUFFICES ASSUME Init
               PROVE  IInv
    OBVIOUS
  <2> QED
    BY DEF Init, IInv, RequestsHaveAges, DrainOutlasts, NothingCutShort, Serving,
           Idle, Fields
<1>2. IInv /\ [Next]_vars => IInv'
  <2> SUFFICES ASSUME IInv, [Next]_vars
               PROVE  IInv'
    OBVIOUS
  <2>1. CASE UNCHANGED vars
    BY <2>1 DEF vars, IInv, RequestsHaveAges, DrainOutlasts, NothingCutShort, Serving
  <2> QED
    BY <2>1, HandlerStep, RequestBegins, TickStep, ProcessStep DEF Next
<1>3. IInv => NothingCutShort
  BY DEF IInv
<1> QED
  BY <1>1, <1>2, <1>3, PTL DEF Spec

-----------------------------------------------------------------------------
(* The pool.                                                               *)

(* Leaving a line in which nobody stands twice: the others keep their order. *)
LEMMA LeaveLine ==
  ASSUME NEW S, NEW line \in Seq(S), IsInjective(line), NEW r
  PROVE  LET rest == RemoveFirst(line, r)
         IN  /\ rest \in Seq(S) /\ IsInjective(rest)
             /\ \A i \in 1..Len(rest) :
                  rest[i] # r /\ \E j \in 1..Len(line) : rest[i] = line[j]
             /\ line = << >> => rest = << >>
<1> DEFINE rest == RemoveFirst(line, r)
<1>1. Len(line) \in Nat /\ DOMAIN line = 1..Len(line)
      /\ \A i \in 1..Len(line) : line[i] \in S
  BY LenProperties
<1>2. CASE \A i \in 1..Len(line) : line[i] # r
  <2>1. rest = line
    BY <1>2 DEF RemoveFirst
  <2> QED
    BY <1>1, <1>2, <2>1
<1>3. ASSUME NEW k \in 1..Len(line), line[k] = r
      PROVE  /\ rest \in Seq(S) /\ IsInjective(rest)
             /\ \A i \in 1..Len(rest) :
                  rest[i] # r /\ \E j \in 1..Len(line) : rest[i] = line[j]
             /\ line # << >>
  <2> DEFINE I == {i \in 1..Len(line) : line[i] = r}
             before == SubSeq(line, 1, k - 1)
             behind == SubSeq(line, k + 1, Len(line))
  <2>1. I = {k}
    BY <1>1, <1>3 DEF IsInjective
  <2>2. Min(I) = k
    BY <1>1, <2>1 DEF Min
  <2>3. rest = before \o behind
    BY <1>3, <2>1, <2>2 DEF RemoveFirst, SelectInSeq, RemoveAt
  <2>4. /\ before \in Seq(S) /\ Len(before) = k - 1
        /\ \A i \in 1..(k - 1) : before[i] = line[i]
    BY <1>1, SubSeqProperties
  <2>5. /\ behind \in Seq(S) /\ Len(behind) = Len(line) - k
        /\ \A i \in 1..(Len(line) - k) : behind[i] = line[k + i]
    <3> DEFINE m == k + 1
               n == Len(line)
    <3>1. m \in Int /\ n \in Int /\ \A i \in m..n : line[i] \in S
      BY <1>1
    <3>2. /\ SubSeq(line, m, n) \in Seq(S)
          /\ Len(SubSeq(line, m, n)) = IF m <= n THEN n - m + 1 ELSE 0
          /\ \A i \in 1..(n - m + 1) : SubSeq(line, m, n)[i] = line[m + i - 1]
      <4> HIDE DEF m, n
      <4> QED
        BY <3>1, SubSeqProperties
    <3>3. Len(behind) = n - k
      <4>1. n \in Nat /\ k \in 1..n /\ m = k + 1
        BY <1>1
      <4>2. behind = SubSeq(line, m, n)
        OBVIOUS
      <4> HIDE DEF m, n, behind
      <4> QED
        BY <3>2, <4>1, <4>2
    <3>4. ASSUME NEW i \in 1..(Len(line) - k)
          PROVE  behind[i] = line[k + i]
      <4>1. i \in 1..(n - m + 1) /\ m + i - 1 = k + i
        BY <1>1
      <4>2. behind[i] = line[m + i - 1]
        BY <3>2, <4>1
      <4> QED
        BY <4>1, <4>2
    <3> QED
      BY <3>2, <3>3, <3>4
  <2> HIDE DEF before, behind, rest
  <2>6. /\ rest \in Seq(S) /\ Len(rest) = Len(line) - 1
        /\ \A i \in 1..(Len(line) - 1) :
             rest[i] = IF i < k THEN line[i] ELSE line[i + 1]
    <3>1. /\ rest \in Seq(S) /\ Len(rest) = Len(before) + Len(behind)
          /\ \A i \in 1..(Len(before) + Len(behind)) :
               rest[i] = IF i <= Len(before) THEN before[i] ELSE behind[i - Len(before)]
      BY <2>3, <2>4, <2>5, ConcatProperties
    <3>2. ASSUME NEW i \in 1..(Len(line) - 1)
          PROVE  rest[i] = IF i < k THEN line[i] ELSE line[i + 1]
      <4> DEFINE b == Len(before)
                 l == Len(behind)
      <4>3. b = k - 1 /\ l = Len(line) - k /\ i \in 1..(b + l)
        BY <1>1, <2>4, <2>5
      <4>4. rest[i] = IF i <= b THEN before[i] ELSE behind[i - b]
        BY <3>1, <4>3
      <4> HIDE DEF b, l
      <4>1. CASE i < k
        BY <1>1, <2>4, <4>1, <4>3, <4>4
      <4>2. CASE ~ (i < k)
        <5>1. rest[i] = behind[i - (k - 1)]
          BY <1>1, <4>2, <4>3, <4>4
        <5>2. i - (k - 1) \in 1..(Len(line) - k) /\ k + (i - (k - 1)) = i + 1
          BY <1>1, <4>2
        <5> QED
          BY <2>5, <4>2, <5>1, <5>2
      <4> QED
        BY <4>1, <4>2
    <3> QED
      BY <1>1, <2>4, <2>5, <3>1, <3>2
  <2>7. DOMAIN rest = 1..Len(rest)
    BY <2>6, LenProperties
  <2>8. ASSUME NEW i \in 1..Len(rest)
        PROVE  rest[i] = line[IF i < k THEN i ELSE i + 1] /\ i \in 1..(Len(line) - 1)
    BY <1>1, <2>6
  <2>9. ASSUME NEW i \in 1..Len(rest)
        PROVE  rest[i] # r /\ \E j \in 1..Len(line) : rest[i] = line[j]
    BY <1>1, <1>3, <2>8 DEF IsInjective
  <2>10. IsInjective(rest)
    BY <1>1, <2>7, <2>8 DEF IsInjective
  <2> QED
    BY <1>1, <1>3, <2>6, <2>9, <2>10
<1> QED
  BY <1>2, <1>3

-----------------------------------------------------------------------------
(* Between "acquire" and the "last" statement that follows it a handler has *)
(* a connection, and at the next "acquire" it has none.                     *)
Bracketed(s) ==
  \A n \in 1..Len(s) :
    /\ s[n] \in {"acquire", "run"} => n < Len(s) /\ s[n + 1] \in {"run", "last"}
    /\ s[n] = "last" => n = Len(s) \/ s[n + 1] = "acquire"

Asks(h) == h.todo # << >> /\ Head(h.todo) = "acquire"
Runs(h) == h.todo # << >> /\ Head(h.todo) # "acquire"

(* What a handler has follows from what it has still to do. *)
Sound(h) ==
  /\ h \in Handler
  /\ Bracketed(h.todo)
  /\ Runs(h) => h.held = 1
  /\ ~ Runs(h) => h.held = 0
  /\ h.phase # "serving" => h.todo = << >>

HoldersOf(handlers) == {r \in Requests : handlers[r].held > 0}

(* The pool with n connections that are on their way back to it. *)
Pool(n, available, line, handlers) ==
  /\ handlers \in [Requests -> Handler] /\ \A r \in Requests : Sound(handlers[r])
  /\ line \in Seq(Requests) /\ IsInjective(line)
  /\ \A i \in 1..Len(line) : Asks(handlers[line[i]])
  /\ n \in 0..1 /\ available \in Nat
  /\ IsFiniteSet(HoldersOf(handlers))
  /\ available + n + Cardinality(HoldersOf(handlers)) = MaxConns
  /\ line # << >> => available = 0

ProcessTypes ==
  /\ mode \in {"down", "up", "draining", "closing"}
  /\ drain \in 0..DrainLimit
  /\ database \in {"up", "hung"}

PoolInv == ProcessTypes /\ Pool(0, free, queue, req)

-----------------------------------------------------------------------------
(* A handler that has done its first statement. *)
LEMMA TailBracketed ==
  ASSUME NEW s \in Seq(Statement), s # << >>, Bracketed(s)
  PROVE  /\ Tail(s) \in Seq(Statement) /\ Bracketed(Tail(s))
         /\ Head(s) \in {"acquire", "run"} =>
              Tail(s) # << >> /\ Head(Tail(s)) # "acquire"
         /\ Head(s) = "last" => Tail(s) = << >> \/ Head(Tail(s)) = "acquire"
<1> DEFINE t == Tail(s)
<1>1. /\ Len(s) \in Nat \ {0} /\ t \in Seq(Statement) /\ Len(t) = Len(s) - 1
      /\ \A i \in 1..Len(t) : t[i] = s[i + 1]
  BY HeadTailProperties, EmptySeq
<1> HIDE DEF t
<1>2. /\ Head(s) = s[1] /\ Head(t) = t[1]
      /\ t = << >> <=> Len(t) = 0
  <2>1. t # << >> => Len(t) \in Nat \ {0}
    BY <1>1, EmptySeq
  <2>2. t = << >> => Len(t) = 0
    BY EmptySeq
  <2>3. Head(s) = s[1] /\ Head(t) = t[1]
    BY <1>1
  <2> QED
    BY <2>1, <2>2, <2>3
<1>3. Bracketed(t)
  BY <1>1 DEF Bracketed
<1>4. Head(s) \in {"acquire", "run"} => t # << >> /\ Head(t) # "acquire"
  BY <1>1, <1>2 DEF Bracketed
<1>5. Head(s) = "last" => t = << >> \/ Head(t) = "acquire"
  BY <1>1, <1>2 DEF Bracketed
<1> QED
  BY <1>1, <1>3, <1>4, <1>5 DEF t

(* The next state of the todo and the connection of a sound handler. *)
LEMMA HandlerMoves ==
  ASSUME NEW h, Sound(h), h.todo # << >>, NEW k \in Nat
  PROVE  LET after == [h EXCEPT !.held = k, !.todo = Tail(@)]
         IN  /\ after \in Handler /\ after.held = k /\ after.todo = Tail(h.todo)
             /\ Asks(h) /\ k = 1 => Sound(after)
             /\ Head(h.todo) = "run" /\ k = 1 => Sound(after)
             /\ Head(h.todo) = "last" /\ k = 0 => Sound(after)
<1> DEFINE after == [h EXCEPT !.held = k, !.todo = Tail(@)]
<1>1. h \in Handler /\ h.todo \in Seq(Statement) /\ h.phase = "serving"
  BY DEF Sound, Handler
<1>2. /\ Tail(h.todo) \in Seq(Statement) /\ Bracketed(Tail(h.todo))
      /\ Head(h.todo) \in {"acquire", "run"} =>
           Tail(h.todo) # << >> /\ Head(Tail(h.todo)) # "acquire"
      /\ Head(h.todo) = "last" =>
           Tail(h.todo) = << >> \/ Head(Tail(h.todo)) = "acquire"
  BY <1>1, TailBracketed DEF Sound
<1>3. /\ after \in Handler
      /\ after.held = k /\ after.todo = Tail(h.todo) /\ after.phase = h.phase
  BY <1>1, <1>2 DEF Handler
<1> HIDE DEF after
<1> QED
  BY <1>1, <1>2, <1>3 DEF Sound, Asks, Runs, after

-----------------------------------------------------------------------------
(* Steps of the pool.                                                      *)

LEMMA PoolFacts ==
  ASSUME NEW n, NEW a, NEW line, NEW handlers, Pool(n, a, line, handlers)
  PROVE  /\ Len(line) \in Nat /\ DOMAIN line = 1..Len(line)
         /\ \A i \in 1..Len(line) : line[i] \in Requests
         /\ Cardinality(HoldersOf(handlers)) \in Nat
         /\ line # << >> <=> Len(line) > 0
<1>1. Len(line) \in Nat /\ DOMAIN line = 1..Len(line)
      /\ \A i \in 1..Len(line) : line[i] \in Requests
  BY LenProperties DEF Pool
<1>2. line # << >> => Len(line) \in Nat \ {0}
  BY EmptySeq DEF Pool
<1>3. line = << >> => Len(line) = 0
  BY EmptySeq
<1>4. Cardinality(HoldersOf(handlers)) \in Nat
  BY FS_CardinalityType DEF Pool
<1> QED
  BY <1>1, <1>2, <1>3, <1>4

LEMMA SoundFunction ==
  ASSUME NEW f, f = [r \in Requests |-> f[r]], \A r \in Requests : Sound(f[r])
  PROVE  f \in [Requests -> Handler]
BY DEF Sound

(* A request outside the line gives up at most the connection it has. *)
LEMMA Releases ==
  ASSUME NEW a, NEW line, NEW handlers, Pool(0, a, line, handlers),
         NEW r \in Requests, \A i \in 1..Len(line) : line[i] # r,
         NEW h, Sound(h), h.held <= handlers[r].held
  PROVE  Pool(handlers[r].held - h.held, a, line, [handlers EXCEPT ![r] = h])
<1> DEFINE after == [handlers EXCEPT ![r] = h]
           before == HoldersOf(handlers)
<1>1. /\ Sound(handlers[r])
      /\ \A x \in Requests : handlers[x].held \in 0..1
      /\ h.held \in 0..1 /\ handlers[r].held \in 0..1
  BY DEF Pool, Sound
<1>2. /\ after = [x \in Requests |-> after[x]] /\ after[r] = h
      /\ \A x \in Requests \ {r} : after[x] = handlers[x]
  BY DEF Pool
<1> HIDE DEF after
<1>3. HoldersOf(after) = IF h.held < handlers[r].held THEN before \ {r} ELSE before
  BY <1>1, <1>2 DEF HoldersOf
<1>4. /\ IsFiniteSet(before \ {r})
      /\ r \in before => Cardinality(before \ {r}) = Cardinality(before) - 1
  BY FS_RemoveElement DEF Pool
<1>5. r \in before <=> handlers[r].held = 1
  BY <1>1 DEF HoldersOf
<1>6. /\ IsFiniteSet(HoldersOf(after))
      /\ a + (handlers[r].held - h.held) + Cardinality(HoldersOf(after)) = MaxConns
  <2> DEFINE cb == Cardinality(before)
             ca == Cardinality(before \ {r})
  <2>1. cb \in Nat /\ a \in Nat /\ a + cb = MaxConns /\ IsFiniteSet(before)
    <3>1. cb \in Nat
      BY PoolFacts
    <3>2. a \in Nat /\ IsFiniteSet(before) /\ a + 0 + cb = MaxConns
      BY DEF Pool
    <3> HIDE DEF cb
    <3> QED
      BY <3>1, <3>2
  <2> HIDE DEF before
  <2>2. CASE h.held < handlers[r].held
    BY <1>1, <1>3, <1>4, <1>5, <2>1, <2>2
  <2>3. CASE ~ (h.held < handlers[r].held)
    BY <1>1, <1>3, <2>1, <2>3
  <2> QED
    BY <2>2, <2>3
<1>7. \A i \in 1..Len(line) : Asks(after[line[i]])
  BY <1>2, PoolFacts DEF Pool
<1>8. \A x \in Requests : Sound(after[x])
  BY <1>2 DEF Pool
<1>9. after \in [Requests -> Handler]
  BY <1>2, <1>8, SoundFunction
<1> QED
  BY <1>1, <1>6, <1>7, <1>8, <1>9 DEF Pool, after

(* A connection comes back: to the first in line, if there is a line. *)
LEMMA Returns ==
  ASSUME NEW n, NEW line, NEW handlers, Pool(n, free, line, handlers),
         Give(n, line, handlers)
  PROVE  Pool(0, free, queue, req)'
<1> DEFINE served == IF n < Len(line) THEN n ELSE Len(line)
           taken(h) == [h EXCEPT !.held = @ + 1, !.todo = Tail(@)]
<1>1. /\ Len(line) \in Nat /\ DOMAIN line = 1..Len(line)
      /\ \A i \in 1..Len(line) : line[i] \in Requests
      /\ line # << >> <=> Len(line) > 0
      /\ Cardinality(HoldersOf(handlers)) \in Nat
      /\ n \in 0..1 /\ free \in Nat
  BY PoolFacts DEF Pool
<1>2. /\ free' = free + n - served
      /\ queue' = SubSeq(line, served + 1, Len(line))
      /\ req' = [r \in Requests |-> req'[r]]
      /\ \A r \in Requests :
           req'[r] = IF \E k \in 1..served : line[k] = r
                     THEN taken(handlers[r]) ELSE handlers[r]
  BY DEF Give
<1> HIDE DEF taken
<1>3. CASE n = 0 \/ line = << >>
  <2>1. served = 0
    BY <1>1, <1>3
  <2>2. queue' = line
    <3>1. SubSeq(line, 1, Len(line)) = line
      BY SubSeqFull DEF Pool
    <3>2. served + 1 = 1
      BY <2>1
    <3> HIDE DEF served
    <3> QED
      BY <1>2, <3>1, <3>2
  <2>3. \A r \in Requests : req'[r] = handlers[r]
    <3> HIDE DEF served
    <3>1. 1..served = {}
      BY <2>1
    <3> QED
      BY <1>2, <3>1
  <2>4. HoldersOf(req') = HoldersOf(handlers) /\ free' = free + n
    BY <1>1, <1>2, <2>1, <2>3 DEF HoldersOf
  <2>5. free' \in Nat /\ free' + 0 + Cardinality(HoldersOf(req')) = MaxConns
    <3> DEFINE c == Cardinality(HoldersOf(handlers))
    <3>1. free + n + c = MaxConns
      BY DEF Pool
    <3> HIDE DEF c
    <3> QED
      BY <1>1, <2>4, <3>1 DEF c
  <2>6. line # << >> => free' = 0
    BY <1>1, <1>3, <2>4 DEF Pool
  <2>7. Pool(0, free', queue', req')
    <3>1. req' \in [Requests -> Handler] /\ \A r \in Requests : Sound(req'[r])
      BY <1>2, <2>3, SoundFunction DEF Pool
    <3>2. /\ queue' \in Seq(Requests) /\ IsInjective(queue')
          /\ \A i \in 1..Len(queue') : Asks(req'[queue'[i]])
      BY <1>1, <2>2, <2>3 DEF Pool
    <3>3. IsFiniteSet(HoldersOf(req'))
      BY <2>4 DEF Pool
    <3> QED
      BY <2>2, <2>5, <2>6, <3>1, <3>2, <3>3 DEF Pool
  <2> QED
    BY <2>7 DEF Pool, HoldersOf
<1>4. CASE n = 1 /\ line # << >>
  <2> DEFINE first == line[1]
  <2>1. served = 1 /\ first \in Requests /\ free = 0 /\ Asks(handlers[first])
        /\ Sound(handlers[first])
    BY <1>1, <1>4 DEF Pool
  <2>2. /\ free' = 0 /\ queue' = SubSeq(line, 2, Len(line))
        /\ req'[first] = taken(handlers[first])
        /\ \A r \in Requests \ {first} : req'[r] = handlers[r]
    <3> HIDE DEF served
    <3>1. 1..served = {1}
      BY <2>1
    <3> QED
      BY <1>1, <1>2, <1>4, <2>1, <3>1
  <2>3. handlers[first].held = 0 /\ handlers[first].todo # << >>
    BY <2>1 DEF Sound, Asks, Runs
  <2>4. Sound(req'[first]) /\ req'[first].held = 1
    <3> DEFINE h == handlers[first]
               after == [h EXCEPT !.held = 1, !.todo = Tail(@)]
    <3>1. req'[first] = after
      BY <2>2, <2>3 DEF taken
    <3>2. after.held = 1 /\ Sound(after)
      <4> HIDE DEF h
      <4>1. Sound(h) /\ Asks(h) /\ h.todo # << >>
        BY <2>1, <2>3 DEF h
      <4> QED
        BY <4>1, HandlerMoves
    <3> HIDE DEF after
    <3> QED
      BY <3>1, <3>2
  <2>5. HoldersOf(req') = HoldersOf(handlers) \cup {first} /\ first \notin HoldersOf(handlers)
    BY <2>1, <2>2, <2>3, <2>4 DEF HoldersOf
  <2>6. /\ IsFiniteSet(HoldersOf(req'))
        /\ Cardinality(HoldersOf(req')) = Cardinality(HoldersOf(handlers)) + 1
    <3> DEFINE before == HoldersOf(handlers)
    <3>1. IsFiniteSet(before)
      BY DEF Pool
    <3> HIDE DEF before
    <3>2. /\ IsFiniteSet(before \cup {first})
          /\ first \notin before =>
               Cardinality(before \cup {first}) = Cardinality(before) + 1
      BY <3>1, FS_AddElement
    <3> QED
      BY <2>5, <3>2 DEF before
  <2>7. free' + 0 + Cardinality(HoldersOf(req')) = MaxConns
    <3> DEFINE c == Cardinality(HoldersOf(handlers))
    <3>1. free + n + c = MaxConns
      BY DEF Pool
    <3>2. Cardinality(HoldersOf(req')) = c + 1 /\ c \in Nat
      BY <1>1, <2>6
    <3> HIDE DEF c
    <3> QED
      BY <1>4, <2>1, <2>2, <3>1, <3>2
  <2>8. /\ queue' \in Seq(Requests) /\ DOMAIN queue' = 1..Len(queue')
        /\ \A i \in 1..Len(queue') : i + 1 \in 1..Len(line) /\ queue'[i] = line[i + 1]
    <3>1. Tail(line) = queue'
      BY <1>4, <2>2, TailIsSubSeq DEF Pool
    <3>2. /\ Tail(line) \in Seq(Requests) /\ Len(Tail(line)) = Len(line) - 1
          /\ \A i \in 1..Len(Tail(line)) : Tail(line)[i] = line[i + 1]
      BY <1>4, HeadTailProperties DEF Pool
    <3>3. DOMAIN queue' = 1..Len(queue')
      BY <3>1, <3>2, LenProperties
    <3> QED
      BY <1>1, <3>1, <3>2, <3>3
  <2>9. IsInjective(queue')
    <3> SUFFICES ASSUME NEW i \in 1..Len(queue'), NEW j \in 1..Len(queue'),
                        queue'[i] = queue'[j]
                 PROVE  i = j
      BY <2>8 DEF IsInjective
    <3>1. line[i + 1] = line[j + 1] /\ i + 1 \in 1..Len(line) /\ j + 1 \in 1..Len(line)
      BY <2>8
    <3>2. i + 1 = j + 1
      BY <1>1, <3>1 DEF Pool, IsInjective
    <3> QED
      BY <3>2
  <2>10. \A i \in 1..Len(queue') : Asks(req'[queue'[i]])
    <3> SUFFICES ASSUME NEW i \in 1..Len(queue')
                 PROVE  Asks(req'[queue'[i]])
      OBVIOUS
    <3>1. queue'[i] = line[i + 1] /\ i + 1 \in 1..Len(line) /\ 1 \in 1..Len(line) /\ i + 1 # 1
      BY <1>1, <2>8
    <3>2. line[i + 1] # first
      BY <1>1, <3>1 DEF Pool, IsInjective
    <3>3. req'[line[i + 1]] = handlers[line[i + 1]]
      BY <1>1, <2>2, <3>1, <3>2
    <3> QED
      BY <3>1, <3>3 DEF Pool
  <2>11. \A r \in Requests : Sound(req'[r])
    BY <2>2, <2>4 DEF Pool
  <2>12. Pool(0, free', queue', req')
    <3>1. free' \in Nat /\ 0 \in 0..1 /\ (queue' # << >> => free' = 0)
      BY <2>2
    <3>2. queue' \in Seq(Requests) /\ req' \in [Requests -> Handler]
      BY <1>2, <2>8, <2>11, SoundFunction
    <3> QED
      BY <2>6, <2>7, <2>9, <2>10, <2>11, <3>1, <3>2, Zenon DEF Pool
  <2> QED
    BY <2>12 DEF Pool, HoldersOf
<1> QED
  BY <1>1, <1>3, <1>4

LEMMA IdleSound == Sound(Idle) /\ Idle.held = 0 /\ Idle.todo = << >>
<1>1. Idle \in Handler /\ Idle.held = 0 /\ Idle.todo = << >> /\ Len(<< >>) = 0
  <2>1. << >> \in Seq(Statement) /\ Len(<< >>) = 0
    BY EmptySeq
  <2> QED
    BY <2>1 DEF Idle, Handler
<1>2. Bracketed(<< >>)
  BY <1>1 DEF Bracketed
<1> QED
  BY <1>1, <1>2 DEF Sound, Runs

(* A handler that returns leaves the line and gives back what it has. *)
LEMMA Ends ==
  ASSUME Pool(0, free, queue, req), NEW r \in Requests, End(r)
  PROVE  Pool(0, free, queue, req)'
<1> DEFINE line == RemoveFirst(queue, r)
<1>1. /\ line \in Seq(Requests) /\ IsInjective(line)
      /\ \A i \in 1..Len(line) :
           line[i] # r /\ \E j \in 1..Len(queue) : line[i] = queue[j]
      /\ queue = << >> => line = << >>
  BY LeaveLine DEF Pool
<1> HIDE DEF line
<1>2. Pool(0, free, line, req)
  BY <1>1 DEF Pool
<1>3. Pool(req[r].held - Idle.held, free, line, [req EXCEPT ![r] = Idle])
  <2>1. Idle.held <= req[r].held
    BY IdleSound DEF Pool, Sound
  <2> QED
    BY <1>1, <1>2, <2>1, IdleSound, Releases
<1>4. req[r].held - Idle.held = req[r].held
  BY IdleSound DEF Pool, Sound
<1> QED
  BY <1>3, <1>4, Returns DEF End, line

LEMMA PoolUnchanged ==
  ASSUME Pool(0, free, queue, req), UNCHANGED <<free, queue, req>>
  PROVE  Pool(0, free, queue, req)'
BY DEF Pool, HoldersOf

(* A request that waits asks for a connection and has none. *)
LEMMA NobodyWaits ==
  ASSUME Pool(0, free, queue, req), NEW r \in Requests, ~ Asks(req[r])
  PROVE  \A i \in 1..Len(queue) : queue[i] # r
BY DEF Pool

LEMMA PoolAcquire ==
  ASSUME Pool(0, free, queue, req), NEW r \in Requests, Acquire(r)
  PROVE  Pool(0, free, queue, req)'
<1> DEFINE h == req[r]
           after == [h EXCEPT !.held = 1, !.todo = Tail(@)]
<1>1. Sound(h) /\ Asks(h) /\ ~ Runs(h) /\ h.held = 0 /\ h.todo # << >>
  BY DEF Acquire, Next1, Pool, Sound, Asks, Runs
<1>2. /\ Len(queue) \in Nat /\ DOMAIN queue = 1..Len(queue)
      /\ \A i \in 1..Len(queue) : queue[i] \in Requests
      /\ queue # << >> <=> Len(queue) > 0
      /\ Cardinality(HoldersOf(req)) \in Nat /\ free \in Nat
  BY PoolFacts DEF Pool
<1>3. CASE mode = "closing"
  BY <1>3, Ends DEF Acquire
<1>4. CASE mode # "closing" /\ free > 0
  <2>1. /\ req' = [req EXCEPT ![r].held = @ + 1, ![r].todo = Tail(@)]
        /\ free' = free - 1 /\ UNCHANGED queue
    BY <1>4 DEF Acquire
  <2>2. queue = << >> /\ Len(queue) = 0
    BY <1>2, <1>4 DEF Pool
  <2>3. /\ req' = [x \in Requests |-> req'[x]] /\ req'[r] = after
        /\ \A x \in Requests \ {r} : req'[x] = req[x]
    <3>1. req \in [Requests -> Handler] /\ req[r].held + 1 = 1
      BY <1>1 DEF Pool
    <3>2. req'[r] = after /\ \A x \in Requests \ {r} : req'[x] = req[x]
      BY <2>1, <3>1
    <3> HIDE DEF after
    <3>3. req' = [x \in Requests |-> req'[x]]
      BY <2>1, <3>1
    <3> QED
      BY <3>2, <3>3
  <2>4. Sound(after) /\ after.held = 1
    <3> HIDE DEF h
    <3> QED
      BY <1>1, HandlerMoves
  <2> HIDE DEF after, h
  <2>5. HoldersOf(req') = HoldersOf(req) \cup {r} /\ r \notin HoldersOf(req)
    BY <1>1, <2>3, <2>4 DEF HoldersOf, h
  <2>6. /\ IsFiniteSet(HoldersOf(req'))
        /\ Cardinality(HoldersOf(req')) = Cardinality(HoldersOf(req)) + 1
    <3>1. IsFiniteSet(HoldersOf(req))
      BY DEF Pool
    <3> QED
      BY <2>5, <3>1, FS_AddElement
  <2>7. free' \in Nat /\ free' + 0 + Cardinality(HoldersOf(req')) = MaxConns
    <3> DEFINE c == Cardinality(HoldersOf(req))
    <3>1. free + 0 + c = MaxConns
      BY DEF Pool
    <3> HIDE DEF c
    <3> QED
      BY <1>2, <1>4, <2>1, <2>6, <3>1 DEF c
  <2>8. \A x \in Requests : Sound(req'[x])
    BY <2>3, <2>4 DEF Pool
  <2>9. Pool(0, free', queue', req')
    <3>1. req' \in [Requests -> Handler]
      BY <2>3, <2>8, SoundFunction
    <3> QED
      BY <2>1, <2>2, <2>6, <2>7, <2>8, <3>1 DEF Pool
  <2> QED
    BY <2>9 DEF Pool, HoldersOf
<1>5. CASE mode # "closing" /\ ~ (free > 0)
  <2>1. queue' = Append(queue, r) /\ UNCHANGED <<free, req>>
    BY <1>5 DEF Acquire
  <2>2. /\ queue' \in Seq(Requests) /\ Len(queue') = Len(queue) + 1
        /\ \A i \in 1..Len(queue) : queue'[i] = queue[i]
        /\ queue'[Len(queue) + 1] = r
    BY <2>1, AppendProperties DEF Pool
  <2>3. \A i \in 1..Len(queue) : queue[i] # r
    BY DEF Acquire, Waiting, Contains
  <2>4. DOMAIN queue' = 1..Len(queue')
    BY <2>2, LenProperties
  <2>5. \A i \in 1..Len(queue') : i \in 1..Len(queue) \/ i = Len(queue) + 1
    BY <1>2, <2>2
  <2>6. IsInjective(queue')
    BY <1>2, <2>2, <2>3, <2>4, <2>5 DEF Pool, IsInjective
  <2>7. \A i \in 1..Len(queue') : Asks(req[queue'[i]])
    BY <1>1, <2>2, <2>5 DEF Pool
  <2>8. free = 0
    BY <1>2, <1>5
  <2>9. Pool(0, free, queue', req)
    BY <2>2, <2>6, <2>7, <2>8 DEF Pool
  <2> QED
    BY <2>1, <2>9 DEF Pool, HoldersOf
<1> QED
  BY <1>3, <1>4, <1>5

LEMMA PoolRun ==
  ASSUME Pool(0, free, queue, req), NEW r \in Requests, Run(r)
  PROVE  Pool(0, free, queue, req)'
<1> DEFINE h == req[r]
           after(k) == [h EXCEPT !.held = k, !.todo = Tail(@)]
           stepped == [req EXCEPT ![r].todo = Tail(@)]
           released == [stepped EXCEPT ![r].held = @ - 1]
<1>1. /\ Sound(h) /\ ~ Asks(h) /\ Runs(h) /\ h.held = 1 /\ h.todo # << >>
      /\ h \in Handler /\ DOMAIN req = Requests
  BY DEF Run, Next1, Pool, Sound, Asks, Runs
<1>2. \A i \in 1..Len(queue) : queue[i] # r
  BY <1>1, NobodyWaits
<1>3. CASE Next1(r) = "run"
  <2>1. req' = stepped /\ UNCHANGED <<free, queue>>
    BY <1>3 DEF Run
  <2>2. stepped = [req EXCEPT ![r] = after(1)]
    BY <1>1 DEF Handler
  <2>3. Sound(after(1)) /\ after(1).held = 1
    <3> HIDE DEF h
    <3>1. Head(h.todo) = "run"
      BY <1>1, <1>3 DEF Next1, h
    <3> QED
      BY <1>1, <3>1, HandlerMoves
  <2> HIDE DEF after, stepped
  <2>4. Pool(req[r].held - after(1).held, free, queue, [req EXCEPT ![r] = after(1)])
    <3>1. after(1).held <= req[r].held
      BY <1>1, <2>3
    <3> QED
      BY <1>2, <2>3, <3>1, Releases
  <2>5. Pool(0, free, queue, stepped)
    BY <1>1, <2>2, <2>3, <2>4
  <2> QED
    BY <2>1, <2>5 DEF Pool, HoldersOf
<1>4. CASE Next1(r) = "last"
  <2>1. Give(1, queue, released)
    BY <1>4 DEF Run
  <2>2. released = [req EXCEPT ![r] = after(0)]
    <3> DEFINE moved == [h EXCEPT !.todo = Tail(@)]
    <3>1. stepped = [req EXCEPT ![r] = moved]
      OBVIOUS
    <3>2. moved.held - 1 = 0
      BY <1>1 DEF Handler
    <3>3. [moved EXCEPT !.held = 0] = after(0)
      BY <1>1 DEF Handler
    <3>4. stepped[r] = moved /\ stepped[r].held - 1 = 0
      BY <1>1, <3>1, <3>2
    <3> HIDE DEF moved, stepped
    <3>5. released = [stepped EXCEPT ![r] = [moved EXCEPT !.held = 0]]
      BY <3>4
    <3> QED
      BY <3>1, <3>3, <3>5
  <2>3. Sound(after(0)) /\ after(0).held = 0
    <3> HIDE DEF h
    <3>1. Head(h.todo) = "last"
      BY <1>1, <1>4 DEF Next1, h
    <3> QED
      BY <1>1, <3>1, HandlerMoves
  <2> HIDE DEF after, released
  <2>4. Pool(req[r].held - after(0).held, free, queue, [req EXCEPT ![r] = after(0)])
    <3>1. after(0).held <= req[r].held
      BY <1>1, <2>3
    <3> QED
      BY <1>2, <2>3, <3>1, Releases
  <2>5. Pool(1, free, queue, released)
    BY <1>1, <2>2, <2>3, <2>4
  <2> QED
    BY <2>1, <2>5, Returns
<1> QED
  BY <1>3, <1>4 DEF Run

-----------------------------------------------------------------------------
(* What a handler sets out to do is bracketed. *)
LEMMA ProgramBracketed ==
  ASSUME NEW e \in Endpoint
  PROVE  /\ Program(e) \in Seq(Statement) /\ Bracketed(Program(e))
         /\ Program(e) = << >> \/ Head(Program(e)) = "acquire"
<1>1. /\ Query \in Seq(Statement) /\ Len(Query) = 2
      /\ Query[1] = "acquire" /\ Query[2] = "last"
  BY DEF Query, Statement
<1>2. /\ Transaction \in Seq(Statement) /\ Len(Transaction) = 3
      /\ Transaction[1] = "acquire" /\ Transaction[2] = "run" /\ Transaction[3] = "last"
  BY DEF Transaction, Statement
<1>3. ASSUME NEW s \in Seq(Statement), Len(s) \in {2, 3}, s[1] = "acquire",
             Len(s) = 2 => s[2] = "last",
             Len(s) = 3 => s[2] = "run" /\ s[3] = "last"
      PROVE  /\ s # << >> /\ Head(s) = "acquire" /\ Bracketed(s)
             /\ Query \o s \in Seq(Statement) /\ Bracketed(Query \o s)
             /\ Query \o s # << >> /\ Head(Query \o s) = "acquire"
  <2>1. \A x \in Seq(Statement) : Len(x) > 0 => x # << >> /\ Head(x) = x[1]
    BY EmptySeq
  <2>2. Bracketed(s)
    BY <1>3 DEF Bracketed
  <2>3. /\ Query \o s \in Seq(Statement) /\ Len(Query \o s) = 2 + Len(s)
        /\ \A i \in 1..(2 + Len(s)) :
             (Query \o s)[i] = IF i <= 2 THEN Query[i] ELSE s[i - 2]
    <3>1. /\ Query \o s \in Seq(Statement) /\ Len(Query \o s) = Len(Query) + Len(s)
          /\ \A i \in 1..(Len(Query) + Len(s)) :
               (Query \o s)[i] = IF i <= Len(Query) THEN Query[i] ELSE s[i - Len(Query)]
      <4> HIDE DEF Query
      <4> QED
        BY <1>1, ConcatProperties
    <3> QED
      BY <1>1, <3>1
  <2> DEFINE t == Query \o s
  <2> HIDE DEF t
  <2>4. /\ Len(t) = 2 + Len(s) /\ t[1] = "acquire" /\ t[2] = "last" /\ t[3] = "acquire"
        /\ Len(s) = 2 => t[4] = "last"
        /\ Len(s) = 3 => t[4] = "run" /\ t[5] = "last"
    BY <1>1, <1>3, <2>3 DEF t
  <2>5. Bracketed(t)
    <3>1. CASE Len(s) = 2
      BY <2>4, <3>1 DEF Bracketed
    <3>2. CASE Len(s) = 3
      BY <2>4, <3>2 DEF Bracketed
    <3> QED
      BY <1>3, <3>1, <3>2
  <2>6. t # << >> /\ Head(t) = "acquire"
    BY <1>3, <2>1, <2>3, <2>4 DEF t
  <2> QED
    BY <1>3, <2>1, <2>2, <2>3, <2>5, <2>6 DEF t
<1>4. /\ Query # << >> /\ Head(Query) = "acquire" /\ Bracketed(Query)
      /\ Query \o Query \in Seq(Statement) /\ Bracketed(Query \o Query)
      /\ Head(Query \o Query) = "acquire"
  BY <1>1, <1>3
<1>5. << >> \in Seq(Statement) /\ Bracketed(<< >>)
  BY EmptySeq DEF Bracketed
<1> HIDE DEF Query, Transaction
<1>6. CASE e = "healthz"
  BY <1>5, <1>6 DEF Program
<1>7. CASE e = "logout"
  BY <1>1, <1>4, <1>7 DEF Program
<1>8. CASE e = "login"
  BY <1>4, <1>8 DEF Program
<1>9. CASE e = "refresh"
  BY <1>2, <1>3, <1>9 DEF Program
<1> QED
  BY <1>6, <1>7, <1>8, <1>9 DEF Endpoint

(* A request that has not begun, or begins now, is not in the line. *)
LEMMA PoolBegins ==
  ASSUME Pool(0, free, queue, req), NEW r \in Requests,
         Arrive(r) \/ Abandon(r) \/ \E e \in Endpoint : Accept(r, e)
  PROVE  Pool(0, free, queue, req)'
<1>1. /\ Sound(req[r]) /\ req[r].phase \in {"idle", "reading"} /\ req[r].todo = << >>
      /\ ~ Runs(req[r]) /\ ~ Asks(req[r]) /\ req[r].held = 0
      /\ UNCHANGED <<free, queue>>
  BY DEF Arrive, Abandon, Accept, Pool, Sound, Runs, Asks
<1>2. ASSUME NEW h, Sound(h), h.held = 0, req' = [req EXCEPT ![r] = h]
      PROVE  Pool(0, free, queue, req)'
  <2>1. h.held <= req[r].held /\ req[r].held - h.held = 0
    BY <1>1, <1>2
  <2>2. Pool(0, free, queue, [req EXCEPT ![r] = h])
    <3>1. \A i \in 1..Len(queue) : queue[i] # r
      BY <1>1, NobodyWaits
    <3>2. Pool(req[r].held - h.held, free, queue, [req EXCEPT ![r] = h])
      BY <1>2, <2>1, <3>1, Releases
    <3> QED
      BY <2>1, <3>2
  <2> QED
    BY <1>1, <1>2, <2>2 DEF Pool, HoldersOf
<1>3. CASE Arrive(r)
  <2> DEFINE h == [req[r] EXCEPT !.phase = "reading"]
  <2>1. /\ h \in Handler /\ h.held = 0 /\ h.todo = << >>
        /\ Bracketed(req[r].todo) /\ req' = [req EXCEPT ![r] = h]
    BY <1>1, <1>3 DEF Arrive, Sound, Handler
  <2> HIDE DEF h
  <2>2. Sound(h)
    BY <1>1, <2>1 DEF Sound, Runs
  <2> QED
    BY <1>2, <2>1, <2>2
<1>4. CASE Abandon(r)
  BY <1>2, <1>4, IdleSound DEF Abandon
<1>5. ASSUME NEW e \in Endpoint, Accept(r, e)
      PROVE  Pool(0, free, queue, req)'
  <2> DEFINE h(late) == [Idle EXCEPT !.phase = "serving", !.late = late,
                                    !.todo = Program(e)]
  <2>1. req' = [req EXCEPT ![r] = h(mode = "draining")]
    BY <1>5 DEF Accept
  <2>2. ASSUME NEW late \in BOOLEAN
        PROVE  h(late) \in Handler /\ h(late).held = 0 /\ h(late).todo = Program(e)
               /\ h(late).phase = "serving"
    BY IdleSound, ProgramBracketed DEF Sound, Handler, Idle
  <2> HIDE DEF h
  <2>3. \A late \in BOOLEAN : Sound(h(late)) /\ h(late).held = 0
    BY <2>2, ProgramBracketed DEF Sound, Runs
  <2>4. (mode = "draining") \in BOOLEAN
    OBVIOUS
  <2>5. Sound(h(mode = "draining")) /\ h(mode = "draining").held = 0
    BY <2>3, <2>4, Zenon
  <2> QED
    BY <1>2, <2>1, <2>5, Zenon
<1> QED
  BY <1>3, <1>4, <1>5

LEMMA PoolTick ==
  ASSUME Pool(0, free, queue, req), Tick
  PROVE  Pool(0, free, queue, req)'
<1>1. ASSUME NEW x \in Requests
      PROVE  /\ Sound(req'[x]) /\ req'[x].held = req[x].held
             /\ req'[x].todo = req[x].todo
  <2> DEFINE older == [req[x] EXCEPT !.age = @ + 1]
  <2>1. Sound(req[x]) /\ req[x] \in Handler
    BY DEF Pool, Sound
  <2>2. CASE Serving(x) /\ req[x].age < Limit
    <3>1. req'[x] = older
      BY <2>2 DEF Tick
    <3>2. /\ older \in Handler /\ older.held = req[x].held /\ older.todo = req[x].todo
          /\ older.phase = req[x].phase
      BY <2>1, <2>2 DEF Handler
    <3> HIDE DEF older
    <3> QED
      BY <2>1, <3>1, <3>2 DEF Sound, Runs
  <2>3. CASE ~ (Serving(x) /\ req[x].age < Limit)
    BY <2>1, <2>3 DEF Tick
  <2> QED
    BY <2>2, <2>3
<1>2. UNCHANGED <<free, queue>> /\ req' \in [Requests -> Handler]
  <2>1. req' = [x \in Requests |-> req'[x]]
    BY DEF Tick
  <2> QED
    BY <1>1, <2>1, SoundFunction DEF Tick
<1>3. HoldersOf(req') = HoldersOf(req)
  BY <1>1 DEF HoldersOf
<1>4. \A i \in 1..Len(queue) : Asks(req'[queue[i]])
  BY <1>1, PoolFacts DEF Pool, Asks
<1>5. Pool(0, free, queue, req')
  BY <1>1, <1>2, <1>3, <1>4 DEF Pool
<1> QED
  BY <1>2, <1>5 DEF Pool, HoldersOf

(* A pool at rest. *)
LEMMA PoolFresh ==
  ASSUME NEW handlers, handlers = [r \in Requests |-> Idle]
  PROVE  Pool(0, MaxConns, << >>, handlers)
<1>1. HoldersOf(handlers) = {}
  BY IdleSound DEF HoldersOf
<1>2. IsFiniteSet(HoldersOf(handlers)) /\ Cardinality(HoldersOf(handlers)) = 0
  BY <1>1, FS_EmptySet
<1>3. << >> \in Seq(Requests) /\ Len(<< >>) = 0 /\ IsInjective(<< >>)
  <2>1. << >> \in Seq(Requests) /\ Len(<< >>) = 0
    BY EmptySeq
  <2> QED
    BY <2>1, LenProperties DEF IsInjective
<1>4. MaxConns + 0 + 0 = MaxConns /\ MaxConns \in Nat /\ 0 \in 0..1
  OBVIOUS
<1>5. handlers \in [Requests -> Handler] /\ \A r \in Requests : Sound(handlers[r])
  BY IdleSound, SoundFunction
<1> QED
  BY <1>2, <1>3, <1>4, <1>5 DEF Pool

LEMMA PoolStep ==
  ASSUME PoolInv, [Next]_vars
  PROVE  PoolInv'
<1>1. Pool(0, free, queue, req) /\ ProcessTypes
  BY DEF PoolInv
<1>2. CASE Down \/ Exit \/ Crash
  <2>1. /\ mode' = "down" /\ drain' = 0 /\ database' = database
        /\ free' = MaxConns /\ queue' = << >> /\ req' = [r \in Requests |-> Idle]
    BY <1>2 DEF Down, Exit, Crash
  <2>2. Pool(0, free', queue', req')
    BY <2>1, PoolFresh
  <2>3. ProcessTypes'
    BY <1>1, <2>1 DEF ProcessTypes
  <2> QED
    BY <2>2, <2>3 DEF PoolInv, Pool, HoldersOf
<1>3. CASE Start \/ Shutdown \/ Drained \/ Outage \/ UNCHANGED vars
  <2>1. UNCHANGED <<free, queue, req>>
    BY <1>3 DEF Start, Shutdown, Drained, Outage, vars
  <2>2. ProcessTypes'
    BY <1>1, <1>3 DEF ProcessTypes, Start, Shutdown, Drained, Outage, vars
  <2> QED
    BY <1>1, <2>1, <2>2, PoolUnchanged DEF PoolInv
<1>4. CASE Tick
  <2>1. ProcessTypes'
    BY <1>1, <1>4 DEF ProcessTypes, Tick
  <2> QED
    BY <1>1, <1>4, <2>1, PoolTick DEF PoolInv
<1>5. ASSUME NEW r \in Requests,
             \/ Arrive(r) \/ Abandon(r) \/ \E e \in Endpoint : Accept(r, e)
             \/ Handle(r) \/ Fail(r)
      PROVE  PoolInv'
  <2>1. ProcessTypes'
    BY <1>1, <1>5 DEF ProcessTypes, Arrive, Abandon, Accept, Handle, Acquire, Run,
         Expire, Reply, Fail
  <2>2. CASE Arrive(r) \/ Abandon(r) \/ \E e \in Endpoint : Accept(r, e)
    BY <1>1, <2>1, <2>2, PoolBegins DEF PoolInv
  <2>3. CASE Handle(r) \/ Fail(r)
    <3>1. Acquire(r) \/ Run(r) \/ End(r)
      BY <2>3 DEF Handle, Fail, Expire, Reply
    <3> QED
      BY <1>1, <2>1, <3>1, PoolAcquire, PoolRun, Ends DEF PoolInv
  <2> QED
    BY <1>5, <2>2, <2>3
<1> QED
  BY <1>2, <1>3, <1>4, <1>5 DEF Next, Stop

LEMMA PoolInvariance == Spec => []PoolInv
<1>1. Init => PoolInv
  <2> SUFFICES ASSUME Init
               PROVE  PoolInv
    OBVIOUS
  <2>1. Pool(0, free, queue, req)
    BY PoolFresh DEF Init
  <2> QED
    BY <2>1 DEF Init, PoolInv, ProcessTypes
<1> QED
  BY <1>1, PoolStep, PTL DEF Spec

(* Every variable has its type; no request stands in the line twice and the *)
(* free connections are never more than the pool has (postgres.go:29).      *)
THEOREM ServerTypeCorrect == Spec => []TypeOK
<1>1. ASSUME PoolInv
      PROVE  TypeOK
  <2>1. Pool(0, free, queue, req) /\ ProcessTypes
    BY <1>1 DEF PoolInv
  <2>2. free \in 0..MaxConns
    <3> DEFINE c == Cardinality(HoldersOf(req))
    <3>1. c \in Nat /\ free \in Nat /\ free + 0 + c = MaxConns
      BY <2>1, PoolFacts DEF Pool
    <3> HIDE DEF c
    <3> QED
      BY <3>1
  <2> QED
    BY <2>1, <2>2 DEF TypeOK, Pool, ProcessTypes
<1> QED
  BY <1>1, PoolInvariance, PTL

(* Of the connections of the pool each is free or with exactly one handler, *)
(* and nobody waits while one is free, whichever way handlers end: with a   *)
(* statement, an error, the time limit or a connection that is cut          *)
(* (repo/postgres/sessions.go:56-81, router.go:47, main.go:141-151).        *)
THEOREM PoolIsWhole == Spec => []PoolWhole
<1>1. ASSUME PoolInv
      PROVE  PoolWhole
  <2>1. Pool(0, free, queue, req)
    BY <1>1 DEF PoolInv
  <2>2. Holders = HoldersOf(req)
    BY DEF Holders, HoldersOf
  <2>3. \A r \in Requests : req[r].held <= 1
    BY <2>1 DEF Pool, Sound
  <2>4. free + Cardinality(Holders) = MaxConns
    <3> DEFINE c == Cardinality(HoldersOf(req))
    <3>1. c \in Nat /\ free \in Nat /\ free + 0 + c = MaxConns
      BY <2>1, PoolFacts DEF Pool
    <3> HIDE DEF c
    <3>2. free + c = MaxConns
      BY <3>1
    <3> QED
      BY <2>2, <3>2 DEF c
  <2> QED
    BY <2>1, <2>3, <2>4 DEF PoolWhole, Pool
<1> QED
  BY <1>1, PoolInvariance, PTL

(* Handlers do not block one another over the pool, however small it is and *)
(* however many they are: the line is not empty only while every connection *)
(* is with a handler, and a handler that has one never asks for another     *)
(* (repo/postgres/sessions.go:56-81).                                       *)
THEOREM PoolNeverStuck == Spec => []WaitersHaveRunner
<1>1. ASSUME PoolInv, queue # << >>
      PROVE  \E r \in Requests : req[r].held > 0 /\ ~ Waiting(r)
  <2>1. Pool(0, free, queue, req) /\ free = 0
    BY <1>1 DEF PoolInv, Pool
  <2>2. HoldersOf(req) # {}
    <3> SUFFICES ASSUME HoldersOf(req) = {}
                 PROVE  FALSE
      OBVIOUS
    <3>1. Cardinality(HoldersOf(req)) = 0
      BY FS_EmptySet
    <3>2. free + 0 + Cardinality(HoldersOf(req)) = MaxConns
      BY <2>1 DEF Pool
    <3>3. 0 + 0 + 0 = MaxConns
      BY <2>1, <3>1, <3>2
    <3> QED
      BY <3>3
  <2>3. PICK r \in Requests : req[r].held > 0
    BY <2>2 DEF HoldersOf
  <2>4. ~ Asks(req[r])
    BY <2>1, <2>3 DEF Pool, Sound, Asks, Runs
  <2> QED
    BY <2>1, <2>3, <2>4, NobodyWaits DEF Waiting, Contains
<1> QED
  BY <1>1, PoolInvariance, PTL DEF WaitersHaveRunner

=============================================================================

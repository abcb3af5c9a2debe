---------------------------- MODULE DispatchProofs ----------------------------
(***************************************************************************)
(* Theorems about command dispatch, for any number of workers, boots and     *)
(* attempts and any number of crashes.                                       *)
(***************************************************************************)
EXTENDS CommandDispatch, TLAPS

\* The engine's part of the state, in memory or in the file: attempt identities in use
\* are below the next one.
EngineState ==
    {e \in [epoch : Nat, leases : [Workers -> Lease],
            attempts : UNION {[S -> Attempt] : S \in SUBSET AttemptIds}, next : Nat \ {0}] :
        \A a \in DOMAIN e.attempts : a < e.next}

\* The types of the variables no operation of the engine sets.
RestType ==
    /\ up \in BOOLEAN /\ crashes \in 0..MaxCrashes
    /\ phase \in {"serve", "dispatch", "save"}
    /\ dispatched \subseteq AttemptIds /\ effects \subseteq AttemptIds
    /\ sessions \in [Boots -> {"none", "open", "hello", "registered"}]
    /\ worker \in [Boots -> [state : {"off", "hello", "registering", "serving",
                                      "completing", "publishing", "dead"},
                             left : 0..Publications, resident : BOOLEAN]]
    /\ toWorker \in [Boots -> Seq(Frame)] /\ toCoord \in [Boots -> Seq(Frame)]
    /\ executions \in [AttemptIds -> Nat]

\* The typing part of the inductive invariant.
TypeInv ==
    /\ engine \in EngineState /\ durable \in EngineState
    /\ dirty \in BOOLEAN
    /\ acked \subseteq (AttemptIds \X {"begun", "settled"})
    /\ RestType

InFlight(e) ==
    \A a \in DOMAIN e.attempts :
        e.attempts[a].state = "Dispatched" => BootIsCurrent(e, e.attempts[a].boot)

\* What every operation of the engine but begin_attempt and the import respects: no
\* attempt appears, disappears, changes hands, returns to flight or leaves a settled
\* state, and an attempt in flight has a performer if it had one.
Continues(e, f) ==
    /\ f.next = e.next
    /\ DOMAIN f.attempts = DOMAIN e.attempts
    /\ \A a \in DOMAIN e.attempts :
        /\ f.attempts[a].boot = e.attempts[a].boot
        /\ f.attempts[a].idempotent = e.attempts[a].idempotent
        /\ f.attempts[a].state = "Dispatched" => e.attempts[a].state = "Dispatched"
        /\ Settled(e.attempts[a].state) => f.attempts[a].state = e.attempts[a].state
    /\ InFlight(e) => InFlight(f)

\* What every operation but complete_attempt and reconcile_attempt respects: no attempt
\* settles.
SettlesNothing(e, f) ==
    \A a \in DOMAIN f.attempts :
        Settled(f.attempts[a].state) =>
            /\ a \in DOMAIN e.attempts
            /\ f.attempts[a].state = e.attempts[a].state
            /\ f.attempts[a].idempotent = e.attempts[a].idempotent

------------------------------------------------------------------------------
(* What the operations of the engine do. *)

LEMMA AttemptsType ==
    ASSUME NEW e \in EngineState
    PROVE  /\ DOMAIN e.attempts \in SUBSET AttemptIds
           /\ e.attempts \in [DOMAIN e.attempts -> Attempt]
           /\ \A a \in DOMAIN e.attempts : /\ e.attempts[a] \in Attempt /\ a \in Nat
                                           /\ a < e.next /\ a # 0
           /\ e.leases \in [Workers -> Lease] /\ e.epoch \in Nat /\ e.next \in Nat \ {0}
  <1>1. PICK S \in SUBSET AttemptIds : e.attempts \in [S -> Attempt]  BY DEF EngineState
  <1>2. \A a \in AttemptIds : a \in Nat /\ a # 0
    BY DispatchBoundAssumption DEF AttemptIds
  <1> QED  BY <1>1, <1>2 DEF EngineState

\* A record with the four fields, built from what is known of each.
LEMMA MakeEngine ==
    ASSUME NEW n \in Nat, NEW ls \in [Workers -> Lease], NEW S \in SUBSET AttemptIds,
           NEW as \in [S -> Attempt], NEW k \in Nat \ {0}, \A a \in S : a < k,
           NEW e, e = [epoch |-> n, leases |-> ls, attempts |-> as, next |-> k]
    PROVE  e \in EngineState
  <1>1. as \in UNION {[T -> Attempt] : T \in SUBSET AttemptIds}  OBVIOUS
  <1>2. DOMAIN as = S  OBVIOUS
  <1> QED  BY <1>1, <1>2 DEF EngineState

LEMMA Whole ==
    ASSUME NEW e \in EngineState
    PROVE  e = [epoch |-> e.epoch, leases |-> e.leases, attempts |-> e.attempts,
                next |-> e.next]
  BY DEF EngineState

\* The updates the operations make, field by field.
LEMMA Updated ==
    ASSUME NEW e \in EngineState, NEW ls, NEW as, NEW f
    PROVE  /\ f = [e EXCEPT !.leases = ls, !.attempts = as] =>
                f = [epoch |-> e.epoch, leases |-> ls, attempts |-> as, next |-> e.next]
           /\ f = [e EXCEPT !.attempts = as] =>
                f = [epoch |-> e.epoch, leases |-> e.leases, attempts |-> as, next |-> e.next]
  BY DEF EngineState

LEMMA RegisteredKeeps ==
    ASSUME NEW e \in EngineState, NEW b \in Boots, RegistrationAllowed(e, b)
    PROVE  /\ Registered(e, b) \in EngineState /\ Continues(e, Registered(e, b))
           /\ SettlesNothing(e, Registered(e, b))
  <1> DEFINE ls == [e.leases EXCEPT ![WorkerOf[b]] = [boot |-> b, fenced |-> FALSE]]
             f == Registered(e, b)
  <1>1. f = [epoch |-> e.epoch, leases |-> ls, attempts |-> e.attempts, next |-> e.next]
    BY Whole DEF Registered
  <1>2. ls \in [Workers -> Lease]  BY AttemptsType, BootAssumption DEF Lease
  <1>3. f \in EngineState  
    <2> HIDE DEF ls, f
    <2> QED  BY <1>1, <1>2, AttemptsType, MakeEngine
  <1>4. f.attempts = e.attempts /\ f.next = e.next /\ f.leases = ls  BY <1>1
  <1>5. ASSUME InFlight(e), NEW a \in DOMAIN e.attempts, e.attempts[a].state = "Dispatched"
        PROVE  BootIsCurrent(f, e.attempts[a].boot)
    <2>1. BootIsCurrent(e, e.attempts[a].boot)  BY <1>5 DEF InFlight
    <2>2. e.attempts[a].boot \in Boots  BY AttemptsType DEF Attempt
    <2> HIDE DEF f
    <2>3. CASE WorkerOf[e.attempts[a].boot] = WorkerOf[b]
      BY <1>4, <2>1, <2>3, AttemptsType, BootAssumption DEF BootIsCurrent, RegistrationAllowed
    <2>4. CASE WorkerOf[e.attempts[a].boot] # WorkerOf[b]
      BY <1>4, <2>1, <2>2, <2>4, AttemptsType, BootAssumption DEF BootIsCurrent
    <2> QED  BY <2>3, <2>4
  <1>6. Continues(e, f)  BY <1>4, <1>5 DEF Continues, InFlight
  <1>7. SettlesNothing(e, f)  BY <1>4 DEF SettlesNothing
  <1> QED  BY <1>3, <1>6, <1>7

LEMMA FenceKeeps ==
    ASSUME NEW e \in EngineState, NEW b \in Boots
    PROVE  /\ Fence(e, b) \in EngineState /\ Continues(e, Fence(e, b))
           /\ SettlesNothing(e, Fence(e, b))
  <1> DEFINE ls == [e.leases EXCEPT ![WorkerOf[b]].fenced = TRUE]
             as == [a \in DOMAIN e.attempts |->
                        IF e.attempts[a].boot = b /\ e.attempts[a].state = "Dispatched"
                        THEN [e.attempts[a] EXCEPT !.state = "OutcomeUnknown"]
                        ELSE e.attempts[a]]
             f == Fence(e, b)
  <1>1. CASE ~BootIsCurrent(e, b)  BY <1>1 DEF Fence, Continues, SettlesNothing
  <1>2. CASE BootIsCurrent(e, b)
    <2>1. f = [epoch |-> e.epoch, leases |-> ls, attempts |-> as, next |-> e.next]
      <3>1. f = [e EXCEPT !.leases = ls, !.attempts = as]  BY <1>2 DEF Fence
      <3> HIDE DEF f, ls, as
      <3> QED  BY <3>1, Updated
    <2>2. ls \in [Workers -> Lease]
      <3>1. WorkerOf[b] \in Workers /\ e.leases \in [Workers -> Lease]
        BY AttemptsType, BootAssumption
      <3>2. [e.leases[WorkerOf[b]] EXCEPT !.fenced = TRUE] \in Lease  BY <3>1 DEF Lease
      <3> QED  BY <3>1, <3>2
    <2>3. as \in [DOMAIN e.attempts -> Attempt]
      BY AttemptsType DEF Attempt, AttemptState
    <2>4. f \in EngineState
      <3> HIDE DEF ls, as, f
      <3> QED  BY <2>1, <2>2, <2>3, AttemptsType, MakeEngine
    <2>5. f.attempts = as /\ f.next = e.next /\ f.leases = ls  BY <2>1
    <2>6. \A a \in DOMAIN e.attempts :
            /\ as[a].boot = e.attempts[a].boot
            /\ as[a].idempotent = e.attempts[a].idempotent
            /\ as[a].state = "Dispatched" =>
                    e.attempts[a].state = "Dispatched" /\ e.attempts[a].boot # b
            /\ Settled(e.attempts[a].state) => as[a].state = e.attempts[a].state
            /\ Settled(as[a].state) => as[a].state = e.attempts[a].state
      BY AttemptsType DEF Attempt, Settled
    <2>7. ASSUME InFlight(e), NEW a \in DOMAIN e.attempts, as[a].state = "Dispatched"
          PROVE  BootIsCurrent(f, as[a].boot)
      <3> HIDE DEF as, f
      <3>1. BootIsCurrent(e, e.attempts[a].boot) /\ e.attempts[a].boot # b
        BY <2>6, <2>7 DEF InFlight
      <3>2. e.attempts[a].boot \in Boots  BY AttemptsType DEF Attempt
      <3>3. WorkerOf[e.attempts[a].boot] # WorkerOf[b]
        BY <1>2, <3>1 DEF BootIsCurrent
      <3>4. ls[WorkerOf[e.attempts[a].boot]] = e.leases[WorkerOf[e.attempts[a].boot]]
        BY <3>2, <3>3, AttemptsType, BootAssumption
      <3> QED  BY <2>5, <2>6, <3>1, <3>4 DEF BootIsCurrent
    <2>8. DOMAIN as = DOMAIN e.attempts  OBVIOUS
    <2> HIDE DEF as, f
    <2>9. Continues(e, f)  BY <2>5, <2>6, <2>7, <2>8 DEF Continues, InFlight
    <2>10. SettlesNothing(e, f)  BY <2>5, <2>6, <2>8 DEF SettlesNothing
    <2> QED  BY <2>4, <2>9, <2>10 DEF f
  <1> QED  BY <1>1, <1>2

\* A new state for one attempt, neither settled before nor in flight after.
LEMMA StateChangeKeeps ==
    ASSUME NEW e \in EngineState, NEW a \in DOMAIN e.attempts,
           ~Settled(e.attempts[a].state), NEW s \in AttemptState \ {"Dispatched"}
    PROVE  /\ [e EXCEPT !.attempts[a].state = s] \in EngineState
           /\ Continues(e, [e EXCEPT !.attempts[a].state = s])
           /\ [e EXCEPT !.attempts[a].state = s].attempts =
                [e.attempts EXCEPT ![a].state = s]
  <1> DEFINE as == [e.attempts EXCEPT ![a].state = s]
             f == [e EXCEPT !.attempts[a].state = s]
  <1>1. f = [epoch |-> e.epoch, leases |-> e.leases, attempts |-> as, next |-> e.next]
    BY Whole
  <1>2. as \in [DOMAIN e.attempts -> Attempt]  BY AttemptsType DEF Attempt
  <1>3. /\ DOMAIN as = DOMAIN e.attempts
        /\ \A x \in DOMAIN e.attempts :
            /\ as[x].boot = e.attempts[x].boot
            /\ as[x].idempotent = e.attempts[x].idempotent
            /\ as[x].state = "Dispatched" => e.attempts[x].state = "Dispatched"
            /\ Settled(e.attempts[x].state) => as[x].state = e.attempts[x].state
    BY AttemptsType DEF Attempt
  <1> HIDE DEF as, f
  <1>4. f \in EngineState  BY <1>1, <1>2, AttemptsType, MakeEngine
  <1>5. f.attempts = as /\ f.next = e.next /\ f.leases = e.leases  BY <1>1
  <1>6. Continues(e, f)  BY <1>3, <1>5 DEF Continues, InFlight, BootIsCurrent
  <1> QED  BY <1>4, <1>5, <1>6 DEF f, as

\* The engine's state once the subject of the attempts was revised.
Revised(e) ==
    [e EXCEPT !.attempts = [a \in DOMAIN @ |-> [@[a] EXCEPT !.current = FALSE]]]

LEMMA ReviseKeeps ==
    ASSUME NEW e \in EngineState
    PROVE  /\ Revised(e) \in EngineState /\ Continues(e, Revised(e))
           /\ SettlesNothing(e, Revised(e))
  <1> DEFINE as == [a \in DOMAIN e.attempts |-> [e.attempts[a] EXCEPT !.current = FALSE]]
             f == Revised(e)
  <1>1. f = [epoch |-> e.epoch, leases |-> e.leases, attempts |-> as, next |-> e.next]
    <2>1. f = [e EXCEPT !.attempts = as]  BY DEF Revised
    <2> HIDE DEF f, as
    <2> QED  BY <2>1, Updated
  <1>2. as \in [DOMAIN e.attempts -> Attempt]  BY AttemptsType DEF Attempt
  <1>3. /\ DOMAIN as = DOMAIN e.attempts
        /\ \A x \in DOMAIN e.attempts :
            /\ as[x].boot = e.attempts[x].boot
            /\ as[x].idempotent = e.attempts[x].idempotent
            /\ as[x].state = e.attempts[x].state
    BY AttemptsType DEF Attempt
  <1> HIDE DEF f, as
  <1>4. f \in EngineState  BY <1>1, <1>2, AttemptsType, MakeEngine
  <1>5. f.attempts = as /\ f.next = e.next /\ f.leases = e.leases  BY <1>1
  <1>6. Continues(e, f)  BY <1>3, <1>5 DEF Continues, InFlight, BootIsCurrent
  <1>7. SettlesNothing(e, f)  BY <1>3, <1>5 DEF SettlesNothing
  <1> QED  BY <1>4, <1>6, <1>7 DEF f

LEMMA BegunFacts ==
    ASSUME NEW e \in EngineState, NEW b \in Boots, NEW i \in BOOLEAN, e.next \in AttemptIds,
           NEW f, f = Begun(e, b, i)
    PROVE  /\ f \in EngineState
           /\ f.next = e.next + 1
           /\ f.leases = e.leases
           /\ DOMAIN f.attempts = DOMAIN e.attempts \cup {e.next}
           /\ \A a \in DOMAIN e.attempts : a # e.next /\ f.attempts[a] = e.attempts[a]
           /\ f.attempts[e.next] =
                [boot |-> b, idempotent |-> i, current |-> TRUE, state |-> "Dispatched"]
  <1> DEFINE new == [boot |-> b, idempotent |-> i, current |-> TRUE, state |-> "Dispatched"]
             S == DOMAIN e.attempts \cup {e.next}
             as == [a \in S |-> IF a # e.next THEN e.attempts[a] ELSE new]
  <1>1. f = [epoch |-> e.epoch, leases |-> e.leases, attempts |-> as, next |-> e.next + 1]
    <2>1. f = [e EXCEPT !.next = e.next + 1, !.attempts = as]  BY DEF Begun
    <2> DEFINE k == e.next + 1
    <2> HIDE DEF as, k
    <2>2. f = [e EXCEPT !.next = k, !.attempts = as]  BY <2>1 DEF k
    <2>3. f = [epoch |-> e.epoch, leases |-> e.leases, attempts |-> as, next |-> k]
      BY <2>2 DEF EngineState
    <2> QED  BY <2>3 DEF k
  <1>2. new \in Attempt  BY DEF Attempt, AttemptState
  <1>3. as \in [S -> Attempt] /\ S \in SUBSET AttemptIds
    BY <1>2, AttemptsType
  <1>4. e.next + 1 \in Nat \ {0} /\ \A a \in S : a < e.next + 1  BY AttemptsType
  <1>5. /\ DOMAIN as = S /\ as[e.next] = new
        /\ \A a \in DOMAIN e.attempts : a # e.next /\ as[a] = e.attempts[a]
    BY AttemptsType
  <1> HIDE DEF as, new
  <1>6. f \in EngineState
    <2> HIDE DEF S
    <2> QED BY <1>1, <1>3, <1>4, AttemptsType, MakeEngine
  <1>7. f.attempts = as /\ f.next = e.next + 1 /\ f.leases = e.leases  BY <1>1
  <1> QED  BY <1>5, <1>6, <1>7 DEF new

\* What the file holds: every attempt that is not settled, and the next identity.
LEMMA ExportedFacts ==
    ASSUME NEW e \in EngineState
    PROVE  /\ Exported(e) \in EngineState
           /\ Exported(e).next = e.next
           /\ DOMAIN Exported(e).attempts = {a \in DOMAIN e.attempts : ~Settled(e.attempts[a].state)}
           /\ \A a \in DOMAIN Exported(e).attempts : Exported(e).attempts[a] = e.attempts[a]
  <1> DEFINE S == {a \in DOMAIN e.attempts : ~Settled(e.attempts[a].state)}
             as == [a \in S |-> e.attempts[a]]
             ls == [w \in Workers |-> [e.leases[w] EXCEPT !.fenced = TRUE]]
             f == Exported(e)
  <1>1. f = [epoch |-> e.epoch, leases |-> ls, attempts |-> as, next |-> e.next]
    <2>1. f = [e EXCEPT !.leases = ls, !.attempts = as]  BY DEF Exported
    <2> HIDE DEF f, ls, as
    <2> QED  BY <2>1, Updated
  <1>2. ls \in [Workers -> Lease]  BY AttemptsType DEF Lease
  <1>3. as \in [S -> Attempt] /\ S \in SUBSET AttemptIds /\ \A a \in S : a < e.next
    BY AttemptsType
  <1>4. DOMAIN as = S /\ \A a \in S : as[a] = e.attempts[a]  OBVIOUS
  <1> HIDE DEF as, ls, f, S
  <1>5. f \in EngineState  BY <1>1, <1>2, <1>3, AttemptsType, MakeEngine
  <1>6. f.attempts = as /\ f.next = e.next  BY <1>1
  <1> QED  BY <1>4, <1>5, <1>6 DEF f, S

LEMMA ImportedFacts ==
    ASSUME NEW d \in EngineState
    PROVE  /\ Imported(d) \in EngineState
           /\ Imported(d).next = d.next
           /\ DOMAIN Imported(d).attempts = DOMAIN d.attempts
           /\ \A a \in DOMAIN d.attempts :
                /\ Imported(d).attempts[a].state # "Dispatched"
                /\ Settled(Imported(d).attempts[a].state) <=> Settled(d.attempts[a].state)
  <1> DEFINE as == [a \in DOMAIN d.attempts |->
                        IF d.attempts[a].state = "Dispatched"
                        THEN [d.attempts[a] EXCEPT !.state = "OutcomeUnknown"]
                        ELSE d.attempts[a]]
             f == Imported(d)
  <1>1. f = [epoch |-> d.epoch + 1, leases |-> d.leases, attempts |-> as, next |-> d.next]
    <2>1. f = [d EXCEPT !.epoch = d.epoch + 1, !.attempts = as]  BY DEF Imported
    <2> HIDE DEF f, as
    <2> QED  BY <2>1 DEF EngineState
  <1>2. as \in [DOMAIN d.attempts -> Attempt]  BY AttemptsType DEF Attempt, AttemptState
  <1>3. /\ DOMAIN as = DOMAIN d.attempts
        /\ \A a \in DOMAIN d.attempts :
            /\ as[a].state # "Dispatched"
            /\ Settled(as[a].state) <=> Settled(d.attempts[a].state)
    BY AttemptsType DEF Attempt, Settled
  <1>4. d.epoch + 1 \in Nat  BY AttemptsType
  <1> HIDE DEF as, f
  <1>5. f \in EngineState  BY <1>1, <1>2, <1>4, AttemptsType, MakeEngine
  <1>6. f.attempts = as /\ f.next = d.next  BY <1>1
  <1> QED  BY <1>3, <1>5, <1>6 DEF f

------------------------------------------------------------------------------
(* Connections. *)

LEMMA Queues ==
    ASSUME NEW q \in [Boots -> Seq(Frame)], NEW b \in Boots
    PROVE  /\ \A f \in Frame : [q EXCEPT ![b] = Append(@, f)] \in [Boots -> Seq(Frame)]
           /\ [q EXCEPT ![b] = <<>>] \in [Boots -> Seq(Frame)]
           /\ q[b] # <<>> => /\ [q EXCEPT ![b] = Tail(@)] \in [Boots -> Seq(Frame)]
                             /\ Head(q[b]) \in Frame
  <1>1. q[b] \in Seq(Frame)  OBVIOUS
  <1>2. \A f \in Frame : Append(q[b], f) \in Seq(Frame)  BY <1>1
  <1>3. q[b] # <<>> => Tail(q[b]) \in Seq(Frame) /\ Head(q[b]) \in Frame  BY <1>1
  <1> QED  BY <1>2, <1>3

LEMMA Frames ==
    /\ \A ok \in BOOLEAN : [type |-> "REPLY", ok |-> ok] \in Frame
    /\ \A a \in AttemptIds : [type |-> "COMMAND", attempt |-> a] \in Frame
    /\ \A a \in AttemptIds, s, c \in BOOLEAN :
            [type |-> "COMPLETION", attempt |-> a, success |-> s, confirmed |-> c] \in Frame
    /\ [type |-> "HELLO"] \in Frame /\ [type |-> "REGISTER"] \in Frame
    /\ [type |-> "PUBLISH"] \in Frame
    /\ \A m \in Frame : m.type = "COMPLETION" =>
            m.attempt \in AttemptIds /\ m.success \in BOOLEAN /\ m.confirmed \in BOOLEAN
  BY DEF Frame

------------------------------------------------------------------------------
(* The ways a step moves the engine, the state file and the acknowledgements. *)

\* An operation on the attempts there are; the answer to a completion is sent once the
\* settled attempt is in the file.
Carried ==
    /\ engine' \in EngineState /\ Continues(engine, engine')
    /\ durable' = durable \/ durable' = Exported(engine')
    /\ \/ acked' = acked
       \/ /\ durable' = Exported(engine')
          /\ \E a \in DOMAIN engine.attempts :
                /\ Settled(engine'.attempts[a].state)
                /\ acked' = acked \cup {<<a, "settled">>}

\* A new attempt; it is acknowledged once it is in the file.
BegunBy(b, i) ==
    /\ engine.next \in AttemptIds /\ BootIsCurrent(engine, b)
    /\ engine' = Begun(engine, b, i)
    /\ \/ durable' = durable /\ acked' = acked /\ SavesFail = TRUE
       \/ /\ durable' = Exported(engine')
          /\ acked' = acked \cup {<<engine.next, "begun">>}

Restarted ==
    engine' = Imported(durable) /\ durable' = durable /\ acked' = acked /\ dispatched' = {}

Moves ==
    \/ Carried
    \/ \E b \in Boots, i \in BOOLEAN : BegunBy(b, i)
    \/ Restarted

LEMMA ContinuesRefl ==
    ASSUME NEW e PROVE Continues(e, e)
  BY DEF Continues

\* An answer whose change is none.
LEMMA AcknowledgeNothing ==
    ASSUME TypeInv, NEW e \in EngineState, Continues(engine, e), NEW changed, NEW b,
           NEW ok, Acknowledge(e, changed, b, ok, {})
    PROVE  Carried
  <1>1. PICK saved : /\ engine' = e
                     /\ Persist(e, changed, saved)
                     /\ acked' = IF ok /\ saved THEN acked \cup {} ELSE acked
    BY DEF Acknowledge
  <1> QED  BY <1>1 DEF Carried, Persist

LEMMA HandleFrameMoves ==
    ASSUME TypeInv, NEW b \in Boots, HandleFrame(b)
    PROVE  Carried
  <1>1. engine \in EngineState /\ Continues(engine, engine)  BY ContinuesRefl DEF TypeInv
  <1>2. CASE HandleHello(b) \/ HandleReply(b)
    BY <1>1, <1>2 DEF HandleHello, HandleReply, Carried
  <1>3. CASE HandleRegister(b)
    <2>1. CASE RegistrationAllowed(engine, b)
      BY <1>1, <1>3, <2>1, RegisteredKeeps, AcknowledgeNothing DEF HandleRegister
    <2>2. CASE ~RegistrationAllowed(engine, b)
      BY <1>1, <1>3, <2>2, AcknowledgeNothing DEF HandleRegister
    <2> QED  BY <2>1, <2>2
  <1>4. CASE HandlePublish(b)
    BY <1>1, <1>4, AcknowledgeNothing DEF HandlePublish
  <1>5. CASE HandleCompletion(b)
    <2> DEFINE m == Head(toCoord[b])
               e == [engine EXCEPT !.attempts[m.attempt].state = CompletionState(m)]
    <2>1. m \in Frame /\ m.type = "COMPLETION"
      BY <1>5, Queues DEF HandleCompletion, Serving, TypeInv, RestType
    <2>2. CASE ~CompletionAllowed(engine, b, m)
      BY <1>1, <1>5, <2>2, AcknowledgeNothing DEF HandleCompletion
    <2>3. CASE CompletionAllowed(engine, b, m)
      <3>1. /\ m.attempt \in DOMAIN engine.attempts
            /\ ~Settled(engine.attempts[m.attempt].state)
        BY <2>3 DEF CompletionAllowed
      <3>2. /\ CompletionState(m) \in AttemptState \ {"Dispatched"}
            /\ m.confirmed => Settled(CompletionState(m))
        BY DEF CompletionState, AttemptState, Settled
      <3>3. /\ e \in EngineState /\ Continues(engine, e)
            /\ e.attempts = [engine.attempts EXCEPT ![m.attempt].state = CompletionState(m)]
        <4> HIDE DEF m
        <4> QED  BY <1>1, <3>1, <3>2, StateChangeKeeps
      <3>4. Acknowledge(e, TRUE, b, m.confirmed, {<<m.attempt, "settled">>})
        BY <1>5, <2>3 DEF HandleCompletion
      <3>5. m.confirmed => Settled(e.attempts[m.attempt].state)
        <4> HIDE DEF m, e
        <4> QED  BY <1>1, <3>1, <3>2, <3>3, AttemptsType DEF Attempt
      <3> HIDE DEF e, m
      <3>6. PICK saved \in SaveOutcomes(TRUE) :
              /\ engine' = e
              /\ Persist(e, TRUE, saved)
              /\ acked' = IF m.confirmed /\ saved THEN acked \cup {<<m.attempt, "settled">>}
                          ELSE acked
        BY <3>4 DEF Acknowledge
      <3> QED  BY <3>1, <3>3, <3>5, <3>6 DEF Carried, Persist
    <2> QED  BY <2>2, <2>3
  <1> QED  BY <1>2, <1>3, <1>4, <1>5 DEF HandleFrame

LEMMA EngineStep ==
    ASSUME TypeInv, [Next]_vars
    PROVE  Moves
  <1> USE DEF Moves
  <1>1. engine \in EngineState /\ Continues(engine, engine)  BY ContinuesRefl DEF TypeInv
  <1>2. CASE UNCHANGED <<engine, durable, acked>>  BY <1>1, <1>2 DEF Carried
  <1>3. ASSUME NEW b \in Boots, HandleFrame(b) PROVE Moves  BY <1>3, HandleFrameMoves
  <1>4. ASSUME NEW b \in Boots, CloseSession(b) PROVE Moves
    BY <1>1, <1>4, FenceKeeps DEF CloseSession, FencedOnClose, Carried
  <1>5. ASSUME NEW b \in Boots, NEW i \in BOOLEAN, RequestAttempt(b, i) PROVE Moves
    <2>1. PICK saved \in SaveOutcomes(TRUE) :
            /\ engine' = Begun(engine, b, i)
            /\ Persist(engine', TRUE, saved)
            /\ acked' = IF saved THEN acked \cup {<<engine.next, "begun">>} ELSE acked
      BY <1>5 DEF RequestAttempt
    <2>2. saved \in BOOLEAN /\ (~saved => SavesFail = TRUE)
      BY FailureAssumption DEF SaveOutcomes
    <2>3. BegunBy(b, i)  BY <1>5, <2>1, <2>2 DEF RequestAttempt, BegunBy, Persist
    <2> QED  BY <2>3
  <1>6. ASSUME NEW w \in Workers, RequestFence(w) PROVE Moves
    <2>1. engine.leases[w].boot \in Boots
      BY <1>1, <1>6, AttemptsType DEF RequestFence, Lease
    <2> QED  BY <1>1, <1>6, <2>1, FenceKeeps DEF RequestFence, Persist, Carried
  <1>7. ASSUME NEW a \in DOMAIN engine.attempts, ReconcileAttempt(a) PROVE Moves
    <2>1. /\ ~Settled(engine.attempts[a].state)
          /\ ReconciledState(engine.attempts[a], a \in effects) \in AttemptState \ {"Dispatched"}
      BY <1>7 DEF ReconcileAttempt, Settled, ReconciledState, AttemptState
    <2> QED  BY <1>1, <1>7, <2>1, StateChangeKeeps DEF ReconcileAttempt, Carried
  <1>8. CASE ReviseSubject
    <2>1. engine' = Revised(engine) /\ UNCHANGED <<durable, acked>>
      BY <1>8 DEF ReviseSubject, Revised
    <2> QED  BY <1>1, <2>1, ReviseKeeps DEF Carried
  <1>9. CASE Poll
    <2>1. CASE EndPoll  BY <1>1, <2>1 DEF EndPoll, Persist, Carried
    <2>2. CASE ~EndPoll
      BY <1>2, <1>9, <2>2 DEF Poll, EndServe, DispatchPending, EndDispatch
    <2> QED  BY <2>1, <2>2
  <1>10. CASE Crash  BY <1>2, <1>10 DEF Crash
  <1>11. CASE Restart  BY <1>11 DEF Restart, Restarted
  <1>12. ASSUME NEW b \in Boots, Start(b) PROVE Moves  BY <1>2, <1>12 DEF Start
  <1>13. ASSUME NEW b \in Boots, WorkerStep(b) \/ ExecuteAndDie(b) \/ Die(b) PROVE Moves
    BY <1>2, <1>13 DEF WorkerStep, HelloReply, RegisterReply, ServeCommand, ServeOther,
          CompletionReply, PublishReply, Disconnected, ExecuteAndDie, Die, Receiving, Execute,
          coordinatorVars
  <1>14. CASE UNCHANGED vars  BY <1>2, <1>14 DEF vars, coordinatorVars
  <1> QED  BY <1>3, <1>4, <1>5, <1>6, <1>7, <1>8, <1>9, <1>10, <1>11, <1>12, <1>13, <1>14
        DEF Next

------------------------------------------------------------------------------
(* Type correctness. *)

\* Served frames leave the queue, and what is answered is a frame.
LEMMA HandleFrameType ==
    ASSUME TypeInv, NEW b \in Boots, HandleFrame(b)
    PROVE  /\ \E ok \in BOOLEAN :
                toWorker' = [toWorker EXCEPT ![b] = Append(@, [type |-> "REPLY", ok |-> ok])]
           /\ toCoord[b] # <<>> /\ toCoord' = [toCoord EXCEPT ![b] = Tail(@)]
           /\ sessions' \in [Boots -> {"none", "open", "hello", "registered"}]
           /\ dirty' \in BOOLEAN
           /\ UNCHANGED <<up, crashes, phase, dispatched, worker, executions, effects>>
  <1> DEFINE sent == \E ok \in BOOLEAN :
                toWorker' = [toWorker EXCEPT ![b] = Append(@, [type |-> "REPLY", ok |-> ok])]
  <1>1. ASSUME NEW e, NEW changed, NEW ok \in BOOLEAN, NEW change,
               Acknowledge(e, changed, b, ok, change)
        PROVE  sent /\ dirty' \in BOOLEAN
    <2>1. PICK saved \in SaveOutcomes(changed) :
            /\ Persist(e, changed, saved)
            /\ SendToWorker(b, [type |-> "REPLY", ok |-> ok /\ saved])
      BY <1>1 DEF Acknowledge
    <2>2. saved \in BOOLEAN  BY DEF SaveOutcomes
    <2>3. sent  BY <2>1, <2>2 DEF SendToWorker
    <2>4. dirty' \in BOOLEAN  BY <2>1 DEF Persist
    <2> QED  BY <2>3, <2>4
  <1>2. dirty \in BOOLEAN /\ sessions \in [Boots -> {"none", "open", "hello", "registered"}]
    BY DEF TypeInv, RestType
  <1>3. /\ toCoord[b] # <<>> /\ toCoord' = [toCoord EXCEPT ![b] = Tail(@)]
        /\ UNCHANGED <<up, crashes, phase, dispatched, worker, executions, effects>>
    BY DEF HandleFrame, HandleHello, HandleRegister, HandleCompletion, HandlePublish,
           HandleReply, Serving, Consume
  <1>4. sessions' \in [Boots -> {"none", "open", "hello", "registered"}]
    BY <1>2 DEF HandleFrame, HandleHello, HandleRegister, HandleCompletion, HandlePublish,
           HandleReply
  <1>5. sent /\ dirty' \in BOOLEAN
    <2>1. CASE HandleHello(b) \/ HandleReply(b)
      BY <1>2, <2>1 DEF HandleHello, HandleReply, SendToWorker
    <2>2. CASE HandleRegister(b)  BY <1>1, <2>2 DEF HandleRegister
    <2>3. CASE HandlePublish(b)  BY <1>1, <2>3 DEF HandlePublish
    <2>4. CASE HandleCompletion(b)
      <3> DEFINE m == Head(toCoord[b])
      <3>1. m \in Frame /\ m.type = "COMPLETION"
        BY <2>4, Queues DEF HandleCompletion, Serving, TypeInv, RestType
      <3>2. m.confirmed \in BOOLEAN  BY <3>1, Frames
      <3>3. \/ \E e : Acknowledge(e, TRUE, b, m.confirmed, {<<m.attempt, "settled">>})
            \/ Acknowledge(engine, FALSE, b, FALSE, {})
        BY <2>4 DEF HandleCompletion
      <3> HIDE DEF m
      <3> QED  BY <1>1, <3>2, <3>3
    <2> QED  BY <2>1, <2>2, <2>3, <2>4 DEF HandleFrame
  <1> HIDE DEF sent
  <1> QED  BY <1>3, <1>4, <1>5 DEF sent

\* A worker takes a frame off its queue and sends at most one of its own.
LEMMA WorkerStepType ==
    ASSUME TypeInv, NEW b \in Boots, WorkerStep(b) \/ ExecuteAndDie(b) \/ Die(b)
    PROVE  /\ \/ toWorker' = toWorker
              \/ toWorker[b] # <<>> /\ toWorker' = [toWorker EXCEPT ![b] = Tail(@)]
           /\ \/ toCoord' = toCoord
              \/ \E f \in Frame : toCoord' = [toCoord EXCEPT ![b] = Append(@, f)]
           /\ worker' \in [Boots -> [state : {"off", "hello", "registering", "serving",
                                             "completing", "publishing", "dead"},
                                    left : 0..Publications, resident : BOOLEAN]]
           /\ executions' \in [AttemptIds -> Nat] /\ effects' \subseteq AttemptIds
           /\ UNCHANGED coordinatorVars
  <1> DEFINE W == [state : {"off", "hello", "registering", "serving", "completing",
                            "publishing", "dead"},
                   left : 0..Publications, resident : BOOLEAN]
             sends == \/ toCoord' = toCoord
                      \/ \E f \in Frame : toCoord' = [toCoord EXCEPT ![b] = Append(@, f)]
  <1>1. /\ worker \in [Boots -> W] /\ worker[b] \in W
        /\ executions \in [AttemptIds -> Nat] /\ effects \subseteq AttemptIds
    BY DEF TypeInv, RestType
  <1>2. /\ UNCHANGED coordinatorVars
        /\ \/ toWorker' = toWorker
           \/ toWorker[b] # <<>> /\ toWorker' = [toWorker EXCEPT ![b] = Tail(@)]
    BY DEF WorkerStep, HelloReply, RegisterReply, ServeCommand, ServeOther,
          CompletionReply, PublishReply, Disconnected, ExecuteAndDie, Die, Receiving
  <1>3. \A s \in {"off", "hello", "registering", "serving", "completing", "publishing", "dead"} :
            Become(b, s) => worker' \in [Boots -> W]
    BY <1>1 DEF Become
  <1>4. ASSUME NEW rest \in 0..Publications, Publish(b, worker[b].resident, rest)
        PROVE  worker' \in [Boots -> W] /\ sends
    <2>1. worker[b].resident \in BOOLEAN  BY <1>1
    <2>2. CASE rest = 0 \/ ~worker[b].resident
      <3>1. [state |-> "serving", left |-> 0, resident |-> worker[b].resident] \in W
        BY <2>1, DispatchBoundAssumption
      <3> HIDE DEF W
      <3> QED  BY <1>1, <1>4, <2>2, <3>1 DEF Publish
    <2>3. CASE ~(rest = 0 \/ ~worker[b].resident)
      <3>1. rest - 1 \in 0..Publications  BY <2>3, DispatchBoundAssumption
      <3>2. [state |-> "publishing", left |-> rest - 1, resident |-> worker[b].resident] \in W
        BY <2>1, <3>1
      <3> HIDE DEF W
      <3> QED  BY <1>1, <1>4, <2>3, <3>2, Frames DEF Publish, SendToCoord
    <2> QED  BY <2>2, <2>3
  <1>5. Publications \in 0..Publications /\ worker[b].left \in 0..Publications
    BY <1>1, DispatchBoundAssumption
  <1>6. ASSUME NEW a \in AttemptIds, NEW applied \in BOOLEAN, Execute(b, a, applied)
        PROVE  executions' \in [AttemptIds -> Nat] /\ effects' \subseteq AttemptIds
    BY <1>1, <1>6 DEF Execute
  <1>7. CASE HelloReply(b)
    <2>1. worker' \in [Boots -> W]  BY <1>3, <1>7 DEF HelloReply
    <2> HIDE DEF W
    <2> QED  BY <1>1, <1>2, <1>7, <2>1, Frames DEF HelloReply, SendToCoord, W
  <1>8. CASE RegisterReply(b) \/ CompletionReply(b) \/ PublishReply(b)
    <2>1. worker' \in [Boots -> W] /\ sends
      <3>1. CASE \E rest \in 0..Publications : Publish(b, worker[b].resident, rest)
        BY <1>4, <3>1
      <3>2. CASE Become(b, "dead") /\ UNCHANGED toCoord  BY <1>3, <3>2
      <3> QED  BY <1>5, <1>8, <3>1, <3>2 DEF RegisterReply, CompletionReply, PublishReply
    <2>2. UNCHANGED <<executions, effects>>
      BY <1>8 DEF RegisterReply, CompletionReply, PublishReply
    <2> QED  BY <1>1, <1>2, <2>1, <2>2
  <1>9. CASE ServeCommand(b)
    <2>1. PICK a \in AttemptIds, applied, confirmed \in BOOLEAN :
            /\ Execute(b, a, applied)
            /\ \E resident \in IF applied THEN BOOLEAN ELSE {worker[b].resident} :
                 worker' = [worker EXCEPT ![b].state = "completing", ![b].resident = resident]
            /\ SendToCoord(b, [type |-> "COMPLETION", attempt |-> a, success |-> applied,
                               confirmed |-> confirmed])
      BY <1>9 DEF ServeCommand
    <2>2. PICK resident \in BOOLEAN :
            worker' = [worker EXCEPT ![b].state = "completing", ![b].resident = resident]
      BY <1>1, <2>1
    <2>3. worker' \in [Boots -> W]  BY <1>1, <2>2
    <2>4. sends  BY <2>1, Frames DEF SendToCoord
    <2> QED  BY <1>2, <1>6, <2>1, <2>3, <2>4
  <1>10. CASE ServeOther(b)
    <2>1. sends /\ UNCHANGED <<worker, executions, effects>>
      BY <1>10, Frames DEF ServeOther, SendToCoord
    <2> QED  BY <1>1, <1>2, <2>1
  <1>11. CASE ExecuteAndDie(b)
    <2>1. worker' \in [Boots -> W] /\ sends  BY <1>3, <1>11 DEF ExecuteAndDie
    <2> QED  BY <1>2, <1>6, <1>11, <2>1 DEF ExecuteAndDie
  <1>12. CASE Disconnected(b) \/ Die(b)
    <2>1. worker' \in [Boots -> W]  BY <1>3, <1>12 DEF Disconnected, Die
    <2> QED  BY <1>1, <1>2, <1>12, <2>1 DEF Disconnected, Die
  <1> QED  BY <1>7, <1>8, <1>9, <1>10, <1>11, <1>12 DEF WorkerStep

LEMMA RestStep ==
    ASSUME TypeInv, [Next]_vars
    PROVE  RestType' /\ dirty' \in BOOLEAN
  <1> DEFINE Sess == [Boots -> {"none", "open", "hello", "registered"}]
  <1>1. /\ RestType /\ dirty \in BOOLEAN /\ engine \in EngineState
        /\ toWorker \in [Boots -> Seq(Frame)] /\ toCoord \in [Boots -> Seq(Frame)]
        /\ sessions \in Sess
    BY DEF TypeInv, RestType
  <1>2. ASSUME NEW b \in Boots, HandleFrame(b) PROVE RestType' /\ dirty' \in BOOLEAN
    <2>1. PICK ok \in BOOLEAN :
            toWorker' = [toWorker EXCEPT ![b] = Append(@, [type |-> "REPLY", ok |-> ok])]
      BY <1>2, HandleFrameType
    <2>2. toWorker' \in [Boots -> Seq(Frame)]  BY <1>1, <2>1, Queues, Frames
    <2>3. toCoord' \in [Boots -> Seq(Frame)]
      <3>1. toCoord[b] # <<>> /\ toCoord' = [toCoord EXCEPT ![b] = Tail(@)]
        BY <1>2, HandleFrameType
      <3> QED  BY <1>1, <3>1, Queues
    <2> QED  BY <1>1, <1>2, <2>2, <2>3, HandleFrameType DEF RestType
  <1>3. ASSUME NEW b \in Boots, CloseSession(b) PROVE RestType' /\ dirty' \in BOOLEAN
    <2>1. toCoord' \in [Boots -> Seq(Frame)]  BY <1>1, <1>3, Queues DEF CloseSession
    <2>2. sessions' \in Sess /\ dirty' \in BOOLEAN  BY <1>1, <1>3 DEF CloseSession
    <2> QED  BY <1>1, <1>3, <2>1, <2>2 DEF CloseSession, RestType
  <1>4. ASSUME NEW b \in Boots, NEW i \in BOOLEAN, RequestAttempt(b, i)
        PROVE  RestType' /\ dirty' \in BOOLEAN
    BY <1>1, <1>4 DEF RequestAttempt, Persist, RestType
  <1>5. ASSUME NEW w \in Workers, RequestFence(w) PROVE RestType' /\ dirty' \in BOOLEAN
    <2>1. sessions' \in Sess  BY <1>1, <1>5 DEF RequestFence
    <2>2. dirty' \in BOOLEAN  BY <1>5 DEF RequestFence, Persist
    <2> QED  BY <1>1, <1>5, <2>1, <2>2 DEF RequestFence, RestType
  <1>6. ASSUME NEW a \in DOMAIN engine.attempts, ReconcileAttempt(a)
        PROVE  RestType' /\ dirty' \in BOOLEAN
    BY <1>1, <1>6 DEF ReconcileAttempt, RestType
  <1>7. CASE ReviseSubject  BY <1>1, <1>7 DEF ReviseSubject, RestType
  <1>8. CASE EndServe \/ EndDispatch
    BY <1>1, <1>8 DEF EndServe, EndDispatch, RestType
  <1>9. CASE EndPoll  BY <1>1, <1>9 DEF EndPoll, Persist, RestType
  <1>10. ASSUME NEW a \in AttemptIds, DispatchPending(a)
         PROVE  RestType' /\ dirty' \in BOOLEAN
    <2>1. engine.attempts[a].boot \in Boots
      BY <1>1, <1>10, AttemptsType DEF DispatchPending, Pending, Attempt
    <2>2. toWorker' \in [Boots -> Seq(Frame)]
      BY <1>1, <1>10, <2>1, Queues, Frames DEF DispatchPending, SendToWorker
    <2> QED  BY <1>1, <1>10, <2>2 DEF DispatchPending, RestType
  <1>11. CASE Crash
    <2>1. crashes' \in 0..MaxCrashes
      BY <1>1, <1>11, DispatchBoundAssumption DEF Crash, RestType
    <2> QED  BY <1>1, <1>11, <2>1 DEF Crash, RestType
  <1>12. CASE Restart  BY <1>1, <1>12 DEF Restart, RestType
  <1>13. ASSUME NEW b \in Boots, Start(b) PROVE RestType' /\ dirty' \in BOOLEAN
    <2>1. toWorker' \in [Boots -> Seq(Frame)]  BY <1>1, <1>13, Queues DEF Start
    <2>2. toCoord' \in [Boots -> Seq(Frame)]
      <3>1. <<[type |-> "HELLO"]>> \in Seq(Frame)  BY Frames
      <3> QED  BY <1>1, <1>13, <3>1 DEF Start
    <2>3. sessions' \in Sess  BY <1>1, <1>13 DEF Start
    <2>4. worker' \in [Boots -> [state : {"off", "hello", "registering", "serving",
                                         "completing", "publishing", "dead"},
                                left : 0..Publications, resident : BOOLEAN]]
      BY <1>1, <1>13 DEF Start, Become, RestType
    <2> QED  BY <1>1, <1>13, <2>1, <2>2, <2>3, <2>4 DEF Start, RestType
  <1>14. ASSUME NEW b \in Boots, WorkerStep(b) \/ ExecuteAndDie(b) \/ Die(b)
         PROVE  RestType' /\ dirty' \in BOOLEAN
    <2>1. toWorker' \in [Boots -> Seq(Frame)]
      <3>1. \/ toWorker' = toWorker
            \/ toWorker[b] # <<>> /\ toWorker' = [toWorker EXCEPT ![b] = Tail(@)]
        BY <1>14, WorkerStepType
      <3>2. toWorker[b] # <<>> => [toWorker EXCEPT ![b] = Tail(@)] \in [Boots -> Seq(Frame)]
        BY <1>1, Queues
      <3> QED  BY <1>1, <3>1, <3>2, Zenon
    <2>2. toCoord' \in [Boots -> Seq(Frame)]
      <3>1. \/ toCoord' = toCoord
            \/ \E f \in Frame : toCoord' = [toCoord EXCEPT ![b] = Append(@, f)]
        BY <1>14, WorkerStepType
      <3>2. \A f \in Frame : [toCoord EXCEPT ![b] = Append(@, f)] \in [Boots -> Seq(Frame)]
        BY <1>1, Queues
      <3> QED  BY <1>1, <3>1, <3>2, Zenon
    <2> QED  BY <1>1, <1>14, <2>1, <2>2, WorkerStepType DEF RestType, coordinatorVars
  <1>15. CASE UNCHANGED vars  BY <1>1, <1>15 DEF vars, coordinatorVars, RestType
  <1> QED  BY <1>2, <1>3, <1>4, <1>5, <1>6, <1>7, <1>8, <1>9, <1>10, <1>11, <1>12, <1>13,
              <1>14, <1>15 DEF Next, Poll

LEMMA TypeStep ==
    ASSUME TypeInv, [Next]_vars
    PROVE  TypeInv'
  <1>1. RestType' /\ dirty' \in BOOLEAN  BY RestStep
  <1>2. /\ engine \in EngineState /\ durable \in EngineState
        /\ acked \subseteq AttemptIds \X {"begun", "settled"}
    BY DEF TypeInv
  <1>3. engine' \in EngineState
    <2>1. CASE Carried  BY <2>1 DEF Carried
    <2>2. ASSUME NEW b \in Boots, NEW i \in BOOLEAN, BegunBy(b, i)
          PROVE  engine' \in EngineState
      <3>1. engine' = Begun(engine, b, i) /\ engine.next \in AttemptIds
        BY <2>2 DEF BegunBy
      <3> QED  BY <1>2, <3>1, BegunFacts
    <2>3. CASE Restarted  BY <1>2, <2>3, ImportedFacts DEF Restarted
    <2> QED  BY <2>1, <2>2, <2>3, EngineStep DEF Moves
  <1>4. durable' \in EngineState  BY <1>2, <1>3, EngineStep, ExportedFacts
        DEF Moves, Carried, BegunBy, Restarted
  <1>5. acked' \subseteq AttemptIds \X {"begun", "settled"}
    <2>1. DOMAIN engine.attempts \in SUBSET AttemptIds  BY <1>2, AttemptsType
    <2>2. \/ acked' = acked
          \/ \E a \in AttemptIds : \/ acked' = acked \cup {<<a, "begun">>}
                                   \/ acked' = acked \cup {<<a, "settled">>}
      BY <2>1, EngineStep DEF Moves, Carried, BegunBy, Restarted
    <2> QED  BY <1>2, <2>2
  <1> QED  BY <1>1, <1>3, <1>4, <1>5 DEF TypeInv

LEMMA FreshFacts ==
    /\ Fresh \in EngineState /\ [Fresh EXCEPT !.epoch = 0] \in EngineState
    /\ DOMAIN Fresh.attempts = {} /\ Fresh.next = 1
    /\ DOMAIN [Fresh EXCEPT !.epoch = 0].attempts = {} /\ [Fresh EXCEPT !.epoch = 0].next = 1
  <1> DEFINE ls == [w \in Workers |-> [boot |-> NoBoot, fenced |-> TRUE]]
             as == [a \in {} |-> a]
             f == [Fresh EXCEPT !.epoch = 0]
  <1>1. ls \in [Workers -> Lease]  BY DEF Lease
  <1>2. as \in [{} -> Attempt] /\ DOMAIN as = {}  OBVIOUS
  <1>3. Fresh = [epoch |-> 1, leases |-> ls, attempts |-> as, next |-> 1]  BY DEF Fresh
  <1> HIDE DEF ls, as
  <1>4. /\ 0 \in Nat /\ 1 \in Nat /\ 1 \in Nat \ {0} /\ {} \in SUBSET AttemptIds
        /\ \A a \in {} : a < 1
    OBVIOUS
  <1>8. Fresh \in EngineState  BY <1>1, <1>2, <1>3, <1>4, MakeEngine
  <1>5. f = [epoch |-> 0, leases |-> ls, attempts |-> as, next |-> 1]
    <2>1. f = [Fresh EXCEPT !.epoch = 0]  OBVIOUS
    <2> HIDE DEF f
    <2> QED  BY <1>3, <2>1
  <1> HIDE DEF f
  <1>6. f \in EngineState  BY <1>1, <1>2, <1>4, <1>5, MakeEngine
  <1>7. f.attempts = as /\ f.next = 1  BY <1>5
  <1> QED  BY <1>2, <1>3, <1>6, <1>7, <1>8 DEF f

LEMMA TypeInit ==
    ASSUME Init
    PROVE  TypeInv
  <1>1. engine \in EngineState /\ durable \in EngineState  BY FreshFacts DEF Init
  <1>2. NewWorker \in [state : {"off", "hello", "registering", "serving", "completing",
                               "publishing", "dead"},
                      left : 0..Publications, resident : BOOLEAN]
    BY DispatchBoundAssumption DEF NewWorker
  <1>3. toWorker \in [Boots -> Seq(Frame)] /\ toCoord \in [Boots -> Seq(Frame)]
    BY DEF Init
  <1>4. executions \in [AttemptIds -> Nat]  BY DEF Init
  <1>5. crashes \in 0..MaxCrashes  BY DispatchBoundAssumption DEF Init
  <1>6. RestType  BY <1>2, <1>3, <1>4, <1>5 DEF Init, RestType
  <1> QED  BY <1>1, <1>6 DEF Init, TypeInv

LEMMA TypeAlways == Spec => []TypeInv
  <1>1. Init => TypeInv  BY TypeInit
  <1>2. TypeInv /\ [Next]_vars => TypeInv'  BY TypeStep
  <1> QED  BY <1>1, <1>2, PTL DEF Spec

\* The variables of command dispatch keep their types through every poll, crash, restart
\* and reconnection, and begin_attempt never assigns an identity that is in use, in
\* memory or in the state file.
THEOREM DispatchTypeCorrect == Spec => []TypeOK
  <1>1. ASSUME TypeInv PROVE TypeOK
    <2>1. ASSUME NEW e \in EngineState
          PROVE  /\ e.epoch \in Nat /\ e.leases \in [Workers -> Lease]
                 /\ DOMAIN e.attempts \subseteq 1..(e.next - 1)
                 /\ \A a \in DOMAIN e.attempts : a \in AttemptIds /\ e.attempts[a] \in Attempt
      <3>1. \A a \in DOMAIN e.attempts : a \in 1..(e.next - 1)  BY AttemptsType
      <3> QED  BY <3>1, AttemptsType
    <2>2. engine \in EngineState /\ durable \in EngineState /\ RestType
      BY <1>1 DEF TypeInv
    <2>3. \A b \in Boots : toWorker[b] \in Seq(Frame) /\ toCoord[b] \in Seq(Frame)
      BY <2>2 DEF RestType
    <2>4. {engine.epoch, durable.epoch} \subseteq Nat  BY <2>1, <2>2
    <2>5. \A e \in {engine, durable} :
            /\ e.leases \in [Workers -> Lease]
            /\ DOMAIN e.attempts \subseteq 1..(e.next - 1)
            /\ \A a \in DOMAIN e.attempts : a \in AttemptIds /\ e.attempts[a] \in Attempt
      BY <2>1, <2>2
    <2> QED  BY <1>1, <2>2, <2>3, <2>4, <2>5 DEF TypeInv, RestType, TypeOK
  <1>2. TypeInv => TypeOK  BY <1>1
  <1> QED  BY <1>2, TypeAlways, PTL

------------------------------------------------------------------------------
(* Attempts in flight. *)

\* The state after begin_attempt.
LEMMA BegunStep ==
    ASSUME TypeInv, NEW b \in Boots, NEW i \in BOOLEAN, BegunBy(b, i)
    PROVE  /\ engine'.next = engine.next + 1 /\ engine'.leases = engine.leases
           /\ DOMAIN engine'.attempts = DOMAIN engine.attempts \cup {engine.next}
           /\ \A a \in DOMAIN engine.attempts :
                a # engine.next /\ engine'.attempts[a] = engine.attempts[a]
           /\ engine'.attempts[engine.next].boot = b
           /\ engine'.attempts[engine.next].state = "Dispatched"
  <1>1. engine \in EngineState  BY DEF TypeInv
  <1>2. engine' = Begun(engine, b, i) /\ engine.next \in AttemptIds  BY DEF BegunBy
  <1>3. /\ engine'.next = engine.next + 1 /\ engine'.leases = engine.leases
        /\ DOMAIN engine'.attempts = DOMAIN engine.attempts \cup {engine.next}
        /\ \A a \in DOMAIN engine.attempts :
                a # engine.next /\ engine'.attempts[a] = engine.attempts[a]
        /\ engine'.attempts[engine.next] =
                [boot |-> b, idempotent |-> i, current |-> TRUE, state |-> "Dispatched"]
    BY <1>1, <1>2, BegunFacts
  <1>6. /\ engine'.attempts[engine.next].boot = b
        /\ engine'.attempts[engine.next].state = "Dispatched"
    BY <1>3
  <1> QED  BY <1>3, <1>6

\* Whatever fences or replaces a boot, whichever session it is known by, has taken its
\* attempts out of flight: no attempt waits for a boot that may no longer complete it.
THEOREM InFlightPerformed == Spec => []InFlightHasPerformer
  <1>1. Init => InFlightHasPerformer  BY FreshFacts DEF Init, InFlightHasPerformer
  <1>2. ASSUME TypeInv, InFlightHasPerformer, [Next]_vars PROVE InFlightHasPerformer'
    <2>1. engine \in EngineState /\ durable \in EngineState  BY <1>2 DEF TypeInv
    <2>2. InFlight(engine)  BY <1>2 DEF InFlight, InFlightHasPerformer
    <2>3. CASE Carried  BY <2>2, <2>3 DEF Carried, Continues, InFlight, InFlightHasPerformer
    <2>4. ASSUME NEW b \in Boots, NEW i \in BOOLEAN, BegunBy(b, i) PROVE InFlight(engine)'
      <3>1. /\ engine'.leases = engine.leases
            /\ DOMAIN engine'.attempts = DOMAIN engine.attempts \cup {engine.next}
            /\ \A a \in DOMAIN engine.attempts : engine'.attempts[a] = engine.attempts[a]
            /\ engine'.attempts[engine.next].boot = b
        BY <1>2, <2>4, BegunStep
      <3> QED  BY <2>2, <2>4, <3>1 DEF InFlight, BootIsCurrent, BegunBy
    <2>5. CASE Restarted  BY <2>1, <2>5, ImportedFacts DEF Restarted, InFlightHasPerformer
    <2> QED  BY <1>2, <2>3, <2>4, <2>5, EngineStep DEF Moves, InFlight, InFlightHasPerformer
  <1> QED  BY <1>1, <1>2, TypeAlways, PTL DEF Spec

------------------------------------------------------------------------------
(* Acknowledgements. *)

\* The file is behind the engine only in what was not acknowledged.
AckInv ==
    /\ durable.next <= engine.next
    /\ \A a \in AttemptIds :
        /\ <<a, "begun">> \in acked =>
            /\ a < durable.next
            /\ (a \in DOMAIN engine.attempts /\ ~Settled(engine.attempts[a].state))
                    => a \in DOMAIN durable.attempts
        /\ <<a, "settled">> \in acked =>
            /\ a < durable.next
            /\ a \notin DOMAIN durable.attempts
            /\ a \in DOMAIN engine.attempts => Settled(engine.attempts[a].state)

LEMMA AckStep ==
    ASSUME TypeInv, AckInv, [Next]_vars
    PROVE  AckInv'
  <1>1. /\ engine \in EngineState /\ durable \in EngineState
        /\ engine' \in EngineState /\ durable' \in EngineState
    BY TypeStep DEF TypeInv
  <1>2. /\ engine.next \in Nat /\ durable.next \in Nat
        /\ engine'.next \in Nat /\ durable'.next \in Nat
        /\ \A a \in DOMAIN engine.attempts : a \in Nat /\ a < engine.next
        /\ \A a \in AttemptIds : a \in Nat
    BY <1>1, AttemptsType, DispatchBoundAssumption DEF AttemptIds
  <1>7. \A a \in AttemptIds :
            <<a, "begun">> \in acked \/ <<a, "settled">> \in acked => a < engine.next
    <2>1. \A a \in AttemptIds :
            <<a, "begun">> \in acked \/ <<a, "settled">> \in acked => a < durable.next
      BY DEF AckInv
    <2>2. durable.next <= engine.next  BY DEF AckInv
    <2> QED  BY <1>2, <2>1, <2>2
  <1>3. durable' = Exported(engine') =>
            /\ durable'.next = engine'.next
            /\ DOMAIN durable'.attempts =
                 {a \in DOMAIN engine'.attempts : ~Settled(engine'.attempts[a].state)}
    BY <1>1, ExportedFacts
  <1>4. CASE Carried
    <2>1. /\ engine'.next = engine.next
          /\ DOMAIN engine'.attempts = DOMAIN engine.attempts
          /\ \A a \in DOMAIN engine.attempts :
                Settled(engine.attempts[a].state) => Settled(engine'.attempts[a].state)
      BY <1>4 DEF Carried, Continues
    <2>2. CASE durable' = durable /\ acked' = acked
      BY <1>2, <2>1, <2>2 DEF AckInv
    <2>3. CASE durable' = Exported(engine')
      <3>1. ASSUME NEW a \in AttemptIds, <<a, "begun">> \in acked'
            PROVE  /\ a < durable'.next
                   /\ a \in DOMAIN engine'.attempts /\ ~Settled(engine'.attempts[a].state)
                        => a \in DOMAIN durable'.attempts
        <4>1. <<a, "begun">> \in acked  BY <1>4, <3>1 DEF Carried
        <4>2. a < engine.next  BY <1>7, <4>1
        <4> QED  BY <1>3, <2>1, <2>3, <4>2
      <3>2. ASSUME NEW a \in AttemptIds, <<a, "settled">> \in acked'
            PROVE  /\ a < durable'.next /\ a \notin DOMAIN durable'.attempts
                   /\ a \in DOMAIN engine'.attempts => Settled(engine'.attempts[a].state)
        <4>1. CASE <<a, "settled">> \in acked
          <5>1. a < engine.next  BY <1>7, <4>1
          <5>2. a \in DOMAIN engine'.attempts => Settled(engine'.attempts[a].state)
            BY <2>1, <4>1 DEF AckInv
          <5> QED  BY <1>3, <2>1, <2>3, <5>1, <5>2
        <4>2. CASE <<a, "settled">> \notin acked
          <5>1. a \in DOMAIN engine.attempts /\ Settled(engine'.attempts[a].state)
            BY <1>4, <3>2, <4>2 DEF Carried
          <5> QED  BY <1>2, <1>3, <2>1, <2>3, <5>1
        <4> QED  BY <4>1, <4>2
      <3> QED  BY <1>2, <1>3, <2>3, <3>1, <3>2 DEF AckInv
    <2> QED  BY <1>4, <2>2, <2>3 DEF Carried
  <1>5. ASSUME NEW b \in Boots, NEW i \in BOOLEAN, BegunBy(b, i) PROVE AckInv'
    <2>1. /\ engine'.next = engine.next + 1 /\ engine.next \notin DOMAIN engine.attempts
          /\ DOMAIN engine'.attempts = DOMAIN engine.attempts \cup {engine.next}
          /\ \A a \in DOMAIN engine.attempts : engine'.attempts[a] = engine.attempts[a]
          /\ ~Settled(engine'.attempts[engine.next].state)
      BY <1>5, BegunStep DEF Settled
    <2>2. CASE durable' = durable /\ acked' = acked
      BY <1>2, <2>1, <2>2 DEF AckInv
    <2>3. CASE durable' = Exported(engine') /\ acked' = acked \cup {<<engine.next, "begun">>}
      <3>1. ASSUME NEW a \in AttemptIds, <<a, "begun">> \in acked'
            PROVE  /\ a < durable'.next
                   /\ a \in DOMAIN engine'.attempts /\ ~Settled(engine'.attempts[a].state)
                        => a \in DOMAIN durable'.attempts
        <4>1. <<a, "begun">> \in acked \/ a = engine.next  BY <2>3, <3>1
        <4>2. a = engine.next \/ a < engine.next  BY <1>7, <4>1
        <4>3. a < engine'.next  BY <1>2, <2>1, <4>2
        <4> QED  BY <1>3, <2>3, <4>3
      <3>2. ASSUME NEW a \in AttemptIds, <<a, "settled">> \in acked'
            PROVE  /\ a < durable'.next /\ a \notin DOMAIN durable'.attempts
                   /\ a \in DOMAIN engine'.attempts => Settled(engine'.attempts[a].state)
        <4>1. <<a, "settled">> \in acked  BY <2>3, <3>2
        <4>2. a < engine.next  BY <1>7, <4>1
        <4>3. a < engine'.next /\ a # engine.next  BY <1>2, <2>1, <4>2
        <4>4. a \in DOMAIN engine'.attempts => Settled(engine'.attempts[a].state)
          BY <2>1, <4>1, <4>3 DEF AckInv
        <4> QED  BY <1>3, <2>3, <4>3, <4>4
      <3> QED  BY <1>2, <1>3, <2>3, <3>1, <3>2 DEF AckInv
    <2> QED  BY <1>5, <2>2, <2>3 DEF BegunBy
  <1>6. CASE Restarted
    <2>1. /\ durable' = durable /\ acked' = acked /\ engine'.next = durable.next
          /\ DOMAIN engine'.attempts = DOMAIN durable.attempts
      BY <1>1, <1>6, ImportedFacts DEF Restarted
    <2> QED  BY <1>2, <2>1 DEF AckInv
  <1> QED  BY <1>4, <1>5, <1>6, EngineStep DEF Moves

LEMMA AckAlways == Spec => []AckInv
  <1>1. Init => AckInv  BY FreshFacts DEF Init, AckInv
  <1>2. TypeInv /\ AckInv /\ [Next]_vars => AckInv'  BY AckStep
  <1> QED  BY <1>1, <1>2, TypeAlways, PTL DEF Spec

\* What the coordinator acknowledged survives every crash and every failed save: an
\* attempt it confirmed is not lost while it is unsettled and its identity is not
\* assigned again, and one whose completion it confirmed never becomes unsettled.
THEOREM AcknowledgementsSurvive == Spec => AcknowledgedSurvives
  <1> DEFINE A == \A a \in AttemptIds :
                    /\ <<a, "begun">> \in acked =>
                        /\ engine'.next > a
                        /\ (a \in DOMAIN engine.attempts /\ ~Settled(engine.attempts[a].state))
                                => a \in DOMAIN engine'.attempts
                    /\ (<<a, "settled">> \in acked /\ a \in DOMAIN engine'.attempts)
                            => Settled(engine'.attempts[a].state)
  <1>1. ASSUME TypeInv, AckInv, [Next]_vars PROVE A
    <2>1. AckInv' /\ TypeInv'  BY <1>1, AckStep, TypeStep
    <2>2. acked \subseteq acked'
      BY <1>1, EngineStep DEF Moves, Carried, BegunBy, Restarted
    <2>3. /\ engine'.next \in Nat /\ durable'.next \in Nat
          /\ \A a \in AttemptIds : a \in Nat
      BY <2>1, AttemptsType, DispatchBoundAssumption DEF TypeInv, AttemptIds
    <2>4. DOMAIN engine.attempts \subseteq DOMAIN engine'.attempts
          \/ DOMAIN engine'.attempts = DOMAIN durable.attempts
      <3>1. CASE Carried  BY <3>1 DEF Carried, Continues
      <3>2. ASSUME NEW b \in Boots, NEW i \in BOOLEAN, BegunBy(b, i)
            PROVE  DOMAIN engine.attempts \subseteq DOMAIN engine'.attempts
        BY <1>1, <3>2, BegunStep
      <3>3. CASE Restarted  BY <1>1, <3>3, ImportedFacts DEF TypeInv, Restarted
      <3> QED  BY <1>1, <3>1, <3>2, <3>3, EngineStep DEF Moves
    <2>5. ASSUME NEW a \in AttemptIds, <<a, "begun">> \in acked
          PROVE  /\ engine'.next > a
                 /\ (a \in DOMAIN engine.attempts /\ ~Settled(engine.attempts[a].state))
                        => a \in DOMAIN engine'.attempts
      <3>1. a < durable'.next /\ durable'.next <= engine'.next
        BY <2>1, <2>2, <2>5 DEF AckInv
      <3>2. engine'.next > a  BY <2>3, <3>1
      <3>3. (a \in DOMAIN engine.attempts /\ ~Settled(engine.attempts[a].state))
                => a \in DOMAIN durable.attempts
        BY <1>1, <2>5 DEF AckInv
      <3> QED  BY <2>4, <3>2, <3>3
    <2>6. ASSUME NEW a \in AttemptIds, <<a, "settled">> \in acked,
                 a \in DOMAIN engine'.attempts
          PROVE  Settled(engine'.attempts[a].state)
      BY <2>1, <2>2, <2>6 DEF AckInv
    <2> QED  BY <2>5, <2>6
  <1>2. TypeInv /\ AckInv /\ [Next]_vars => [A]_vars  BY <1>1
  <1> QED  BY <1>2, TypeAlways, AckAlways, PTL DEF Spec, AcknowledgedSurvives

------------------------------------------------------------------------------
(* Commands, when saves succeed. *)

Command(a) == [type |-> "COMMAND", attempt |-> a]

NoneQueued(q, a) == \A b \in Boots : \A i \in 1..Len(q[b]) : q[b][i] # Command(a)

OneQueued(q, a) ==
    \A b, c \in Boots : \A i \in 1..Len(q[b]), j \in 1..Len(q[c]) :
        q[b][i] = Command(a) /\ q[c][j] = Command(a) => b = c /\ i = j

\* The command of the attempt may still be sent.
Unsent(a) ==
    \/ a >= engine.next
    \/ /\ a \in DOMAIN engine.attempts
       /\ engine.attempts[a].state = "Dispatched"
       /\ a \notin dispatched

\* A completion on its way tells what the execution did.
ClaimsTrue(q, done, applied) ==
    \A b \in Boots : \A i \in 1..Len(q[b]) :
        q[b][i].type = "COMPLETION" =>
            /\ done[q[b][i].attempt] # 0
            /\ q[b][i].success <=> q[b][i].attempt \in applied

\* The file knows every identity ever assigned and holds unsettled attempts only.
FileCurrent ==
    /\ durable.next = engine.next
    /\ \A a \in DOMAIN durable.attempts : ~Settled(durable.attempts[a].state)

\* A command is unsent, in one queue, or executed.
CommandOnce(a) ==
    /\ executions[a] <= 1
    /\ OneQueued(toWorker, a)
    /\ Unsent(a) \/ executions[a] # 0 => NoneQueued(toWorker, a)
    /\ Unsent(a) => executions[a] = 0
    /\ executions[a] = 0 => a \notin effects

\* An outcome was claimed by the execution or observed.
OutcomeFounded(a) ==
    /\ engine.attempts[a].state = "Completed" => a \in effects
    /\ engine.attempts[a].state = "Failed" /\ ~engine.attempts[a].idempotent =>
            executions[a] # 0 /\ a \notin effects

OnceInv ==
    /\ FileCurrent
    /\ \A a \in AttemptIds : CommandOnce(a)
    /\ ClaimsTrue(toCoord, executions, effects)
    /\ \A a \in DOMAIN engine.attempts : OutcomeFounded(a)

\* What a queue may do without a command being sent or executed: none appears.
Quieter(q, r) ==
    \A a \in AttemptIds : /\ NoneQueued(q, a) => NoneQueued(r, a)
                          /\ OneQueued(q, a) => OneQueued(r, a)

LEMMA TailFacts ==
    ASSUME NEW s \in Seq(Frame), s # <<>>
    PROVE  /\ Len(s) \in Nat /\ Len(s) >= 1 /\ Head(s) = s[1]
           /\ Len(Tail(s)) = Len(s) - 1
           /\ \A i \in 1..Len(Tail(s)) : i + 1 \in 1..Len(s) /\ Tail(s)[i] = s[i + 1]
  OBVIOUS

LEMMA AppendFacts ==
    ASSUME NEW s \in Seq(Frame), NEW f \in Frame
    PROVE  /\ Len(s) \in Nat /\ Len(Append(s, f)) = Len(s) + 1
           /\ \A i \in 1..Len(s) : Append(s, f)[i] = s[i]
           /\ Append(s, f)[Len(s) + 1] = f
           /\ \A i \in 1..(Len(s) + 1) : i \in 1..Len(s) \/ i = Len(s) + 1
  OBVIOUS

LEMMA TakeQuieter ==
    ASSUME NEW q \in [Boots -> Seq(Frame)], NEW b \in Boots, q[b] # <<>>,
           NEW r, r = [q EXCEPT ![b] = Tail(@)]
    PROVE  /\ Quieter(q, r)
           /\ \A a \in AttemptIds : OneQueued(q, a) /\ Head(q[b]) = Command(a) => NoneQueued(r, a)
  <1>1. /\ Len(r[b]) = Len(q[b]) - 1 /\ Head(q[b]) = q[b][1]
        /\ Len(q[b]) \in Nat /\ Len(q[b]) >= 1
        /\ \A i \in 1..Len(r[b]) : i + 1 \in 1..Len(q[b]) /\ r[b][i] = q[b][i + 1]
    BY TailFacts
  <1>2. \A c \in Boots : c # b => r[c] = q[c]  OBVIOUS
  <1>3. ASSUME NEW a \in AttemptIds, NoneQueued(q, a) PROVE NoneQueued(r, a)
    BY <1>1, <1>2, <1>3 DEF NoneQueued
  <1>4. \A c \in Boots : \A i \in 1..Len(r[c]) :
            \E k \in 1..Len(q[c]) : r[c][i] = q[c][k] /\ k = IF c = b THEN i + 1 ELSE i
    BY <1>1, <1>2
  <1>5. ASSUME NEW a \in AttemptIds, OneQueued(q, a) PROVE OneQueued(r, a)
    <2> SUFFICES \A c, d \in Boots : \A i \in 1..Len(r[c]), j \in 1..Len(r[d]) :
                    r[c][i] = Command(a) /\ r[d][j] = Command(a) => c = d /\ i = j
      BY DEF OneQueued
    <2> TAKE c, d \in Boots
    <2> TAKE i \in 1..Len(r[c]), j \in 1..Len(r[d])
    <2>1. HAVE r[c][i] = Command(a) /\ r[d][j] = Command(a)
    <2>2. PICK k \in 1..Len(q[c]) : r[c][i] = q[c][k] /\ k = IF c = b THEN i + 1 ELSE i
      BY <1>4
    <2>3. PICK l \in 1..Len(q[d]) : r[d][j] = q[d][l] /\ l = IF d = b THEN j + 1 ELSE j
      BY <1>4
    <2>4. c = d /\ k = l  BY <1>5, <2>1, <2>2, <2>3 DEF OneQueued
    <2> QED  BY <2>2, <2>3, <2>4
  <1>6. ASSUME NEW a \in AttemptIds, OneQueued(q, a), Head(q[b]) = Command(a)
        PROVE  NoneQueued(r, a)
    <2>1. SUFFICES ASSUME NEW c \in Boots, NEW i \in 1..Len(r[c]), r[c][i] = Command(a)
                   PROVE  FALSE
      BY DEF NoneQueued
    <2>2. PICK k \in 1..Len(q[c]) : r[c][i] = q[c][k] /\ k = IF c = b THEN i + 1 ELSE i
      BY <1>4
    <2>3. 1 \in 1..Len(q[b]) /\ q[b][1] = Command(a)  BY <1>1, <1>6
    <2>4. c = b /\ k = 1  BY <1>6, <2>1, <2>2, <2>3 DEF OneQueued
    <2> QED  BY <2>2, <2>4
  <1> QED  BY <1>3, <1>5, <1>6 DEF Quieter

LEMMA EmptyQuieter ==
    ASSUME NEW q \in [Boots -> Seq(Frame)], NEW b \in Boots, NEW r, r = [q EXCEPT ![b] = <<>>]
    PROVE  Quieter(q, r)
  <1>1. \A c \in Boots : r[c] = q[c] \/ r[c] = <<>>  OBVIOUS
  <1>2. \A c \in Boots : \A i \in 1..Len(r[c]) : i \in 1..Len(q[c]) /\ r[c][i] = q[c][i]
    BY <1>1
  <1> QED  BY <1>2 DEF Quieter, NoneQueued, OneQueued

Sent(q, b, f) == [q EXCEPT ![b] = Append(@, f)]

LEMMA SendQuieter ==
    ASSUME NEW q \in [Boots -> Seq(Frame)], NEW b \in Boots, NEW f \in Frame
    PROVE  /\ \A a \in AttemptIds :
                f # Command(a) => /\ NoneQueued(q, a) => NoneQueued(Sent(q, b, f), a)
                                  /\ OneQueued(q, a) => OneQueued(Sent(q, b, f), a)
           /\ \A a \in AttemptIds : NoneQueued(q, a) => OneQueued(Sent(q, b, f), a)
           /\ (\A a \in AttemptIds : f # Command(a)) => Quieter(q, Sent(q, b, f))
  <1> DEFINE r == Sent(q, b, f)
  <1>8. r = [q EXCEPT ![b] = Append(@, f)]  BY DEF Sent
  <1> HIDE DEF r
  <1>1. /\ Len(q[b]) \in Nat /\ Len(r[b]) = Len(q[b]) + 1
        /\ \A i \in 1..Len(q[b]) : r[b][i] = q[b][i]
        /\ r[b][Len(q[b]) + 1] = f
        /\ \A i \in 1..Len(r[b]) : i \in 1..Len(q[b]) \/ i = Len(q[b]) + 1
    BY <1>8, AppendFacts
  <1>2. \A c \in Boots : c # b => r[c] = q[c]  BY <1>8
  <1>3. \A c \in Boots : \A i \in 1..Len(r[c]) :
            \/ i \in 1..Len(q[c]) /\ r[c][i] = q[c][i]
            \/ c = b /\ i = Len(q[b]) + 1 /\ r[c][i] = f
    BY <1>1, <1>2
  <1>4. ASSUME NEW a \in AttemptIds, f # Command(a), NoneQueued(q, a) PROVE NoneQueued(r, a)
    BY <1>3, <1>4 DEF NoneQueued
  <1>5. ASSUME NEW a \in AttemptIds, f # Command(a), OneQueued(q, a) PROVE OneQueued(r, a)
    <2> SUFFICES \A c, d \in Boots : \A i \in 1..Len(r[c]), j \in 1..Len(r[d]) :
                    r[c][i] = Command(a) /\ r[d][j] = Command(a) => c = d /\ i = j
      BY DEF OneQueued
    <2> TAKE c, d \in Boots
    <2> TAKE i \in 1..Len(r[c]), j \in 1..Len(r[d])
    <2>1. HAVE r[c][i] = Command(a) /\ r[d][j] = Command(a)
    <2>2. i \in 1..Len(q[c]) /\ q[c][i] = Command(a)  BY <1>3, <1>5, <2>1
    <2>3. j \in 1..Len(q[d]) /\ q[d][j] = Command(a)  BY <1>3, <1>5, <2>1
    <2> QED  BY <1>5, <2>2, <2>3 DEF OneQueued
  <1>6. ASSUME NEW a \in AttemptIds, NoneQueued(q, a) PROVE OneQueued(r, a)
    <2> SUFFICES \A c, d \in Boots : \A i \in 1..Len(r[c]), j \in 1..Len(r[d]) :
                    r[c][i] = Command(a) /\ r[d][j] = Command(a) => c = d /\ i = j
      BY DEF OneQueued
    <2> TAKE c, d \in Boots
    <2> TAKE i \in 1..Len(r[c]), j \in 1..Len(r[d])
    <2>1. HAVE r[c][i] = Command(a) /\ r[d][j] = Command(a)
    <2>2. c = b /\ i = Len(q[b]) + 1  BY <1>3, <1>6, <2>1 DEF NoneQueued
    <2>3. d = b /\ j = Len(q[b]) + 1  BY <1>3, <1>6, <2>1 DEF NoneQueued
    <2> QED  BY <2>2, <2>3
  <1>7. (\A a \in AttemptIds : f # Command(a)) => Quieter(q, r)
    BY <1>4, <1>5 DEF Quieter
  <1> QED  BY <1>4, <1>5, <1>6, <1>7 DEF r

\* No completion appears.
FewerClaims(q, r) ==
    \A b \in Boots : \A i \in 1..Len(r[b]) :
        r[b][i].type = "COMPLETION" => \E k \in 1..Len(q[b]) : r[b][i] = q[b][k]

LEMMA QueueFewerClaims ==
    ASSUME NEW q \in [Boots -> Seq(Frame)], NEW b \in Boots, NEW r
    PROVE  /\ r = q => FewerClaims(q, r)
           /\ q[b] # <<>> /\ r = [q EXCEPT ![b] = Tail(@)] => FewerClaims(q, r)
           /\ r = [q EXCEPT ![b] = <<>>] => FewerClaims(q, r)
           /\ r = [q EXCEPT ![b] = <<[type |-> "HELLO"]>>] => FewerClaims(q, r)
           /\ \A f \in Frame : f.type # "COMPLETION" /\ r = [q EXCEPT ![b] = Append(@, f)]
                    => FewerClaims(q, r)
  <1>1. r = q => FewerClaims(q, r)  BY DEF FewerClaims
  <1>2. ASSUME q[b] # <<>>, r = [q EXCEPT ![b] = Tail(@)] PROVE FewerClaims(q, r)
    <2>1. \A i \in 1..Len(r[b]) : i + 1 \in 1..Len(q[b]) /\ r[b][i] = q[b][i + 1]
      BY <1>2, TailFacts
    <2>2. \A c \in Boots : c # b => r[c] = q[c]  BY <1>2
    <2> QED  BY <2>1, <2>2 DEF FewerClaims
  <1>3. ASSUME r = [q EXCEPT ![b] = <<>>] PROVE FewerClaims(q, r)
    <2>1. \A c \in Boots : r[c] = q[c] \/ r[c] = <<>>  BY <1>3
    <2>2. \A c \in Boots : \A i \in 1..Len(r[c]) : r[c] = q[c]  BY <2>1
    <2> QED  BY <2>2 DEF FewerClaims
  <1>4. ASSUME r = [q EXCEPT ![b] = <<[type |-> "HELLO"]>>] PROVE FewerClaims(q, r)
    <2>1. \A c \in Boots : r[c] = q[c] \/ r[c] = <<[type |-> "HELLO"]>>  BY <1>4
    <2>2. \A i \in 1..Len(<<[type |-> "HELLO"]>>) : <<[type |-> "HELLO"]>>[i].type = "HELLO"
      OBVIOUS
    <2> QED  BY <2>1, <2>2 DEF FewerClaims
  <1>5. ASSUME NEW f \in Frame, f.type # "COMPLETION", r = [q EXCEPT ![b] = Append(@, f)]
        PROVE  FewerClaims(q, r)
    <2>1. \A i \in 1..Len(r[b]) : (i \in 1..Len(q[b]) /\ r[b][i] = q[b][i]) \/ r[b][i] = f
      BY <1>5, AppendFacts
    <2>2. \A c \in Boots : c # b => r[c] = q[c]  BY <1>5
    <2> QED  BY <1>5, <2>1, <2>2 DEF FewerClaims
  <1> QED  BY <1>1, <1>2, <1>3, <1>4, <1>5

Quiet ==
    /\ Quieter(toWorker, toWorker') /\ FewerClaims(toCoord, toCoord')
    /\ UNCHANGED <<executions, effects>>

Executes(b, a, applied) ==
    /\ toWorker[b] # <<>> /\ Head(toWorker[b]) = Command(a)
    /\ toWorker' = [toWorker EXCEPT ![b] = Tail(@)]
    /\ executions' = [executions EXCEPT ![a] = @ + 1]
    /\ effects' = IF applied THEN effects \cup {a} ELSE effects
    /\ \/ toCoord' = toCoord
       \/ \E c \in BOOLEAN :
            toCoord' = [toCoord EXCEPT ![b] = Append(@, [type |-> "COMPLETION", attempt |-> a,
                                                         success |-> applied, confirmed |-> c])]
    /\ UNCHANGED coordinatorVars

\* The frames a worker sends when it executes nothing.
LEMMA WorkerQuiet ==
    ASSUME TypeInv, NEW b \in Boots, WorkerStep(b) \/ ExecuteAndDie(b) \/ Die(b)
    PROVE  \/ Quiet
           \/ \E a \in AttemptIds, applied \in BOOLEAN : Executes(b, a, applied)
  <1> DEFINE silent == \/ toCoord' = toCoord
                       \/ \E f \in Frame : /\ f.type # "COMPLETION"
                                           /\ toCoord' = [toCoord EXCEPT ![b] = Append(@, f)]
  <1>1. toWorker \in [Boots -> Seq(Frame)] /\ toCoord \in [Boots -> Seq(Frame)]
    BY DEF TypeInv, RestType
  <1>2. Quieter(toWorker, toWorker')
    <2>1. \/ toWorker' = toWorker
          \/ toWorker[b] # <<>> /\ toWorker' = [toWorker EXCEPT ![b] = Tail(@)]
      BY WorkerStepType
    <2>2. Quieter(toWorker, toWorker)  BY DEF Quieter
    <2> QED  BY <1>1, <2>1, <2>2, TakeQuieter
  <1>3. ASSUME silent, UNCHANGED <<executions, effects>> PROVE Quiet
    <2>1. FewerClaims(toCoord, toCoord')  BY <1>1, <1>3, QueueFewerClaims
    <2> QED  BY <1>2, <1>3, <2>1 DEF Quiet
  <1>4. \A resident, rest : Publish(b, resident, rest) => silent
    BY Frames DEF Publish, SendToCoord
  <1>5. CASE HelloReply(b)
    <2>1. silent  BY <1>5, Frames DEF HelloReply, SendToCoord
    <2> QED  BY <1>3, <1>5, <2>1 DEF HelloReply
  <1>6. CASE RegisterReply(b) \/ CompletionReply(b) \/ PublishReply(b)
    <2>1. silent  BY <1>4, <1>6 DEF RegisterReply, CompletionReply, PublishReply
    <2> QED  BY <1>3, <1>6, <2>1 DEF RegisterReply, CompletionReply, PublishReply
  <1>7. CASE ServeOther(b)
    <2>1. silent  BY <1>7, Frames DEF ServeOther, SendToCoord
    <2> QED  BY <1>3, <1>7, <2>1 DEF ServeOther
  <1>8. CASE Disconnected(b) \/ Die(b)  BY <1>3, <1>8 DEF Disconnected, Die
  <1>9. CASE ServeCommand(b)
    <2>1. PICK a \in AttemptIds, applied, c \in BOOLEAN :
            /\ Execute(b, a, applied)
            /\ SendToCoord(b, [type |-> "COMPLETION", attempt |-> a, success |-> applied,
                               confirmed |-> c])
      BY <1>9 DEF ServeCommand
    <2>2. Executes(b, a, applied)
      BY <1>9, <2>1 DEF ServeCommand, Receiving, Execute, Executes, SendToCoord, Command
    <2> QED  BY <2>2
  <1>10. CASE ExecuteAndDie(b)
    BY <1>10 DEF ExecuteAndDie, Receiving, Execute, Executes, Command
  <1> QED  BY <1>5, <1>6, <1>7, <1>8, <1>9, <1>10 DEF WorkerStep

LEMMA TrafficStep ==
    ASSUME TypeInv, [Next]_vars
    PROVE  \/ Quiet
           \/ \E a \in AttemptIds : DispatchPending(a)
           \/ \E b \in Boots, a \in AttemptIds, applied \in BOOLEAN : Executes(b, a, applied)
  <1>1. toWorker \in [Boots -> Seq(Frame)] /\ toCoord \in [Boots -> Seq(Frame)]
    BY DEF TypeInv, RestType
  <1>2. Quieter(toWorker, toWorker) /\ FewerClaims(toCoord, toCoord)
    BY DEF Quieter, FewerClaims
  <1>3. CASE UNCHANGED <<toWorker, toCoord, executions, effects>>  BY <1>2, <1>3 DEF Quiet
  <1>4. ASSUME NEW b \in Boots, HandleFrame(b) PROVE Quiet
    <2>1. PICK ok \in BOOLEAN :
            toWorker' = [toWorker EXCEPT ![b] = Append(@, [type |-> "REPLY", ok |-> ok])]
      BY <1>4, HandleFrameType
    <2>2. /\ toCoord[b] # <<>> /\ toCoord' = [toCoord EXCEPT ![b] = Tail(@)]
          /\ UNCHANGED <<executions, effects>>
      BY <1>4, HandleFrameType
    <2>3. FewerClaims(toCoord, toCoord')  BY <1>1, <2>2, QueueFewerClaims
    <2>4. /\ [type |-> "REPLY", ok |-> ok] \in Frame
          /\ \A a \in AttemptIds : [type |-> "REPLY", ok |-> ok] # Command(a)
      BY Frames DEF Command
    <2>5. Quieter(toWorker, toWorker')
      <3> DEFINE f == [type |-> "REPLY", ok |-> ok]
      <3>1. f \in Frame /\ toWorker' = Sent(toWorker, b, f)  BY <2>1, <2>4 DEF Sent
      <3>2. \A a \in AttemptIds : f # Command(a)  BY <2>4
      <3> HIDE DEF f
      <3> QED  BY <1>1, <3>1, <3>2, SendQuieter
    <2> QED  BY <2>2, <2>3, <2>5 DEF Quiet
  <1>5. ASSUME NEW b \in Boots, CloseSession(b) PROVE Quiet
    <2>1. FewerClaims(toCoord, toCoord')  BY <1>1, <1>5, QueueFewerClaims DEF CloseSession
    <2> QED  BY <1>2, <1>5, <2>1 DEF CloseSession, Quiet
  <1>6. ASSUME NEW b \in Boots, Start(b) PROVE Quiet
    <2>1. FewerClaims(toCoord, toCoord')  BY <1>1, <1>6, QueueFewerClaims DEF Start
    <2>2. Quieter(toWorker, toWorker')  BY <1>1, <1>6, EmptyQuieter DEF Start
    <2> QED  BY <1>6, <2>1, <2>2 DEF Start, Quiet
  <1>7. ASSUME \/ \E b \in Boots, i \in BOOLEAN : RequestAttempt(b, i)
               \/ \E w \in Workers : RequestFence(w)
               \/ \E a \in DOMAIN engine.attempts : ReconcileAttempt(a)
               \/ ReviseSubject \/ EndServe \/ EndDispatch \/ EndPoll \/ Crash \/ Restart
               \/ UNCHANGED vars
        PROVE  Quiet
    <2>1. UNCHANGED <<toWorker, toCoord, executions, effects>>
      BY <1>7 DEF RequestAttempt, RequestFence, ReconcileAttempt, ReviseSubject, EndServe,
            EndDispatch, EndPoll, Crash, Restart, vars
    <2> QED  BY <1>2, <2>1 DEF Quiet
  <1> QED  BY <1>4, <1>5, <1>6, <1>7, WorkerQuiet DEF Next, Poll

\* An attempt whose command may still be sent could be sent before: dispatched_ only
\* grows, except in a restart, which leaves nothing in flight.
LEMMA UnsentStep ==
    ASSUME TypeInv, FileCurrent, [Next]_vars, NEW a \in AttemptIds, Unsent(a)'
    PROVE  Unsent(a)
  <1>1. Restart \/ dispatched \subseteq dispatched'
    <2>1. ASSUME NEW b \in Boots, HandleFrame(b) PROVE dispatched' = dispatched
      BY <2>1, HandleFrameType
    <2>2. ASSUME NEW b \in Boots, WorkerStep(b) \/ ExecuteAndDie(b) \/ Die(b)
          PROVE  dispatched' = dispatched
      BY <2>2, WorkerStepType DEF coordinatorVars
    <2>3. ASSUME NEW b \in Boots, CloseSession(b) \/ Start(b) PROVE dispatched' = dispatched
      BY <2>3 DEF CloseSession, Start
    <2>4. ASSUME \/ \E b \in Boots, i \in BOOLEAN : RequestAttempt(b, i)
                 \/ \E w \in Workers : RequestFence(w)
                 \/ \E x \in DOMAIN engine.attempts : ReconcileAttempt(x)
                 \/ ReviseSubject \/ EndServe \/ EndDispatch \/ EndPoll \/ Crash
                 \/ UNCHANGED vars
          PROVE  dispatched' = dispatched
      BY <2>4 DEF RequestAttempt, RequestFence, ReconcileAttempt, ReviseSubject, EndServe,
            EndDispatch, EndPoll, Crash, vars, coordinatorVars
    <2>5. ASSUME NEW x \in AttemptIds, DispatchPending(x) PROVE dispatched \subseteq dispatched'
      BY <2>5 DEF DispatchPending
    <2> QED  BY <2>1, <2>2, <2>3, <2>4, <2>5 DEF Next, Poll
  <1>2. /\ engine \in EngineState /\ durable \in EngineState
        /\ engine.next \in Nat /\ a \in Nat
    BY AttemptsType, DispatchBoundAssumption DEF TypeInv, AttemptIds
  <1>3. CASE Restarted
    <2>1. /\ engine'.next = engine.next
          /\ \A x \in DOMAIN engine'.attempts : engine'.attempts[x].state # "Dispatched"
      BY <1>2, <1>3, ImportedFacts DEF Restarted, FileCurrent
    <2> QED  BY <2>1 DEF Unsent
  <1>4. CASE ~Restarted /\ Carried
    <2>1. dispatched \subseteq dispatched'  BY <1>1, <1>4 DEF Restart, Restarted
    <2> QED  BY <1>4, <2>1 DEF Carried, Continues, Unsent
  <1>5. ASSUME ~Restarted, NEW b \in Boots, NEW i \in BOOLEAN, BegunBy(b, i) PROVE Unsent(a)
    <2>1. dispatched \subseteq dispatched'  BY <1>1, <1>5 DEF Restart, Restarted
    <2>2. /\ engine'.next = engine.next + 1
          /\ DOMAIN engine'.attempts = DOMAIN engine.attempts \cup {engine.next}
          /\ \A x \in DOMAIN engine.attempts : engine'.attempts[x] = engine.attempts[x]
      BY <1>5, BegunStep
    <2>3. CASE a >= engine'.next  BY <1>2, <2>2, <2>3 DEF Unsent
    <2>4. CASE a = engine.next  BY <1>2, <2>4 DEF Unsent
    <2>5. CASE ~(a >= engine'.next) /\ a # engine.next  BY <2>1, <2>2, <2>5 DEF Unsent
    <2> QED  BY <2>3, <2>4, <2>5
  <1> QED  BY <1>3, <1>4, <1>5, EngineStep DEF Moves

LEMMA FileCurrentStep ==
    ASSUME TypeInv, FileCurrent, SavesFail = FALSE, [Next]_vars
    PROVE  FileCurrent'
  <1>1. engine' \in EngineState /\ durable \in EngineState  BY TypeStep DEF TypeInv
  <1>2. CASE durable' = Exported(engine')
    BY <1>1, <1>2, ExportedFacts DEF FileCurrent
  <1>3. CASE durable' = durable /\ Carried  BY <1>3 DEF FileCurrent, Carried, Continues
  <1>4. CASE Restarted  BY <1>1, <1>4, ImportedFacts DEF FileCurrent, Restarted
  <1> QED  BY <1>2, <1>3, <1>4, EngineStep DEF Moves, Carried, BegunBy

\* Which attempts settle, and on which grounds.
LEMMA SettlingStep ==
    ASSUME TypeInv, OnceInv, [Next]_vars, NEW a \in DOMAIN engine'.attempts
    PROVE  /\ engine'.attempts[a].state = "Completed" => a \in effects
           /\ engine'.attempts[a].state = "Failed" /\ ~engine'.attempts[a].idempotent =>
                executions[a] # 0 /\ a \notin effects
  <1> DEFINE Founded == 
           /\ engine'.attempts[a].state = "Completed" => a \in effects
           /\ engine'.attempts[a].state = "Failed" /\ ~engine'.attempts[a].idempotent =>
                executions[a] # 0 /\ a \notin effects
  <1>1. /\ engine \in EngineState /\ durable \in EngineState
        /\ toCoord \in [Boots -> Seq(Frame)]
    BY DEF TypeInv, RestType
  <1>2. ASSUME SettlesNothing(engine, engine') PROVE Founded
    BY <1>2 DEF SettlesNothing, OnceInv, OutcomeFounded, Settled
  <1>3. ASSUME engine' = engine PROVE Founded
    BY <1>2, <1>3 DEF SettlesNothing
  <1>4. ASSUME NEW x \in DOMAIN engine.attempts, ~Settled(engine.attempts[x].state),
               NEW s \in AttemptState \ {"Dispatched"},
               engine' = [engine EXCEPT !.attempts[x].state = s],
               s = "Completed" => x \in effects,
               s = "Failed" /\ ~engine.attempts[x].idempotent =>
                    executions[x] # 0 /\ x \notin effects
        PROVE  Founded
    <2>1. /\ Continues(engine, engine')
          /\ engine'.attempts = [engine.attempts EXCEPT ![x].state = s]
      BY <1>1, <1>4, StateChangeKeeps
    <2>2. a \in DOMAIN engine.attempts /\ engine'.attempts[a].idempotent = engine.attempts[a].idempotent
      BY <2>1 DEF Continues
    <2>3. CASE a = x
      <3>1. engine'.attempts[a].state = s  BY <1>1, <2>1, <2>2, <2>3, AttemptsType DEF Attempt
      <3> QED  BY <1>4, <2>2, <2>3, <3>1
    <2>4. CASE a # x
      <3>1. engine'.attempts[a] = engine.attempts[a]  BY <1>1, <2>1, <2>2, <2>4, AttemptsType
      <3> QED  BY <2>2, <3>1 DEF OnceInv, OutcomeFounded
    <2> QED  BY <2>3, <2>4
  <1>5. ASSUME NEW b \in Boots, HandleFrame(b) PROVE Founded
    <2>1. CASE HandleHello(b) \/ HandleReply(b)
      BY <1>3, <2>1 DEF HandleHello, HandleReply
    <2>2. CASE HandleRegister(b)
      <3>1. CASE RegistrationAllowed(engine, b)
        <4>1. engine' = Registered(engine, b)
          BY <2>2, <3>1 DEF HandleRegister, Acknowledge
        <4> QED  BY <1>1, <1>2, <3>1, <4>1, RegisteredKeeps
      <3>2. CASE ~RegistrationAllowed(engine, b)
        BY <1>3, <2>2, <3>2 DEF HandleRegister, Acknowledge
      <3> QED  BY <3>1, <3>2
    <2>3. CASE HandlePublish(b)  BY <1>3, <2>3 DEF HandlePublish, Acknowledge
    <2>4. CASE HandleCompletion(b)
      <3> DEFINE m == Head(toCoord[b])
      <3>1. m \in Frame /\ m.type = "COMPLETION" /\ toCoord[b] # <<>>
        BY <1>1, <2>4, Queues DEF HandleCompletion, Serving
      <3>2. CASE ~CompletionAllowed(engine, b, m)
        BY <1>3, <2>4, <3>2 DEF HandleCompletion, Acknowledge
      <3>3. CASE CompletionAllowed(engine, b, m)
        <4>1. engine' = [engine EXCEPT !.attempts[m.attempt].state = CompletionState(m)]
          BY <2>4, <3>3 DEF HandleCompletion, Acknowledge
        <4>2. /\ m.attempt \in DOMAIN engine.attempts
              /\ ~Settled(engine.attempts[m.attempt].state)
          BY <3>3 DEF CompletionAllowed
        <4>3. executions[m.attempt] # 0 /\ (m.success <=> m.attempt \in effects)
          <5>1. 1 \in 1..Len(toCoord[b]) /\ toCoord[b][1] = m  BY <1>1, <3>1, TailFacts
          <5> HIDE DEF m
          <5> QED  BY <3>1, <5>1 DEF OnceInv, ClaimsTrue
        <4>4. /\ CompletionState(m) \in AttemptState \ {"Dispatched"}
              /\ CompletionState(m) = "Completed" => m.success
              /\ CompletionState(m) = "Failed" => ~m.success
          BY DEF CompletionState, AttemptState
        <4> HIDE DEF m
        <4> QED  BY <1>4, <4>1, <4>2, <4>3, <4>4
      <3> QED  BY <3>2, <3>3
    <2> QED  BY <1>5, <2>1, <2>2, <2>3, <2>4 DEF HandleFrame
  <1>6. ASSUME NEW b \in Boots, CloseSession(b) PROVE Founded
    BY <1>1, <1>2, <1>3, <1>6, FenceKeeps DEF CloseSession, FencedOnClose
  <1>7. ASSUME NEW b \in Boots, NEW i \in BOOLEAN, RequestAttempt(b, i) PROVE Founded
    <2>1. engine' = Begun(engine, b, i) /\ engine.next \in AttemptIds
      BY <1>7 DEF RequestAttempt
    <2>2. /\ DOMAIN engine'.attempts = DOMAIN engine.attempts \cup {engine.next}
          /\ \A x \in DOMAIN engine.attempts : engine'.attempts[x] = engine.attempts[x]
          /\ engine'.attempts[engine.next] =
                [boot |-> b, idempotent |-> i, current |-> TRUE, state |-> "Dispatched"]
      BY <1>1, <2>1, BegunFacts
    <2>3. engine'.attempts[engine.next].state = "Dispatched"  BY <2>2
    <2>4. SettlesNothing(engine, engine')  BY <2>2, <2>3 DEF SettlesNothing, Settled
    <2> QED  BY <1>2, <2>4
  <1>8. ASSUME NEW w \in Workers, RequestFence(w) PROVE Founded
    <2>1. engine.leases[w].boot \in Boots
      BY <1>1, <1>8, AttemptsType DEF RequestFence, Lease
    <2>2. engine' = Fence(engine, engine.leases[w].boot)  BY <1>8 DEF RequestFence
    <2> QED  BY <1>1, <1>2, <2>1, <2>2, FenceKeeps
  <1>9. ASSUME NEW x \in DOMAIN engine.attempts, ReconcileAttempt(x) PROVE Founded
    <2> DEFINE s == ReconciledState(engine.attempts[x], x \in effects)
    <2>1. /\ ~Settled(engine.attempts[x].state)
          /\ s \in AttemptState \ {"Dispatched"}
          /\ s = "Completed" => x \in effects
          /\ s = "Failed" => engine.attempts[x].idempotent
      BY <1>9 DEF ReconcileAttempt, Settled, ReconciledState, AttemptState
    <2>2. engine' = [engine EXCEPT !.attempts[x].state = s]  BY <1>9 DEF ReconcileAttempt
    <2> HIDE DEF s
    <2> QED  BY <1>4, <2>1, <2>2
  <1>10. CASE ReviseSubject
    <2>1. engine' = Revised(engine)  BY <1>10 DEF ReviseSubject, Revised
    <2> QED  BY <1>1, <1>2, <2>1, ReviseKeeps
  <1>11. CASE Restart
    <2>1. \A x \in DOMAIN engine'.attempts : ~Settled(engine'.attempts[x].state)
      BY <1>1, <1>11, ImportedFacts DEF Restart, OnceInv, FileCurrent
    <2> QED  BY <2>1 DEF Settled
  <1>12. CASE Poll \/ Crash \/ (\E b \in Boots : Start(b)) \/ UNCHANGED vars
    <2>1. engine' = engine
      BY <1>12 DEF Poll, EndServe, DispatchPending, EndDispatch, EndPoll, Crash, Start, vars,
            coordinatorVars
    <2> QED  BY <1>3, <2>1
  <1>13. ASSUME NEW b \in Boots, WorkerStep(b) \/ ExecuteAndDie(b) \/ Die(b) PROVE Founded
    BY <1>3, <1>13, WorkerStepType DEF coordinatorVars
  <1> QED  BY <1>5, <1>6, <1>7, <1>8, <1>9, <1>10, <1>11, <1>12, <1>13 DEF Next

LEMMA QuietKeeps ==
    ASSUME TypeInv, OnceInv, SavesFail = FALSE, [Next]_vars, Quiet
    PROVE  OnceInv'
  <1>1. FileCurrent'  BY FileCurrentStep DEF OnceInv
  <1>2. ASSUME NEW a \in AttemptIds PROVE CommandOnce(a)'
    <2>1. CommandOnce(a) /\ (Unsent(a)' => Unsent(a))  BY UnsentStep DEF OnceInv
    <2>2. /\ NoneQueued(toWorker, a) => NoneQueued(toWorker', a)
          /\ OneQueued(toWorker, a) => OneQueued(toWorker', a)
      BY DEF Quiet, Quieter
    <2>3. NoneQueued(toWorker, a)' = NoneQueued(toWorker', a)  BY DEF NoneQueued
    <2>4. OneQueued(toWorker, a)' = OneQueued(toWorker', a)  BY DEF OneQueued
    <2> QED  BY <2>1, <2>2, <2>3, <2>4 DEF Quiet, CommandOnce
  <1>3. ClaimsTrue(toCoord', executions, effects)
    BY DEF OnceInv, Quiet, FewerClaims, ClaimsTrue
  <1>4. ClaimsTrue(toCoord, executions, effects)'  BY <1>3 DEF Quiet, ClaimsTrue
  <1>5. \A a \in DOMAIN engine'.attempts : OutcomeFounded(a)'
    BY SettlingStep DEF Quiet, OutcomeFounded
  <1> QED  BY <1>1, <1>2, <1>4, <1>5 DEF OnceInv

LEMMA DispatchKeeps ==
    ASSUME TypeInv, OnceInv, SavesFail = FALSE, [Next]_vars,
           NEW a \in AttemptIds, DispatchPending(a)
    PROVE  OnceInv'
  <1> DEFINE c == engine.attempts[a].boot
  <1>1. FileCurrent'  BY FileCurrentStep DEF OnceInv
  <1>2. /\ a \in DOMAIN engine.attempts /\ engine.attempts[a].state = "Dispatched"
        /\ a \notin dispatched /\ dispatched' = dispatched \cup {a}
        /\ toWorker' = Sent(toWorker, c, Command(a))
        /\ UNCHANGED <<engine, toCoord, executions, effects>>
    BY DEF DispatchPending, Pending, SendToWorker, Sent, Command
  <1>3. /\ c \in Boots /\ a < engine.next /\ engine.next \in Nat /\ a \in Nat
        /\ toWorker \in [Boots -> Seq(Frame)] /\ Command(a) \in Frame
    BY <1>2, AttemptsType, Frames DEF TypeInv, RestType, Attempt, Command
  <1>4. Unsent(a)  BY <1>2 DEF Unsent
  <1>5. ~Unsent(a)'  BY <1>2, <1>3 DEF Unsent
  <1> HIDE DEF c
  <1>6. ASSUME NEW x \in AttemptIds PROVE CommandOnce(x)'
    <2>1. CommandOnce(x) /\ (Unsent(x)' => Unsent(x))  BY UnsentStep DEF OnceInv
    <2>2. CASE x = a
      <3>1. executions[a] = 0 /\ NoneQueued(toWorker, a) /\ a \notin effects
        BY <1>4, <2>1, <2>2 DEF CommandOnce
      <3>2. OneQueued(toWorker', a)  BY <1>2, <1>3, <3>1, SendQuieter
      <3>3. OneQueued(toWorker, a)' = OneQueued(toWorker', a)  BY DEF OneQueued
      <3> QED  BY <1>2, <1>5, <2>1, <2>2, <3>1, <3>2, <3>3 DEF CommandOnce
    <2>3. CASE x # a
      <3>1. Command(a) # Command(x)  BY <2>3 DEF Command
      <3>2. /\ NoneQueued(toWorker, x) => NoneQueued(toWorker', x)
            /\ OneQueued(toWorker, x) => OneQueued(toWorker', x)
        BY <1>2, <1>3, <3>1, SendQuieter
      <3>3. NoneQueued(toWorker, x)' = NoneQueued(toWorker', x)  BY DEF NoneQueued
      <3>4. OneQueued(toWorker, x)' = OneQueued(toWorker', x)  BY DEF OneQueued
      <3> QED  BY <1>2, <2>1, <3>2, <3>3, <3>4 DEF CommandOnce
    <2> QED  BY <2>2, <2>3
  <1>7. ClaimsTrue(toCoord, executions, effects)'  BY <1>2 DEF OnceInv, ClaimsTrue
  <1>8. \A x \in DOMAIN engine'.attempts : OutcomeFounded(x)'
    BY <1>2 DEF OnceInv, OutcomeFounded
  <1> QED  BY <1>1, <1>6, <1>7, <1>8 DEF OnceInv

LEMMA ExecuteKeeps ==
    ASSUME TypeInv, OnceInv, SavesFail = FALSE, [Next]_vars, NEW b \in Boots,
           NEW a \in AttemptIds, NEW applied \in BOOLEAN, Executes(b, a, applied)
    PROVE  OnceInv'
  <1>1. FileCurrent'  BY FileCurrentStep DEF OnceInv
  <1>2. /\ toWorker \in [Boots -> Seq(Frame)] /\ toCoord \in [Boots -> Seq(Frame)]
        /\ executions \in [AttemptIds -> Nat]
    BY DEF TypeInv, RestType
  <1>3. /\ toWorker[b] # <<>> /\ Head(toWorker[b]) = Command(a)
        /\ toWorker' = [toWorker EXCEPT ![b] = Tail(@)]
        /\ UNCHANGED <<engine, dispatched>>
    BY DEF Executes, coordinatorVars
  <1>4. CommandOnce(a)  BY DEF OnceInv
  <1>5. ~NoneQueued(toWorker, a)
    <2>1. 1 \in 1..Len(toWorker[b]) /\ toWorker[b][1] = Command(a)
      BY <1>2, <1>3, TailFacts
    <2> QED  BY <2>1 DEF NoneQueued
  <1>6. executions[a] = 0 /\ ~Unsent(a) /\ a \notin effects  BY <1>4, <1>5 DEF CommandOnce
  <1>7. /\ executions'[a] = 1
        /\ \A x \in AttemptIds : x # a => executions'[x] = executions[x]
        /\ \A x : x # a => (x \in effects' <=> x \in effects)
        /\ a \in effects' <=> applied
    BY <1>2, <1>6 DEF Executes
  <1>8. /\ Quieter(toWorker, toWorker')
        /\ OneQueued(toWorker, a) /\ Head(toWorker[b]) = Command(a) => NoneQueued(toWorker', a)
    BY <1>2, <1>3, TakeQuieter
  <1>9. ASSUME NEW x \in AttemptIds PROVE CommandOnce(x)'
    <2>1. CommandOnce(x) /\ (Unsent(x)' => Unsent(x))  BY UnsentStep DEF OnceInv
    <2>2. /\ NoneQueued(toWorker, x) => NoneQueued(toWorker', x)
          /\ OneQueued(toWorker, x) => OneQueued(toWorker', x)
      BY <1>8 DEF Quieter
    <2>3. NoneQueued(toWorker, x)' = NoneQueued(toWorker', x)  BY DEF NoneQueued
    <2>4. OneQueued(toWorker, x)' = OneQueued(toWorker', x)  BY DEF OneQueued
    <2>5. CASE x = a
      <3>1. NoneQueued(toWorker', a) /\ OneQueued(toWorker', a)
        BY <1>3, <1>4, <1>8, <2>2, <2>5 DEF CommandOnce
      <3> QED  BY <1>6, <1>7, <2>1, <2>3, <2>4, <2>5, <3>1 DEF CommandOnce
    <2>6. CASE x # a  BY <1>7, <2>1, <2>2, <2>3, <2>4, <2>6 DEF CommandOnce
    <2> QED  BY <2>5, <2>6
  <1>10. ASSUME NEW d \in Boots, NEW i \in 1..Len(toCoord'[d]),
                toCoord'[d][i].type = "COMPLETION"
         PROVE  /\ executions'[toCoord'[d][i].attempt] # 0
                /\ toCoord'[d][i].success <=> toCoord'[d][i].attempt \in effects'
    <2>1. CASE \E k \in 1..Len(toCoord[d]) : toCoord'[d][i] = toCoord[d][k]
      <3>1. PICK k \in 1..Len(toCoord[d]) : toCoord'[d][i] = toCoord[d][k]  BY <2>1
      <3> DEFINE m == toCoord[d][k]
      <3>2. m \in Frame /\ m.type = "COMPLETION"  BY <1>2, <1>10, <3>1
      <3>3. /\ m.attempt \in AttemptIds
            /\ executions[m.attempt] # 0 /\ (m.success <=> m.attempt \in effects)
        BY <1>10, <3>1, <3>2, Frames DEF OnceInv, ClaimsTrue
      <3>4. toCoord'[d][i] = m  BY <3>1
      <3> HIDE DEF m
      <3> QED  BY <1>6, <1>7, <3>3, <3>4
    <2>2. CASE ~ \E k \in 1..Len(toCoord[d]) : toCoord'[d][i] = toCoord[d][k]
      <3>1. toCoord' # toCoord  BY <2>2
      <3>2. PICK c \in BOOLEAN :
              toCoord' = [toCoord EXCEPT ![b] = Append(@, [type |-> "COMPLETION", attempt |-> a,
                                                          success |-> applied, confirmed |-> c])]
        BY <3>1 DEF Executes
      <3> DEFINE f == [type |-> "COMPLETION", attempt |-> a, success |-> applied,
                       confirmed |-> c]
      <3>3. f \in Frame /\ toCoord' = [toCoord EXCEPT ![b] = Append(@, f)]  BY <3>2, Frames
      <3>4. f.attempt = a /\ f.success = applied  OBVIOUS
      <3> HIDE DEF f
      <3>5. d = b  BY <1>2, <2>2, <3>3
      <3>6. toCoord'[d][i] = f  BY <1>2, <1>10, <2>2, <3>3, <3>5, AppendFacts
      <3> QED  BY <1>7, <3>4, <3>6
    <2> QED  BY <2>1, <2>2
  <1>11. ClaimsTrue(toCoord, executions, effects)'  BY <1>10 DEF ClaimsTrue
  <1>12. ASSUME NEW x \in DOMAIN engine'.attempts PROVE OutcomeFounded(x)'
    <2>1. x \in DOMAIN engine.attempts /\ OutcomeFounded(x)  BY <1>3, <1>12 DEF OnceInv
    <2>2. x \in AttemptIds  BY <2>1, AttemptsType DEF TypeInv
    <2> QED  BY <1>3, <1>6, <1>7, <2>1, <2>2 DEF OutcomeFounded
  <1> QED  BY <1>1, <1>9, <1>11, <1>12 DEF OnceInv

LEMMA OnceInit ==
    ASSUME Init
    PROVE  OnceInv
  <1>1. FileCurrent  BY FreshFacts DEF Init, FileCurrent
  <1>2. \A b \in Boots : toWorker[b] = <<>> /\ toCoord[b] = <<>>  BY DEF Init
  <1>3. /\ \A a \in AttemptIds : NoneQueued(toWorker, a) /\ OneQueued(toWorker, a)
        /\ ClaimsTrue(toCoord, executions, effects)
    BY <1>2 DEF NoneQueued, OneQueued, ClaimsTrue
  <1>4. \A a \in AttemptIds : CommandOnce(a)  BY <1>3 DEF Init, CommandOnce
  <1>5. DOMAIN engine.attempts = {}  BY FreshFacts DEF Init
  <1> QED  BY <1>1, <1>3, <1>4, <1>5 DEF OnceInv

LEMMA OnceAlways ==
    ASSUME SavesFail = FALSE
    PROVE  Spec => []OnceInv
  <1>1. Init => OnceInv  BY OnceInit
  <1>2. ASSUME TypeInv, OnceInv, [Next]_vars PROVE OnceInv'
    BY <1>2, TrafficStep, QuietKeeps, DispatchKeeps, ExecuteKeeps
  <1>3. TypeInv /\ OnceInv /\ [Next]_vars => OnceInv'  BY <1>2
  <1> QED  BY <1>1, <1>3, TypeAlways, PTL DEF Spec

\* As long as the state file can be written, the command of an attempt is executed at
\* most once, however often the coordinator is restarted and workers reconnect: a command
\* is unsent, on one connection, or executed, and dispatch_pending sends only unsent ones.
THEOREM CommandsExecuteOnce ==
    ASSUME SavesFail = FALSE
    PROVE  Spec => []ExecutedAtMostOnce
  <1>1. OnceInv => ExecutedAtMostOnce  BY DEF OnceInv, CommandOnce, ExecutedAtMostOnce
  <1> QED  BY <1>1, OnceAlways, PTL

\* As long as the state file can be written, a Completed attempt had its effect and a
\* Failed one that is not idempotent has none and will have none.
THEOREM OutcomesAreTrue ==
    ASSUME SavesFail = FALSE
    PROVE  Spec => []OutcomeIsTrue
  <1>1. OnceInv => OutcomeIsTrue  BY DEF OnceInv, OutcomeFounded, OutcomeIsTrue
  <1> QED  BY <1>1, OnceAlways, PTL

==============================================================================

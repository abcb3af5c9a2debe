---------------------------- MODULE CommandDispatch ----------------------------
(***************************************************************************)
(* How an external command (warm, activate, drain, ...) reaches a worker     *)
(* and how its outcome comes back: the engine's worker leases and attempts,  *)
(* the coordinator's poll loop with its sessions and its durable state, the  *)
(* worker processes and the connections between them.                        *)
(*                                                                           *)
(* The coordinator services all sessions from one thread.  An iteration of    *)
(* poll_once serves frames, then dispatches commands, then saves; each frame  *)
(* is handled, saved and answered in one step, since a crash before the save  *)
(* is a crash before the frame was read.  A boot is one LifecycleWorker: one  *)
(* boot identity and, at a time, one connection.  A connection is a sequence  *)
(* of frames in each direction; what was sent before a close may still be     *)
(* read.  A worker's death may lose what it had not yet read or sent.         *)
(***************************************************************************)
EXTENDS Naturals, Sequences, FiniteSets

CONSTANTS
    Boots,         \* worker boot identities
    NoBoot,        \* the boot of a lease that does not exist
    Workers,       \* worker identities
    WorkerOf,      \* the worker each boot runs as
    MaxAttempts,   \* bound on the attempts ever begun
    Publications,  \* evidence messages a worker with a resident replica publishes
    MaxCrashes,    \* bound on the crashes of the coordinator
    SavesFail,     \* whether writing the state file may fail
    Reconnects     \* whether a worker whose connection was closed starts again

ASSUME BootAssumption == NoBoot \notin Boots /\ WorkerOf \in [Boots -> Workers]
ASSUME DispatchBoundAssumption ==
    MaxAttempts \in Nat /\ Publications \in Nat /\ MaxCrashes \in Nat
ASSUME FailureAssumption == SavesFail \in BOOLEAN /\ Reconnects \in BOOLEAN

VARIABLES
    \* the coordinator process
    up,          \* it is running
    crashes,     \* how often it has stopped
    phase,       \* where poll_once is: "serve", "dispatch" or "save"
    engine,      \* the engine's epoch, leases, attempts and next_attempt_id
    dirty,       \* engine sequence differs from last_saved_sequence_
    dispatched,  \* dispatched_: the attempts whose command was sent
    sessions,    \* "none", "open", "hello" or "registered", for each boot
    durable,     \* the state file; epoch 0 when there is none
    \* the worker processes
    worker,      \* [state, left, resident] for each boot
    toWorker,    \* the frames on their way to a worker
    toCoord,     \* ... and from it
    \* what really happened
    executions,  \* how often the command of an attempt was executed
    effects,     \* the attempts whose side effect was applied
    acked        \* the changes whose acknowledgement was sent

coordinatorVars == <<up, crashes, phase, engine, dirty, dispatched, sessions, durable>>
vars == <<coordinatorVars, worker, toWorker, toCoord, executions, effects, acked>>

AttemptIds == 1..MaxAttempts
AttemptState == {"Dispatched", "Completed", "Failed", "OutcomeUnknown", "ReconcileRequired"}

\* current: the subject's model generation is still the one of the attempt.
Attempt == [boot : Boots, idempotent : BOOLEAN, current : BOOLEAN, state : AttemptState]
Lease == [boot : Boots \cup {NoBoot}, fenced : BOOLEAN]

Frame == [type : {"HELLO", "REGISTER", "PUBLISH"}]
           \cup [type : {"REPLY"}, ok : BOOLEAN]
           \cup [type : {"COMMAND"}, attempt : AttemptIds]
           \cup [type : {"COMPLETION"}, attempt : AttemptIds, success : BOOLEAN,
                 confirmed : BOOLEAN]

\* A worker that never registered is like one whose lease is fenced: the operations
\* treat both alike.
Fresh == [epoch |-> 1,
          leases |-> [w \in Workers |-> [boot |-> NoBoot, fenced |-> TRUE]],
          attempts |-> [a \in {} |-> a],
          next |-> 1]

NewWorker == [state |-> "off", left |-> 0, resident |-> FALSE]

Init ==
    /\ up = TRUE /\ crashes = 0 /\ phase = "serve"
    /\ engine = Fresh
    /\ dirty = FALSE
    /\ dispatched = {}
    /\ sessions = [b \in Boots |-> "none"]
    /\ durable = [Fresh EXCEPT !.epoch = 0]
    /\ worker = [b \in Boots |-> NewWorker]
    /\ toWorker = [b \in Boots |-> <<>>]
    /\ toCoord = [b \in Boots |-> <<>>]
    /\ executions = [a \in AttemptIds |-> 0]
    /\ effects = {}
    /\ acked = {}

------------------------------------------------------------------------------
(* The engine *)

Settled(st) == st \in {"Completed", "Failed"}

\* check_worker
BootIsCurrent(e, b) == LET l == e.leases[WorkerOf[b]] IN l.boot = b /\ ~l.fenced

\* register_worker: refused while another boot holds the lease unfenced.
RegistrationAllowed(e, b) ==
    LET l == e.leases[WorkerOf[b]] IN l.fenced \/ l.boot = b

Registered(e, b) == [e EXCEPT !.leases[WorkerOf[b]] = [boot |-> b, fenced |-> FALSE]]

\* Mutant: the attempts of the fenced boot are forgotten.
FenceLeaseOnly(e, b) ==
    IF BootIsCurrent(e, b) THEN [e EXCEPT !.leases[WorkerOf[b]].fenced = TRUE] ELSE e

\* fence_worker: nothing happens unless b is the registered boot and not yet fenced.
Fence(e, b) ==
    IF ~BootIsCurrent(e, b) THEN e
    ELSE [e EXCEPT !.leases[WorkerOf[b]].fenced = TRUE,
                   !.attempts = [a \in DOMAIN @ |->
                        IF @[a].boot = b /\ @[a].state = "Dispatched"
                        THEN [@[a] EXCEPT !.state = "OutcomeUnknown"] ELSE @[a]]]

\* begin_attempt, for a current boot
Begun(e, b, idempotent) ==
    [e EXCEPT !.next = @ + 1,
              !.attempts = [a \in DOMAIN @ \cup {e.next} |->
                    IF a # e.next THEN @[a]
                    ELSE [boot |-> b, idempotent |-> idempotent, current |-> TRUE,
                          state |-> "Dispatched"]]]

\* complete_attempt: whether the completion m of the session of boot b is accepted
CompletionAllowed(e, b, m) ==
    /\ m.attempt \in DOMAIN e.attempts
    /\ LET t == e.attempts[m.attempt] IN
        /\ ~Settled(t.state)
        /\ t.boot = b
        /\ BootIsCurrent(e, b)
        /\ t.current

\* ... and the attempt's state then.
CompletionState(m) ==
    IF ~m.confirmed THEN "OutcomeUnknown" ELSE IF m.success THEN "Completed" ELSE "Failed"

\* Mutant: an effect that was not observed is taken as not having happened.
ReconciledStateGuessed(t, observed) == IF observed THEN "Completed" ELSE "Failed"

\* reconcile_attempt of an attempt whose outcome is unknown
ReconciledState(t, observed) ==
    IF observed THEN "Completed" ELSE IF t.idempotent THEN "Failed" ELSE "ReconcileRequired"

\* Mutant: the next attempt identity is not written.
ExportedWithoutNext(e) ==
    [e EXCEPT !.leases = [w \in Workers |-> [@[w] EXCEPT !.fenced = TRUE]],
              !.attempts = [a \in {x \in DOMAIN @ : ~Settled(@[x].state)} |-> @[a]],
              !.next = 1]

\* export_durable_state: leases are written as fenced, settled attempts are not written.
Exported(e) ==
    [e EXCEPT !.leases = [w \in Workers |-> [@[w] EXCEPT !.fenced = TRUE]],
              !.attempts = [a \in {x \in DOMAIN @ : ~Settled(@[x].state)} |-> @[a]]]

\* import_durable_state and invalidate_volatile_state
Imported(d) ==
    [d EXCEPT !.epoch = @ + 1,
              !.attempts = [a \in DOMAIN @ |->
                    IF @[a].state = "Dispatched"
                    THEN [@[a] EXCEPT !.state = "OutcomeUnknown"] ELSE @[a]]]

------------------------------------------------------------------------------
(* The coordinator: one frame at a time *)

SendToWorker(b, f) == toWorker' = [toWorker EXCEPT ![b] = Append(@, f)]

Consume(b) == toCoord' = [toCoord EXCEPT ![b] = Tail(@)]

\* Mutant: the acknowledgement does not wait for the save.
PersistLater(e, changed, saved) == durable' = durable /\ dirty' = (dirty \/ changed)

\* persist_if_changed
Persist(e, changed, saved) ==
    /\ durable' = IF (dirty \/ changed) /\ saved THEN Exported(e) ELSE durable
    /\ dirty' = ((dirty \/ changed) /\ ~saved)

SaveOutcomes(changed) == IF SavesFail /\ (dirty \/ changed) THEN BOOLEAN ELSE {TRUE}

\* send_reply after a frame that may change durable state: the save comes first, and
\* the answer is a refusal when it fails, although the change stays in memory.
Acknowledge(e, changed, b, ok, change) ==
    \E saved \in SaveOutcomes(changed) :
        /\ engine' = e
        /\ Persist(e, changed, saved)
        /\ acked' = IF ok /\ saved THEN acked \cup change ELSE acked
        /\ SendToWorker(b, [type |-> "REPLY", ok |-> ok /\ saved])

Serving(b, type) ==
    /\ up /\ phase = "serve"
    /\ sessions[b] # "none"
    /\ toCoord[b] # <<>>
    /\ Head(toCoord[b]).type = type
    /\ Consume(b)
    /\ UNCHANGED <<up, crashes, phase, dispatched, worker, executions, effects>>

HandleHello(b) ==
    /\ Serving(b, "HELLO")
    /\ sessions' = [sessions EXCEPT ![b] = "hello"]
    /\ SendToWorker(b, [type |-> "REPLY", ok |-> TRUE])
    /\ UNCHANGED <<engine, dirty, durable, acked>>

HandleRegister(b) ==
    /\ Serving(b, "REGISTER")
    /\ IF RegistrationAllowed(engine, b)
       THEN /\ Acknowledge(Registered(engine, b), TRUE, b, TRUE, {})
            /\ sessions' = [sessions EXCEPT ![b] = "registered"]
       ELSE /\ Acknowledge(engine, FALSE, b, FALSE, {})
            /\ UNCHANGED sessions

HandleCompletion(b) ==
    LET m == Head(toCoord[b])
        settles == m.confirmed
    IN
    /\ Serving(b, "COMPLETION")
    /\ IF CompletionAllowed(engine, b, m)
       THEN Acknowledge([engine EXCEPT !.attempts[m.attempt].state = CompletionState(m)],
                        TRUE, b, settles, {<<m.attempt, "settled">>})
       ELSE Acknowledge(engine, FALSE, b, FALSE, {})
    /\ UNCHANGED sessions

\* publish_evidence does not move the engine's sequence.
HandlePublish(b) ==
    /\ Serving(b, "PUBLISH")
    /\ Acknowledge(engine, FALSE, b, TRUE, {})
    /\ UNCHANGED sessions

\* A frame of a type the coordinator does not expect is answered all the same.
HandleReply(b) ==
    /\ Serving(b, "REPLY")
    /\ SendToWorker(b, [type |-> "REPLY", ok |-> FALSE])
    /\ UNCHANGED <<sessions, engine, dirty, durable, acked>>

HandleFrame(b) ==
    \/ HandleHello(b)
    \/ HandleRegister(b)
    \/ HandleCompletion(b)
    \/ HandlePublish(b)
    \/ HandleReply(b)

\* Mutant: a closed connection is only noted.
FencedOnCloseNever(b) == engine

\* fence_session: a session whose peer said hello is fenced under its boot.
FencedOnClose(b) == IF sessions[b] \in {"hello", "registered"} THEN Fence(engine, b) ELSE engine

\* close_session, when the peer is gone.  Nothing is saved until the end of the poll.
CloseSession(b) ==
    /\ up /\ phase = "serve"
    /\ sessions[b] # "none"
    /\ worker[b].state = "dead"
    /\ engine' = FencedOnClose(b)
    /\ dirty' = (dirty \/ engine' # engine)
    /\ sessions' = [sessions EXCEPT ![b] = "none"]
    /\ toCoord' = [toCoord EXCEPT ![b] = <<>>]
    /\ UNCHANGED <<up, crashes, phase, dispatched, durable, worker, toWorker,
                   executions, effects, acked>>

\* A client's REQUEST_WARM, REQUEST_ACTIVATE, REQUEST_DRAIN or REQUEST_ROLLBACK.
RequestAttempt(b, idempotent) ==
    /\ up /\ phase = "serve"
    /\ engine.next \in AttemptIds
    /\ BootIsCurrent(engine, b)
    /\ \E saved \in SaveOutcomes(TRUE) :
        /\ engine' = Begun(engine, b, idempotent)
        /\ Persist(engine', TRUE, saved)
        /\ acked' = IF saved THEN acked \cup {<<engine.next, "begun">>} ELSE acked
    /\ UNCHANGED <<up, crashes, phase, dispatched, sessions, worker, toWorker, toCoord,
                   executions, effects>>

\* A client's FENCE: every session of the worker is closed.
RequestFence(w) ==
    /\ up /\ phase = "serve"
    /\ engine.leases[w].boot # NoBoot
    /\ \E saved \in SaveOutcomes(~engine.leases[w].fenced) :
        /\ engine' = Fence(engine, engine.leases[w].boot)
        /\ Persist(engine', ~engine.leases[w].fenced, saved)
    /\ sessions' = [b \in Boots |->
                        IF WorkerOf[b] = w /\ sessions[b] \in {"hello", "registered"}
                        THEN "none" ELSE sessions[b]]
    /\ UNCHANGED <<up, crashes, phase, dispatched, worker, toWorker, toCoord, executions,
                   effects, acked>>

\* reconcile_attempt, called on the coordinator's engine by its host, who saw whether
\* the side effect happened.
ReconcileAttempt(a) ==
    /\ up
    /\ engine.attempts[a].state \in {"OutcomeUnknown", "ReconcileRequired"}
    /\ engine' = [engine EXCEPT !.attempts[a].state =
                        ReconciledState(engine.attempts[a], a \in effects)]
    /\ dirty' = TRUE
    /\ UNCHANGED <<up, crashes, phase, dispatched, sessions, durable, worker, toWorker,
                   toCoord, executions, effects, acked>>

\* revise_version of the subject of the attempts, called by the host.
ReviseSubject ==
    /\ up
    /\ \E a \in DOMAIN engine.attempts : engine.attempts[a].current
    /\ engine' = [engine EXCEPT !.attempts =
                        [a \in DOMAIN @ |-> [@[a] EXCEPT !.current = FALSE]]]
    /\ dirty' = TRUE
    /\ UNCHANGED <<up, crashes, phase, dispatched, sessions, durable, worker, toWorker,
                   toCoord, executions, effects, acked>>

------------------------------------------------------------------------------
(* The coordinator: the rest of poll_once *)

EndServe ==
    /\ up /\ phase = "serve"
    /\ phase' = "dispatch"
    /\ UNCHANGED <<up, crashes, engine, dirty, dispatched, sessions, durable, worker,
                   toWorker, toCoord, executions, effects, acked>>

\* Mutant: an attempt whose outcome is unknown is sent again.
PendingAgain ==
    {a \in DOMAIN engine.attempts :
        /\ ~Settled(engine.attempts[a].state)
        /\ a \notin dispatched
        /\ sessions[engine.attempts[a].boot] \in {"hello", "registered"}}

\* The attempts dispatch_pending has a session for.
Pending ==
    {a \in DOMAIN engine.attempts :
        /\ engine.attempts[a].state = "Dispatched"
        /\ a \notin dispatched
        /\ sessions[engine.attempts[a].boot] \in {"hello", "registered"}}

DispatchPending(a) ==
    /\ up /\ phase = "dispatch"
    /\ a \in Pending
    /\ dispatched' = dispatched \cup {a}
    /\ SendToWorker(engine.attempts[a].boot, [type |-> "COMMAND", attempt |-> a])
    /\ UNCHANGED <<up, crashes, phase, engine, dirty, sessions, durable, worker, toCoord,
                   executions, effects, acked>>

\* Every command was sent, or could not be: a send to a dead peer may fail, and the
\* attempt stays pending.
EndDispatch ==
    /\ up /\ phase = "dispatch"
    /\ \A a \in Pending : worker[engine.attempts[a].boot].state = "dead"
    /\ phase' = "save"
    /\ UNCHANGED <<up, crashes, engine, dirty, dispatched, sessions, durable, worker,
                   toWorker, toCoord, executions, effects, acked>>

EndPoll ==
    /\ up /\ phase = "save"
    /\ Persist(engine, FALSE, TRUE)
    /\ phase' = "serve"
    /\ UNCHANGED <<up, crashes, engine, dispatched, sessions, worker, toWorker, toCoord,
                   executions, effects, acked>>

\* The process dies, or stops because a save failed at the end of an iteration.
\* The engine's variable keeps its last value until the restart replaces it.
Crash ==
    /\ up
    /\ crashes < MaxCrashes
    /\ up' = FALSE
    /\ crashes' = crashes + 1
    /\ sessions' = [b \in Boots |-> "none"]
    /\ UNCHANGED <<phase, engine, dirty, dispatched, durable, worker, toWorker, toCoord,
                   executions, effects, acked>>

\* LifecycleCoordinator::start
Restart ==
    /\ ~up
    /\ up' = TRUE
    /\ engine' = Imported(durable)
    /\ dirty' = FALSE
    /\ dispatched' = {}
    /\ phase' = "serve"
    /\ UNCHANGED <<crashes, sessions, durable, worker, toWorker, toCoord, executions,
                   effects, acked>>

------------------------------------------------------------------------------
(* The worker *)

SendToCoord(b, f) == toCoord' = [toCoord EXCEPT ![b] = Append(@, f)]

Receiving(b, state) ==
    /\ worker[b].state = state
    /\ toWorker[b] # <<>>
    /\ toWorker' = [toWorker EXCEPT ![b] = Tail(@)]
    /\ UNCHANGED coordinatorVars

Become(b, state) == worker' = [worker EXCEPT ![b].state = state]

\* start: connect and send HELLO.  The coordinator accepts.
Start(b) ==
    /\ up /\ phase = "serve"
    /\ worker[b].state = "off"
    /\ Become(b, "hello")
    /\ sessions' = [sessions EXCEPT ![b] = "open"]
    /\ toWorker' = [toWorker EXCEPT ![b] = <<>>]
    /\ toCoord' = [toCoord EXCEPT ![b] = <<[type |-> "HELLO"]>>]
    /\ UNCHANGED <<up, crashes, phase, engine, dirty, dispatched, durable, executions,
                   effects, acked>>

HelloReply(b) ==
    /\ Receiving(b, "hello")
    /\ Become(b, "registering")
    /\ SendToCoord(b, [type |-> "REGISTER"])
    /\ UNCHANGED <<executions, effects, acked>>

\* publish_observations: one message per observation, each waiting for its answer.
\* The worker goes on to `rest` observations.
Publish(b, resident, rest) ==
    IF rest = 0 \/ ~resident
    THEN /\ worker' = [worker EXCEPT ![b] = [state |-> "serving", left |-> 0,
                                             resident |-> resident]]
         /\ UNCHANGED toCoord
    ELSE /\ worker' = [worker EXCEPT ![b] = [state |-> "publishing", left |-> rest - 1,
                                             resident |-> resident]]
         /\ SendToCoord(b, [type |-> "PUBLISH"])

\* Anything but an acceptance, a COMMAND included, ends the start.
RegisterReply(b) ==
    /\ Receiving(b, "registering")
    /\ IF Head(toWorker[b]) = [type |-> "REPLY", ok |-> TRUE]
       THEN Publish(b, worker[b].resident, Publications)
       ELSE Become(b, "dead") /\ UNCHANGED toCoord
    /\ UNCHANGED <<executions, effects, acked>>

\* The command is executed; it may or may not have its effect.
Execute(b, a, applied) ==
    /\ Head(toWorker[b]) = [type |-> "COMMAND", attempt |-> a]
    /\ executions' = [executions EXCEPT ![a] = @ + 1]
    /\ effects' = IF applied THEN effects \cup {a} ELSE effects
    /\ UNCHANGED acked

\* handle_command, up to the wait for the answer to the completion.  The commands that
\* warm or activate leave a resident replica, those that drain or evict may leave none.
ServeCommand(b) ==
    /\ Receiving(b, "serving")
    /\ \E a \in AttemptIds, applied, confirmed \in BOOLEAN :
        /\ Execute(b, a, applied)
        /\ \E resident \in IF applied THEN BOOLEAN ELSE {worker[b].resident} :
            worker' = [worker EXCEPT ![b].state = "completing", ![b].resident = resident]
        /\ SendToCoord(b, [type |-> "COMPLETION", attempt |-> a, success |-> applied,
                           confirmed |-> confirmed])

\* The worker dies after the effect, before the completion is sent.
ExecuteAndDie(b) ==
    /\ Receiving(b, "serving")
    /\ \E a \in AttemptIds, applied \in BOOLEAN : Execute(b, a, applied)
    /\ Become(b, "dead")
    /\ UNCHANGED toCoord

\* handle_frame of any other type: the answer is a REPLY.
ServeOther(b) ==
    /\ Receiving(b, "serving")
    /\ Head(toWorker[b]).type # "COMMAND"
    /\ SendToCoord(b, [type |-> "REPLY", ok |-> FALSE])
    /\ UNCHANGED <<worker, executions, effects, acked>>

\* The next frame is taken for the answer to the completion.  A COMMAND does not
\* decode as a reply, and the worker gives up.
CompletionReply(b) ==
    /\ Receiving(b, "completing")
    /\ IF Head(toWorker[b]).type = "REPLY" THEN Publish(b, worker[b].resident, Publications)
       ELSE Become(b, "dead") /\ UNCHANGED toCoord
    /\ UNCHANGED <<executions, effects, acked>>

\* The next frame, of whatever type, is taken for the answer to the publication.
PublishReply(b) ==
    /\ Receiving(b, "publishing")
    /\ Publish(b, worker[b].resident, worker[b].left)
    /\ UNCHANGED <<executions, effects, acked>>

Alive(b) == worker[b].state \notin {"off", "dead"}

\* The connection was closed by the coordinator and everything sent was read.
Disconnected(b) ==
    /\ Alive(b)
    /\ sessions[b] = "none"
    /\ toWorker[b] = <<>>
    /\ Become(b, IF Reconnects THEN "off" ELSE "dead")
    /\ UNCHANGED <<coordinatorVars, toWorker, toCoord, executions, effects, acked>>

Die(b) ==
    /\ Alive(b)
    /\ Become(b, "dead")
    /\ UNCHANGED <<coordinatorVars, toWorker, toCoord, executions, effects, acked>>

WorkerStep(b) ==
    \/ HelloReply(b)
    \/ RegisterReply(b)
    \/ ServeCommand(b)
    \/ ServeOther(b)
    \/ CompletionReply(b)
    \/ PublishReply(b)
    \/ Disconnected(b)

Poll == EndServe \/ (\E a \in AttemptIds : DispatchPending(a)) \/ EndDispatch \/ EndPoll

Next ==
    \/ \E b \in Boots : HandleFrame(b)
    \/ \E b \in Boots : CloseSession(b)
    \/ \E b \in Boots, idempotent \in BOOLEAN : RequestAttempt(b, idempotent)
    \/ \E w \in Workers : RequestFence(w)
    \/ \E a \in DOMAIN engine.attempts : ReconcileAttempt(a)
    \/ ReviseSubject
    \/ Poll
    \/ Crash
    \/ Restart
    \/ \E b \in Boots : Start(b)
    \/ \E b \in Boots : WorkerStep(b)
    \/ \E b \in Boots : ExecuteAndDie(b)
    \/ \E b \in Boots : Die(b)

Spec == Init /\ [][Next]_vars

\* The poll loop keeps iterating and services every readable session of an iteration,
\* so a session that is readable again and again is serviced; a worker that is alive
\* keeps reading its socket.  Nobody has to start, die, crash or send a request.
FairSpec ==
    /\ Spec
    /\ WF_vars(Poll)
    /\ \A b \in Boots : SF_vars(HandleFrame(b)) /\ SF_vars(CloseSession(b))
    /\ \A b \in Boots : WF_vars(WorkerStep(b))

------------------------------------------------------------------------------
(* Properties *)

\* Every variable has its type, and an attempt identity in use, in memory or in the
\* file, is never one that begin_attempt would assign again.
TypeOK ==
    /\ {engine.epoch, durable.epoch} \subseteq Nat
    /\ \A e \in {engine, durable} :
        /\ e.leases \in [Workers -> Lease]
        /\ DOMAIN e.attempts \subseteq 1..(e.next - 1)
        /\ \A a \in DOMAIN e.attempts : a \in AttemptIds /\ e.attempts[a] \in Attempt
    /\ up \in BOOLEAN /\ dirty \in BOOLEAN /\ crashes \in 0..MaxCrashes
    /\ phase \in {"serve", "dispatch", "save"}
    /\ dispatched \subseteq AttemptIds /\ effects \subseteq AttemptIds
    /\ sessions \in [Boots -> {"none", "open", "hello", "registered"}]
    /\ worker \in [Boots -> [state : {"off", "hello", "registering", "serving",
                                      "completing", "publishing", "dead"},
                             left : 0..Publications, resident : BOOLEAN]]
    /\ \A b \in Boots : toWorker[b] \in Seq(Frame) /\ toCoord[b] \in Seq(Frame)
    /\ executions \in [AttemptIds -> Nat]
    /\ acked \subseteq (AttemptIds \X {"begun", "settled"})

\* An attempt the engine believes to be in flight has a performer that may still
\* complete it: the boot it was issued to holds its worker's lease, unfenced.  Whatever
\* fences or replaces a boot has taken its attempts out of flight.
InFlightHasPerformer ==
    \A a \in DOMAIN engine.attempts :
        engine.attempts[a].state = "Dispatched" => BootIsCurrent(engine, engine.attempts[a].boot)

\* The command of an attempt is executed at most once, however the coordinator and the
\* workers crash, restart and reconnect (README, "Ambiguous completion": "It never
\* repeats a non-idempotent external action on the strength of a guess").
ExecutedAtMostOnce == \A a \in AttemptIds : executions[a] <= 1

\* What the engine reports is what happened: a Completed attempt had its effect, and a
\* Failed one that is not idempotent did not, and never will (a command may still be
\* on its way to a worker that was fenced).
OutcomeIsTrue ==
    \A a \in DOMAIN engine.attempts :
        /\ engine.attempts[a].state = "Completed" => a \in effects
        /\ (engine.attempts[a].state = "Failed" /\ ~engine.attempts[a].idempotent) =>
                a \notin effects

\* Acknowledgements are durable-first (README, "Distributed authority"): an attempt
\* whose request was acknowledged is never lost while unsettled, its identity is
\* never assigned again, and one whose completion was acknowledged is never unsettled
\* again, whatever crashes and failed saves come in between.
AcknowledgedSurvives ==
    [][\A a \in AttemptIds :
        /\ <<a, "begun">> \in acked =>
            /\ engine'.next > a
            /\ (a \in DOMAIN engine.attempts /\ ~Settled(engine.attempts[a].state))
                    => a \in DOMAIN engine'.attempts
        /\ (<<a, "settled">> \in acked /\ a \in DOMAIN engine'.attempts)
                => Settled(engine'.attempts[a].state)]_vars

\* README, "Distributed authority": when a worker dies "its in-flight attempts become
\* OUTCOME_UNKNOWN": a running coordinator does not leave an attempt in flight at a
\* dead worker.
DeathIsNoticed ==
    \A a \in AttemptIds, b \in Boots :
        (/\ up /\ worker[b].state = "dead"
         /\ a \in DOMAIN engine.attempts
         /\ engine.attempts[a].boot = b /\ engine.attempts[a].state = "Dispatched")
        ~> (~up \/ a \notin DOMAIN engine.attempts \/ engine.attempts[a].state # "Dispatched")

==============================================================================

---------------------------- MODULE LifecyclePath ----------------------------
(***************************************************************************)
(* advance_lifecycle_to (src/src/engine_promotion.cpp): the engine never    *)
(* writes a lifecycle state directly.  It searches the successor table      *)
(* breadth first for a shortest legal path from the version's state to the  *)
(* target, rebuilds the path from the predecessor map, and walks it one     *)
(* transition at a time.  One behaviour is one call; Init enumerates every  *)
(* (state, target) pair a call could be made with.                          *)
(***************************************************************************)
EXTENDS Lifecycle

CONSTANT EngineTargets  \* the targets the engine's handlers pass

\* No handler makes a version newly registered again.
ASSUME EngineTargetsAssumption == EngineTargets \subseteq LifecycleState \ {"REGISTERED"}

VARIABLES
    start,      \* the version's state when the call was made
    target,     \* the requested state
    pc,         \* "search", "rebuild", "walk", "accepted" or "rejected"
    frontier,   \* the queue of states still to expand
    current,    \* the state being expanded
    index,      \* the next entry of its row of the table
    seen,       \* the states already enqueued
    previous,   \* the predecessor map, as a set of <<state, predecessor>>
    cursor,     \* where the path rebuilding has arrived
    path,       \* the rebuilt path; walked from its head
    state,      \* record.state
    steps       \* transitions taken: how far lifecycle_generation advanced

search == <<frontier, current, index, seen, previous>>
vars == <<start, target, pc, search, cursor, path, state, steps>>

\* The start has just been taken from the queue.
Init ==
    /\ start \in LifecycleState
    /\ target \in LifecycleState
    /\ pc = IF start = target THEN "accepted"
            ELSE IF IsTerminal(start) THEN "rejected" ELSE "search"
    /\ frontier = <<>> /\ current = start /\ index = 1
    /\ seen = {start}
    /\ previous = {}
    /\ cursor = target /\ path = <<>>
    /\ state = start
    /\ steps = 0

\* successors(current)
Row == Successors[current]

\* Mutants: the last entry of a row is left out; the queue is a stack; its head is left
\* in it.
BeforeLast == index < Len(Row)
Pushed(queue, st) == <<st>> \o queue
Peeked(queue) == queue

\* The row has another entry.
InRow == index <= Len(Row)

\* push_back and pop_front
Enqueued(queue, st) == Append(queue, st)
Popped(queue) == Tail(queue)

\* The entry was seen before.
Skip ==
    /\ pc = "search" /\ InRow
    /\ Row[index] \in seen
    /\ index' = index + 1
    /\ UNCHANGED <<start, target, pc, frontier, current, seen, previous, cursor, path,
                   state, steps>>

\* The entry is new.  The target ends both loops and is not enqueued.
Discover ==
    /\ pc = "search" /\ InRow
    /\ Row[index] \notin seen
    /\ seen' = seen \cup {Row[index]}
    /\ previous' = previous \cup {<<Row[index], current>>}
    /\ frontier' = IF Row[index] = target THEN frontier ELSE Enqueued(frontier, Row[index])
    /\ pc' = IF Row[index] = target THEN "rebuild" ELSE "search"
    /\ index' = index + 1
    /\ UNCHANGED <<start, target, current, cursor, path, state, steps>>

\* The next iteration of the outer loop.
Expand ==
    /\ pc = "search" /\ ~InRow
    /\ frontier # <<>>
    /\ current' = Head(frontier) /\ frontier' = Popped(frontier) /\ index' = 1
    /\ UNCHANGED <<start, target, pc, seen, previous, cursor, path, state, steps>>

\* The frontier is exhausted: there is no legal path and nothing was changed.
NoPath ==
    /\ pc = "search" /\ ~InRow
    /\ frontier = <<>>
    /\ pc' = "rejected"
    /\ UNCHANGED <<start, target, search, cursor, path, state, steps>>

\* One iteration of the loop that follows the predecessor map back to the start
\* (the code pushes at the back and reverses once).  A state without a predecessor
\* ends the call.
Rebuild ==
    /\ pc = "rebuild"
    /\ cursor # start
    /\ path' = <<cursor>> \o path
    /\ LET parents == {p \in seen : <<cursor, p>> \in previous}
       IN  IF parents = {} THEN pc' = "rejected" /\ UNCHANGED cursor
           ELSE cursor' \in parents /\ UNCHANGED pc
    /\ UNCHANGED <<start, target, search, state, steps>>

\* The path is complete.
Rebuilt ==
    /\ pc = "rebuild"
    /\ cursor = start
    /\ pc' = "walk"
    /\ UNCHANGED <<start, target, search, cursor, path, state, steps>>

\* transition(): refused unless the edge is in the table; a refusal ends the call.
Walk ==
    /\ pc = "walk"
    /\ path # <<>>
    /\ IF IsTransitionAllowed(state, Head(path))
       THEN /\ state' = Head(path)
            /\ steps' = steps + 1
            /\ path' = Tail(path)
            /\ pc' = IF Len(path) = 1 THEN "accepted" ELSE "walk"
       ELSE /\ pc' = "rejected"
            /\ UNCHANGED <<state, steps, path>>
    /\ UNCHANGED <<start, target, search, cursor>>

Next == Skip \/ Discover \/ Expand \/ NoPath \/ Rebuild \/ Rebuilt \/ Walk

\* The call is a loop of one thread holding the engine mutex: it keeps running.
Spec == Init /\ [][Next]_vars /\ WF_vars(Next)

------------------------------------------------------------------------------
(* Reference definition: the states within n transitions of st. *)

Onward(S) ==
    S \cup {to \in LifecycleState : \E from \in S : IsTransitionAllowed(from, to)}

Within[n \in Nat] ==
    [st \in LifecycleState |-> IF n = 0 THEN {st} ELSE Onward(Within[n - 1][st])]

------------------------------------------------------------------------------

\* An accepted call reaches its target over a shortest legal path: the
\* reference reaches the target in exactly `steps` transitions and not sooner.
\* (lifecycle_generation advances once per transition, so a longer detour would
\* also be visible to every holder of that generation.)
PathIsShortest ==
    pc = "accepted" =>
        /\ state = target
        /\ target \in Within[steps][start]
        /\ steps > 0 => target \notin Within[steps - 1][start]

\* A rejected call changes nothing, and is rejected only when no sequence of
\* legal transitions leads from the version's state to the target.
RejectedOnlyWithoutPath ==
    pc = "rejected" => /\ state = start
                       /\ target \notin Within[19][start]

\* The handlers of the engine ignore the result of advance_lifecycle_to almost
\* everywhere: they rely on every target they pass being reachable from every
\* state but RETIRED.  LifecycleEngine models the call by that fact.
EngineTargetsAlwaysReached ==
    (pc = "rejected" /\ target \in EngineTargets) => start = "RETIRED"

\* Every call ends, also when the target cannot be reached.
CallReturns == <>(pc \in {"accepted", "rejected"})

==============================================================================

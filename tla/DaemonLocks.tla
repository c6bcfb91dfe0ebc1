---------------------------- MODULE DaemonLocks -----------------------------
(***************************************************************************)
(* Manager.mu, Engine.mu and Logger.mu, and every order in which the       *)
(* goroutines of the daemon take them.  The first two are RWMutexes.       *)
(*                                                                         *)
(* A goroutine is at one of its critical sections, or at the calls between *)
(* them that may take for ever; what it does inside is left out.           *)
(***************************************************************************)
EXTENDS Naturals

CONSTANTS
    Threads,  \* goroutines
    Nobody    \* holder of a lock that is free

ASSUME NobodyAssumption == Nobody \notin Threads

VARIABLES
    at,       \* the critical section a goroutine is at
    stage,    \* "before" it, "asked" for its lock, or "inside"
    writer,   \* who has, or has asked for, the write lock
    readers   \* who has the read lock

vars == <<at, stage, writer, readers>>

Locks == {"manager", "engine", "logger"}

\* Register and Unregister are the only ones that lock inside a lock: they are
\* at "entries" until they are done, through "record of" the engine and
\* the event.  Start and Stop "claim" the agent, call systemd and "settle"
\* its state; Kill calls and settles.
Nested == {"engineEntry", "entryEvent", "entryDone"}
Exclusive == {"entries", "claim", "settle", "reload", "event", "alert",
              "engineEntry", "entryEvent"}
Shared == {"look", "evaluate"}
Sections == Exclusive \cup Shared

LockOf(x) ==
    CASE x \in {"entries", "claim", "settle", "look"} -> "manager"
      [] x \in {"engineEntry", "evaluate", "reload"} -> "engine"
      [] OTHER -> "logger"

\* Where requests, alerts and signals begin.
Entries == {"entries", "look", "claim", "call", "evaluate", "reload", "alert"}

\* Mutant: Evaluate asks the manager for the state of the agent while it
\* reads the engine's records.
InnerOfEvaluate(x) ==
    CASE x = "entries" -> {"engineEntry"}
      [] x = "evaluate" -> {"look"}
      [] OTHER -> {}

\* What is entered with the lock of x still held.
Inner(x) == IF x = "entries" THEN {"engineEntry"} ELSE {}

\* What may follow a section: the next one, or "idle" for the answer.
After(x) ==
    CASE x \in {"entries", "look", "event"} -> {"idle"}
      [] x = "engineEntry" -> {"entryEvent"}
      [] x = "entryEvent" -> {"entryDone"}
      [] x \in {"claim", "alert"} -> {"call", "idle"}
      [] x = "call" -> {"settle", "idle"}
      [] x \in {"settle", "evaluate", "reload"} -> {"event", "idle"}

Points == Sections \cup {"idle", "call", "entryDone"}

Init ==
    /\ at = [t \in Threads |-> "idle"]
    /\ stage = [t \in Threads |-> "before"]
    /\ writer = [k \in Locks |-> Nobody]
    /\ readers = [k \in Locks |-> {}]

Move(t, x, s) ==
    /\ at' = [at EXCEPT ![t] = x]
    /\ stage' = [stage EXCEPT ![t] = s]

Begin(t) ==
    /\ at[t] = "idle"
    /\ \E x \in Entries : Move(t, x, "before")
    /\ UNCHANGED <<writer, readers>>

\* Lock, first half: one writer at a time, and no new readers from now on.
Ask(t) ==
    LET k == LockOf(at[t]) IN
    /\ at[t] \in Exclusive /\ stage[t] = "before"
    /\ writer[k] = Nobody
    /\ writer' = [writer EXCEPT ![k] = t]
    /\ Move(t, at[t], "asked")
    /\ UNCHANGED readers

\* Lock, second half: the readers have left.
Enter(t) ==
    /\ stage[t] = "asked"
    /\ readers[LockOf(at[t])] = {}
    /\ Move(t, at[t], "inside")
    /\ UNCHANGED <<writer, readers>>

RLock(t) ==
    LET k == LockOf(at[t]) IN
    /\ at[t] \in Shared /\ stage[t] = "before"
    /\ writer[k] = Nobody
    /\ readers' = [readers EXCEPT ![k] = @ \cup {t}]
    /\ Move(t, at[t], "inside")
    /\ UNCHANGED writer

Release(t, k) ==
    /\ writer' = [writer EXCEPT ![k] = IF @ = t THEN Nobody ELSE @]
    /\ readers' = [readers EXCEPT ![k] = @ \ {t}]

\* Mutant: an early return of Start without m.mu.Unlock().
UnlockForgotten(t, x) ==
    IF at[t] = "claim" /\ x = "idle" THEN UNCHANGED <<writer, readers>>
                                     ELSE Release(t, LockOf(at[t]))

\* Every way out of a section unlocks, by a defer or by a call on each path.
Unlock(t, x) == Release(t, LockOf(at[t]))

Leave(t) ==
    /\ stage[t] = "inside"
    /\ \E x \in After(at[t]) : Unlock(t, x) /\ Move(t, x, "before")

Nest(t) ==
    /\ stage[t] = "inside"
    /\ \E x \in Inner(at[t]) : Move(t, x, "before")
    /\ UNCHANGED <<writer, readers>>

\* The deferred unlock of Register and Unregister.
EntryDone(t) ==
    /\ at[t] = "entryDone"
    /\ Release(t, "manager")
    /\ Move(t, "idle", "before")

\* systemd answers, well or not.
Call(t) ==
    /\ at[t] = "call"
    /\ \E x \in After("call") : Move(t, x, "before")
    /\ UNCHANGED <<writer, readers>>

Next ==
    \E t \in Threads :
        \/ Begin(t) \/ Ask(t) \/ Enter(t) \/ RLock(t)
        \/ Leave(t) \/ Nest(t) \/ EntryDone(t) \/ Call(t)

\* Whoever holds a lock goes on, and Go's locks starve nobody: a waiter gets
\* a lock that is free again and again.  No call needs to return.
Fairness ==
    \A t \in Threads :
        /\ WF_vars(Enter(t)) /\ WF_vars(Leave(t) \/ Nest(t))
        /\ WF_vars(EntryDone(t))
        /\ SF_vars(Ask(t)) /\ SF_vars(RLock(t))

Spec == Init /\ [][Next]_vars

FairSpec == Spec /\ Fairness

-----------------------------------------------------------------------------
(* Properties *)

\* The write lock of k is t's.
Writes(t, k) ==
    \/ at[t] \in Exclusive /\ stage[t] # "before" /\ LockOf(at[t]) = k
    \/ at[t] \in Nested /\ k = "manager"

Reads(t, k) == at[t] \in Shared /\ stage[t] = "inside" /\ LockOf(at[t]) = k

\* Every variable has its type, and every lock is with those whose code is
\* between its Lock and its Unlock: none is left behind by a return, and nobody
\* is inside with a writer.
TypeOK ==
    /\ at \in [Threads -> Points]
    /\ stage \in [Threads -> {"before", "asked", "inside"}]
    /\ writer \in [Locks -> Threads \cup {Nobody}]
    /\ readers \in [Locks -> SUBSET Threads]
    /\ \A t \in Threads :
          /\ stage[t] # "before" => at[t] \in Sections
          /\ stage[t] = "asked" => at[t] \in Exclusive
          /\ \A k \in Locks :
                /\ writer[k] = t <=> Writes(t, k)
                /\ t \in readers[k] <=> Reads(t, k)
    /\ \A t \in Threads :
          at[t] \in Exclusive /\ stage[t] = "inside" =>
              readers[LockOf(at[t])] = {}

\* Whom t waits for.
Blockers(t) ==
    CASE at[t] \in Sections /\ stage[t] = "before" ->
             {writer[LockOf(at[t])]} \ {Nobody}
      [] stage[t] = "asked" -> readers[LockOf(at[t])]
      [] OTHER -> {}

\* No goroutines wait for each other in a circle: of any that one picks, one
\* waits for none of the others.  The manager's lock is never asked for under
\* another, and under the engine's and the logger's none is.
NoCircularWait ==
    \A group \in SUBSET Threads :
        group # {} => \E t \in group : Blockers(t) \cap group = {}

\* Whoever asks for a lock gets it, although systemd may never answer a Start
\* or a Stop: nobody keeps a lock while it waits for systemd.
LocksGranted ==
    \A t \in Threads :
        at[t] \in Sections /\ stage[t] # "inside" ~> stage[t] = "inside"
=============================================================================

------------------------- MODULE DaemonLocksProofs --------------------------
(***************************************************************************)
(* Proofs about DaemonLocks for any set of goroutines: every lock is with  *)
(* the code that has taken it, and no goroutines wait in a circle.         *)
(***************************************************************************)
EXTENDS DaemonLocks, TLAPS

USE NobodyAssumption
USE DEF vars, Locks, Nested, Exclusive, Shared, Sections, Points, Entries,
        Move, Writes, Reads

\* Every section has one of the three locks.
LEMMA LockOfType == ASSUME NEW x PROVE LockOf(x) \in Locks
BY DEF LockOf

\* What comes after a section, or inside it, is a point of the model.
LEMMA NextType ==
    ASSUME NEW x \in Points \ {"idle", "entryDone"}, NEW y \in After(x)
    PROVE  y \in Points
BY DEF After

\* The initial state is well typed.
LEMMA TypeInit == Init => TypeOK
BY DEF Init, TypeOK

\* Locking: a writer that asks or enters, a reader that enters.
LEMMA TypeLock ==
    ASSUME TypeOK, NEW t \in Threads, Ask(t) \/ Enter(t) \/ RLock(t)
    PROVE  TypeOK'
<1> LockOf(at[t]) \in Locks
  BY LockOfType
<1>1. CASE Ask(t)
  BY <1>1 DEF Ask, TypeOK
<1>2. CASE Enter(t)
  BY <1>2 DEF Enter, TypeOK
<1>3. CASE RLock(t)
  BY <1>3 DEF RLock, TypeOK
<1> QED
  BY <1>1, <1>2, <1>3

\* Unlocking, and what happens without a lock.
LEMMA TypeLeave ==
    ASSUME TypeOK, NEW t \in Threads,
           Begin(t) \/ Leave(t) \/ Nest(t) \/ EntryDone(t) \/ Call(t)
    PROVE  TypeOK'
<1> LockOf(at[t]) \in Locks
  BY LockOfType
<1>1. CASE Begin(t)
  BY <1>1 DEF Begin, TypeOK
<1>2. CASE Leave(t)
  BY <1>2 DEF Leave, Unlock, Release, After, LockOf, TypeOK
<1>3. CASE Nest(t)
  BY <1>3 DEF Nest, Inner, LockOf, TypeOK
<1>4. CASE EntryDone(t)
  BY <1>4 DEF EntryDone, Release, TypeOK
<1>5. CASE Call(t)
  BY <1>5 DEF Call, After, TypeOK
<1> QED
  BY <1>1, <1>2, <1>3, <1>4, <1>5

\* Every lock is with the code between its Lock and its Unlock, and nobody is
\* inside with a writer, for any number of goroutines.
THEOREM TypeCorrect == Spec => []TypeOK
<1>1. TypeOK /\ [Next]_vars => TypeOK'
  <2> SUFFICES ASSUME TypeOK, [Next]_vars PROVE TypeOK'
    OBVIOUS
  <2>1. CASE UNCHANGED vars
    BY <2>1 DEF TypeOK
  <2>2. CASE Next
    BY <2>2, TypeLock, TypeLeave DEF Next
  <2> QED
    BY <2>1, <2>2
<1> QED
  BY <1>1, TypeInit, PTL DEF Spec

-----------------------------------------------------------------------------

\* How far a goroutine is from going on by itself: those that wait for the
\* engine's lock are further than those that wait for the logger's, and
\* those that wait for the manager's further still; within a lock a writer
\* that has asked comes before those that have not.
Distance(t) ==
    IF at[t] \in Sections /\ stage[t] # "inside"
    THEN CASE LockOf(at[t]) = "logger" -> IF stage[t] = "asked" THEN 0 ELSE 1
           [] LockOf(at[t]) = "engine" -> IF stage[t] = "asked" THEN 2 ELSE 3
           [] OTHER -> IF stage[t] = "asked" THEN 4 ELSE 5
    ELSE 0

\* The distance is a small number.
LEMMA DistanceType == ASSUME NEW t PROVE Distance(t) \in 0..5
BY DEF Distance

\* A goroutine waits only for such as are nearer than itself.
LEMMA BlockersNearer ==
    ASSUME TypeOK, NEW t \in Threads, NEW u \in Blockers(t)
    PROVE  u \in Threads /\ Distance(u) < Distance(t)
<1> DEFINE k == LockOf(at[t])
<1>0. k \in Locks
  BY LockOfType
<1>1. CASE at[t] \in Sections /\ stage[t] = "before"
  <2>1. u \in Threads /\ writer[k] = u
    BY <1>0, <1>1 DEF Blockers, TypeOK
  <2>2. Writes(u, k)
    BY <1>0, <2>1 DEF TypeOK
  <2>3. at[t] \in {"entries", "claim", "settle", "look"} => k = "manager"
    BY DEF LockOf
  <2> QED
    BY <1>0, <1>1, <2>1, <2>2 DEF Distance, LockOf, TypeOK
<1>2. CASE stage[t] = "asked"
  <2>1. u \in Threads /\ Reads(u, k)
    BY <1>0, <1>2 DEF Blockers, TypeOK
  <2>2. Distance(u) = 0
    BY <2>1 DEF Distance
  <2>3. Distance(t) # 0
    <3>1. at[u] \in Shared /\ LockOf(at[u]) = k
      BY <2>1
    <3>2. k # "logger"
      BY <3>1 DEF LockOf
    <3> QED
      BY <1>0, <1>2, <3>2 DEF Distance, TypeOK
  <2> QED
    BY <2>1, <2>2, <2>3, DistanceType
<1> QED
  BY <1>1, <1>2 DEF Blockers

\* In every group somebody is nearest.
LEMMA SomebodyNearest ==
    ASSUME NEW group \in SUBSET Threads, group # {}
    PROVE  \E t \in group : \A u \in group : Distance(t) <= Distance(u)
<1> \A t \in group : Distance(t) \in 0..5
  BY DistanceType
<1> DEFINE Someone(n) == \E t \in group : Distance(t) = n
<1>1. \E n \in 0..5 : Someone(n)
  OBVIOUS
<1>2. PICK n \in 0..5 : Someone(n) /\ \A i \in 0..5 : i < n => ~Someone(i)
  <2> HIDE DEF Someone
  <2> QED
    BY <1>1
<1> QED
  BY <1>2

\* No goroutines wait for each other in a circle, however many they are.
THEOREM CirclesImpossible == Spec => []NoCircularWait
<1>1. TypeOK => NoCircularWait
  <2> SUFFICES ASSUME TypeOK, NEW group \in SUBSET Threads, group # {}
               PROVE  \E t \in group : Blockers(t) \cap group = {}
    BY DEF NoCircularWait
  <2>1. PICK t \in group : \A u \in group : Distance(t) <= Distance(u)
    BY SomebodyNearest
  <2>2. \A u \in Blockers(t) : Distance(u) < Distance(t)
    BY BlockersNearer
  <2>3. \A u \in group : Distance(u) \in 0..5
    BY DistanceType
  <2> QED
    BY <2>1, <2>2, <2>3
<1> QED
  BY <1>1, TypeCorrect, PTL

-----------------------------------------------------------------------------
(* What the locks give to the other modules *)

\* t runs code that the lock of k protects.
Inside(t, k) ==
    \/ at[t] \in Sections /\ stage[t] = "inside" /\ LockOf(at[t]) = k
    \/ at[t] \in Nested /\ k = "manager"

Writing(t, k) == Inside(t, k) /\ Writes(t, k)

\* Whoever writes under a lock is alone with it.
SectionsExclude ==
    \A k \in Locks : \A t, u \in Threads :
        Writing(t, k) /\ Inside(u, k) => t = u

\* The readers have left for as long as an entry is made or removed.
EntryAlone ==
    \A t \in Threads : at[t] \in Nested => readers["manager"] = {}

\* No reader of the records is let in while an entry is being changed.
LEMMA EntryAloneStep == TypeOK /\ EntryAlone /\ [Next]_vars => EntryAlone'
<1> SUFFICES ASSUME TypeOK, EntryAlone, [Next]_vars,
                    NEW u \in Threads, at'[u] \in Nested
             PROVE  readers'["manager"] = {}
  BY DEF EntryAlone
<1>1. ASSUME NEW t \in Threads, Begin(t) \/ Ask(t) \/ Enter(t) \/ Call(t)
      PROVE  readers' = readers /\ at[u] \in Nested
  BY <1>1 DEF Begin, Ask, Enter, Call, After, TypeOK
<1>2. ASSUME NEW t \in Threads, RLock(t)
      PROVE  readers'["manager"] = readers["manager"] /\ at[u] \in Nested
  <2>1. at[u] \in Nested
    BY <1>2 DEF RLock, TypeOK
  <2>2. writer["manager"] # Nobody
    BY <2>1 DEF TypeOK
  <2> QED
    BY <1>2, <2>1, <2>2, LockOfType DEF RLock, TypeOK
<1>3. ASSUME NEW t \in Threads, Leave(t) \/ EntryDone(t)
      PROVE  readers'["manager"] \subseteq readers["manager"] /\ at[u] \in Nested
  <2>1. readers'["manager"] \subseteq readers["manager"]
    BY <1>3, LockOfType DEF Leave, EntryDone, Unlock, Release, TypeOK
  <2>2. at[u] \in Nested
    BY <1>3 DEF Leave, EntryDone, After, TypeOK
  <2> QED
    BY <2>1, <2>2
<1>4. ASSUME NEW t \in Threads, Nest(t)
      PROVE  readers'["manager"] = {}
  <2>1. at[t] = "entries" /\ stage[t] = "inside" /\ readers' = readers
    BY <1>4 DEF Nest, Inner
  <2> QED
    BY <2>1 DEF TypeOK, LockOf
<1>5. CASE UNCHANGED vars
  BY <1>5 DEF EntryAlone
<1> QED
  BY <1>1, <1>2, <1>3, <1>4, <1>5 DEF Next, EntryAlone

\* Whoever is inside with a writer is that writer: Register and Unregister
\* keep the manager's lock to themselves through their calls of the engine and
\* the logger, and a claim, a settled state or a reload is seen whole or not at
\* all.  This is why Register and Unregister are one action each of
\* AgentLifecycle, and why an evaluation of PolicyEngine reads record and
\* query in one.
THEOREM SectionsExclusive == Spec => []SectionsExclude
<1>1. Init => EntryAlone
  BY DEF Init, EntryAlone
<1>2. TypeOK /\ EntryAlone => SectionsExclude
  <2> SUFFICES ASSUME TypeOK, EntryAlone, NEW k \in Locks,
                      NEW t \in Threads, NEW u \in Threads,
                      Writing(t, k), Inside(u, k)
               PROVE  t = u
    BY DEF SectionsExclude
  <2>1. writer[k] = t
    BY DEF Writing, TypeOK
  <2>2. CASE Writes(u, k)
    BY <2>1, <2>2 DEF TypeOK
  <2>3. CASE Reads(u, k)
    <3>1. u \in readers[k]
      BY <2>3 DEF TypeOK
    <3>2. readers[k] = {}
      BY DEF Writing, Inside, TypeOK, EntryAlone
    <3> QED
      BY <3>1, <3>2
  <2> QED
    BY <2>2, <2>3 DEF Inside, TypeOK
<1> QED
  BY <1>1, <1>2, EntryAloneStep, TypeCorrect, PTL DEF Spec

\* t has a lock, and is not still waiting for its readers to leave.
Holds(t) ==
    \E k \in Locks :
        \/ Writes(t, k) /\ stage[t] # "asked"
        \/ Reads(t, k)

\* A call of systemd is made under no lock.
CallsUnlocked == \A t \in Threads : at[t] = "call" => ~Holds(t)

\* When somebody waits for a lock, somebody is in the code under a lock, or
\* about to enter it, and waits for nobody.
SomebodyGoesOn ==
    (\E t \in Threads : Blockers(t) # {}) =>
        \E u \in Threads :
            /\ Blockers(u) = {}
            /\ stage[u] = "asked" \/ Holds(u)

\* The daemon never stands still over its locks: from whatever goroutines
\* wait, one that holds up others can go on by itself, without an answer of
\* systemd.
THEOREM LocksNeverStandStill == Spec => [](CallsUnlocked /\ SomebodyGoesOn)
<1>1. TypeOK => CallsUnlocked
  BY DEF CallsUnlocked, Holds, TypeOK
<1>2. TypeOK => SomebodyGoesOn
  <2> SUFFICES ASSUME TypeOK, NEW t \in Threads, Blockers(t) # {}
               PROVE  \E u \in Threads :
                          Blockers(u) = {} /\ (stage[u] = "asked" \/ Holds(u))
    BY DEF SomebodyGoesOn
  <2> DEFINE awaited == {u \in Threads : \E w \in Threads : u \in Blockers(w)}
  <2>1. awaited \in SUBSET Threads /\ awaited # {}
    BY BlockersNearer
  <2>2. PICK u \in awaited : \A w \in awaited : Distance(u) <= Distance(w)
    BY <2>1, SomebodyNearest
  <2>3. Blockers(u) = {}
    <3> SUFFICES ASSUME NEW w \in Blockers(u) PROVE FALSE
      OBVIOUS
    <3>1. u \in Threads
      BY <2>1
    <3>2. w \in awaited /\ Distance(w) < Distance(u)
      BY <3>1, BlockersNearer
    <3>3. Distance(u) <= Distance(w)
      BY <2>2, <3>2
    <3>4. Distance(u) \in 0..5 /\ Distance(w) \in 0..5
      BY DistanceType
    <3> QED
      BY <3>2, <3>3, <3>4
  <2>4. PICK w \in Threads : u \in Blockers(w)
    OBVIOUS
  <2>5. LockOf(at[w]) \in Locks
    BY LockOfType
  <2>6. stage[u] = "asked" \/ Holds(u)
    BY <2>4, <2>5 DEF Blockers, Holds, TypeOK
  <2> QED
    BY <2>3, <2>6
<1> QED
  BY <1>1, <1>2, TypeCorrect, PTL
=============================================================================

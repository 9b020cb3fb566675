-------------------------- MODULE CustomCommandProofs --------------------------
(***************************************************************************)
(* Proofs about CustomCommand for every finite set of actions, any number  *)
(* of lock names and any settings.                                         *)
(***************************************************************************)
EXTENDS CustomCommand, FiniteSetTheorems, WellFoundedInduction, TLAPS

-----------------------------------------------------------------------------
(* What the operations of GlobalSharedMutex do to a mutex, in terms of who *)
(* owns it and whose callbacks it stores.                                  *)

\* What a mutex m looks like when X owns it exclusively, S owns it shared, and
\* the callbacks of AX (at most one) and AS are stored in it.
MutexFor(m, X, S, AX, AS) ==
    /\ m \in MutexType
    /\ m.exclusivelyOwned <=> X # {}
    /\ X # {} => S = {} /\ \E x : X = {x}
    /\ IsFiniteSet(S) /\ m.sharedOwners = Cardinality(S)
    /\ m.sharedCallbacks = AS
    /\ AX = {m.exclusiveCallback} \ {None}
    /\ AS # {} => X # {}
    /\ AX # {} => X # {} \/ S # {}

LEMMA TakeExclusive ==
    ASSUME NEW m, NEW X, NEW S, NEW AX, NEW AS, MutexFor(m, X, S, AX, AS),
           CanLock(m), NEW x
    PROVE  X = {} /\ S = {} /\ MutexFor(Locked(m), {x}, {}, AX, AS)
  <1>1. X = {} BY DEF MutexFor, CanLock
  <1>2. S = {} BY FS_EmptySet DEF MutexFor, CanLock
  <1> QED BY <1>1, <1>2 DEF MutexFor, Locked, MutexType

LEMMA TakeShared ==
    ASSUME NEW m, NEW X, NEW S, NEW AX, NEW AS, MutexFor(m, X, S, AX, AS),
           CanLockShared(m), NEW c, c \notin S
    PROVE  MutexFor(LockedShared(m), X, S \cup {c}, AX, AS)
  <1>1. X = {} BY DEF MutexFor, CanLockShared
  <1>2. IsFiniteSet(S \cup {c}) /\ Cardinality(S \cup {c}) = Cardinality(S) + 1
    BY FS_AddElement DEF MutexFor
  <1> QED BY <1>1, <1>2 DEF MutexFor, LockedShared, MutexType

LEMMA StoreExclusive ==
    ASSUME NEW m, NEW X, NEW S, NEW AX, NEW AS, MutexFor(m, X, S, AX, AS),
           ~CanLock(m), NEW c \in Clients
    PROVE  MutexFor(WithExclusiveCallback(m, c), X, S, {c}, AS)
  <1>1. X # {} \/ S # {} BY FS_EmptySet DEF MutexFor, CanLock
  <1> QED BY <1>1, ClientsAssumption DEF MutexFor, WithExclusiveCallback, MutexType

LEMMA StoreShared ==
    ASSUME NEW m, NEW X, NEW S, NEW AX, NEW AS, MutexFor(m, X, S, AX, AS),
           ~CanLockShared(m), NEW c \in Clients
    PROVE  MutexFor(WithSharedCallback(m, c), X, S, AX, AS \cup {c})
  BY DEF MutexFor, WithSharedCallback, MutexType, CanLockShared

\* The exclusive owner leaves: all shared callbacks or else the exclusive one get
\* the mutex.
LEMMA LeaveExclusive ==
    ASSUME NEW m, NEW X, NEW S, NEW AX, NEW AS, MutexFor(m, X, S, AX, AS),
           NEW x \in X, IsFiniteSet(AS)
    PROVE  LET u == Unlocked(m)
           IN  /\ u.sharedOwners = 0
               /\ InvokedShared(u) = AS
               /\ InvokedExclusive(u) = IF AS = {} THEN AX ELSE {}
               /\ MutexFor(Notified(u), InvokedExclusive(u), AS, AX \ InvokedExclusive(u), {})
  <1> DEFINE u == Unlocked(m)
  <1>1. S = {} /\ m.sharedOwners = 0 BY FS_EmptySet DEF MutexFor
  <1>2. u = [m EXCEPT !.exclusivelyOwned = FALSE] BY DEF Unlocked
  <1>3. m \in MutexType BY DEF MutexFor
  <1>4. u.sharedOwners = 0 BY <1>1, <1>2, <1>3 DEF MutexType
  <1>5. InvokedShared(u) = AS BY <1>2, <1>3 DEF InvokedShared, MutexFor, MutexType
  <1>6. InvokedExclusive(u) = IF AS = {} THEN AX ELSE {}
    BY <1>2, <1>3, <1>4, <1>5 DEF InvokedExclusive, MutexFor, MutexType, CanLock
  <1>7. MutexFor(Notified(u), InvokedExclusive(u), AS, AX \ InvokedExclusive(u), {})
    <2>1. CASE AS # {}
      <3>1. Notified(u) = [u EXCEPT !.sharedOwners = @ + Cardinality(AS), !.sharedCallbacks = {}]
        BY <1>5, <2>1 DEF Notified
      <3>2. Cardinality(AS) \in Nat BY FS_CardinalityType
      <3>3. /\ Notified(u) \in MutexType
            /\ Notified(u).sharedOwners = Cardinality(AS)
            /\ ~Notified(u).exclusivelyOwned
            /\ Notified(u).sharedCallbacks = {}
            /\ Notified(u).exclusiveCallback = m.exclusiveCallback
        <4>1. Notified(u) = [sharedOwners |-> Cardinality(AS), exclusivelyOwned |-> FALSE,
                             sharedCallbacks |-> {}, exclusiveCallback |-> m.exclusiveCallback]
          <5>1. u = [sharedOwners |-> 0, exclusivelyOwned |-> FALSE,
                     sharedCallbacks |-> m.sharedCallbacks,
                     exclusiveCallback |-> m.exclusiveCallback]
            BY <1>1, <1>2, <1>3 DEF MutexType
          <5> HIDE DEF u
          <5>2. u.sharedOwners + Cardinality(AS) = Cardinality(AS) BY <3>2, <5>1
          <5> QED BY <3>1, <5>1, <5>2
        <4>2. m.exclusiveCallback \in Clients \cup {None} BY <1>3 DEF MutexType
        <4> QED BY <3>2, <4>1, <4>2 DEF MutexType
      <3>4. InvokedExclusive(u) = {} /\ AX = {m.exclusiveCallback} \ {None}
        BY <1>6, <2>1 DEF MutexFor
      <3> HIDE DEF u
      <3> QED BY <2>1, <3>3, <3>4 DEF MutexFor
    <2>2. CASE AS = {} /\ AX # {}
      <3>1. Notified(u) = [u EXCEPT !.exclusivelyOwned = TRUE, !.exclusiveCallback = None]
        BY <1>5, <1>6, <2>2 DEF Notified
      <3>2. /\ Notified(u) \in MutexType
            /\ Notified(u).sharedOwners = 0
            /\ Notified(u).exclusivelyOwned
            /\ Notified(u).sharedCallbacks = {}
            /\ Notified(u).exclusiveCallback = None
        BY <1>2, <1>3, <1>4, <1>5, <2>2, <3>1 DEF MutexType, MutexFor
      <3>3. InvokedExclusive(u) = AX /\ AX = {m.exclusiveCallback}
        BY <1>6, <2>2 DEF MutexFor
      <3>4. AX \ InvokedExclusive(u) = {} BY <3>3
      <3> HIDE DEF u
      <3> QED BY <2>2, <3>2, <3>3, <3>4, FS_EmptySet DEF MutexFor
    <2>3. CASE AS = {} /\ AX = {}
      <3>1. Notified(u) = u BY <1>5, <1>6, <2>3 DEF Notified
      <3> QED BY <1>1, <1>2, <1>3, <1>6, <2>3, <3>1, FS_EmptySet DEF MutexFor, MutexType
    <2> QED BY <2>1, <2>2, <2>3
  <1> QED BY <1>4, <1>5, <1>6, <1>7

\* A shared owner leaves; only the last one hands over, to the exclusive callback.
LEMMA LeaveShared ==
    ASSUME NEW m, NEW X, NEW S, NEW AX, NEW AS, MutexFor(m, X, S, AX, AS),
           NEW c \in S
    PROVE  LET u == UnlockedShared(m)
           IN  /\ u.sharedOwners # 0 => MutexFor(u, X, S \ {c}, AX, AS)
               /\ u.sharedOwners = 0 =>
                     /\ S = {c} /\ AS = {} /\ InvokedShared(u) = {}
                     /\ InvokedExclusive(u) = AX
                     /\ MutexFor(Notified(u), AX, {}, {}, {})
  <1> DEFINE u == UnlockedShared(m)
  <1>1. X = {} /\ AS = {} BY DEF MutexFor
  <1>2. /\ IsFiniteSet(S \ {c}) /\ Cardinality(S \ {c}) = Cardinality(S) - 1
        /\ Cardinality(S) \in Nat
    BY FS_RemoveElement, FS_CardinalityType DEF MutexFor
  <1>3. m \in MutexType BY DEF MutexFor
  <1>4. u = [m EXCEPT !.sharedOwners = @ - 1] BY DEF UnlockedShared
  <1>5. u.sharedOwners = Cardinality(S \ {c}) /\ u.sharedOwners \in Nat
    BY <1>2, <1>3, <1>4, FS_CardinalityType DEF MutexFor, MutexType
  <1>6. ASSUME u.sharedOwners # 0 PROVE MutexFor(u, X, S \ {c}, AX, AS)
    <2>1. S \ {c} # {} BY <1>5, <1>6, FS_EmptySet
    <2> QED BY <1>1, <1>2, <1>3, <1>4, <1>5, <2>1 DEF MutexFor, MutexType
  <1>7. ASSUME u.sharedOwners = 0
        PROVE  /\ S = {c} /\ AS = {} /\ InvokedShared(u) = {}
               /\ InvokedExclusive(u) = AX
               /\ MutexFor(Notified(u), AX, {}, {}, {})
    <2>1. S \ {c} = {} BY <1>2, <1>5, <1>7, FS_EmptySet
    <2>2. InvokedShared(u) = {} BY <1>1, <1>3, <1>4 DEF InvokedShared, MutexFor, MutexType
    <2>3. InvokedExclusive(u) = AX
      BY <1>1, <1>3, <1>4, <1>7, <2>2 DEF InvokedExclusive, MutexFor, MutexType, CanLock
    <2>4. CASE AX # {}
      <3>1. Notified(u) = [u EXCEPT !.exclusivelyOwned = TRUE, !.exclusiveCallback = None]
        BY <2>2, <2>3, <2>4 DEF Notified
      <3>2. /\ Notified(u) \in MutexType
            /\ Notified(u).sharedOwners = 0
            /\ Notified(u).exclusivelyOwned
            /\ Notified(u).sharedCallbacks = {}
            /\ Notified(u).exclusiveCallback = None
        <4>1. Notified(u) = [sharedOwners |-> 0, exclusivelyOwned |-> TRUE,
                             sharedCallbacks |-> {}, exclusiveCallback |-> None]
          BY <1>1, <1>3, <1>4, <1>7, <3>1 DEF MutexType, MutexFor
        <4> QED BY <4>1 DEF MutexType
      <3>3. AX = {m.exclusiveCallback} BY <2>4 DEF MutexFor
      <3>4. MutexFor(Notified(u), AX, {}, {}, {})
        <4> HIDE DEF u
        <4> QED BY <3>2, <3>3, FS_EmptySet DEF MutexFor
      <3> QED BY <1>1, <2>1, <2>2, <2>3, <3>4
    <2>5. CASE AX = {}
      <3>1. Notified(u) = u BY <2>2, <2>3, <2>5 DEF Notified
      <3> QED BY <1>1, <1>3, <1>4, <1>7, <2>1, <2>2, <2>3, <2>5, <3>1, FS_EmptySet
          DEF MutexFor, MutexType
    <2> QED BY <2>4, <2>5
  <1> QED BY <1>6, <1>7

-----------------------------------------------------------------------------
(* The inductive invariant *)

SharedLock(n) == [name |-> n, exclusive |-> FALSE]
ExclusiveLock(n) == [name |-> n, exclusive |-> TRUE]

\* A mutex handed over to a stored callback belongs to the action at once.
Owns(c, l) == l \in locks[c] \/ (pc[c] = "grant" /\ IsNext(c, l))
WaitsFor(c, l) == pc[c] = "wait" /\ IsNext(c, l)

Owners(l) == {c \in Clients : Owns(c, l)}
Waiters(l) == {c \in Clients : WaitsFor(c, l)}

MutexRight(n) ==
    MutexFor(mutexes[n], Owners(ExclusiveLock(n)), Owners(SharedLock(n)),
             Waiters(ExclusiveLock(n)), Waiters(SharedLock(n)))

\* The locks of an action are those it has got so far, which come before those
\* it has not got yet.
LocksRight(c) ==
    /\ pc[c] \in {"posted", "exited", "ended"} => todo[c] = {} /\ locks[c] = {}
    /\ pc[c] \in {"acquire", "wait", "grant", "dropped"} =>
          /\ locks[c] \cup todo[c] = LocksOf(c)
          /\ locks[c] \cap todo[c] = {}
          /\ \A k \in locks[c], l \in todo[c] : Before(k, l)
    /\ pc[c] \in {"wait", "grant"} => \E l \in todo[c] : IsNext(c, l)
    /\ pc[c] = "launched" => todo[c] = {} /\ locks[c] = LocksOf(c)
    /\ pc[c] = "release" => todo[c] = {} /\ locks[c] \subseteq LocksOf(c)

\* The mutexes have to match what the sessions hold and wait for, and the order
\* of acquisition shows only in the locks of all actions at any point.
IInv ==
    /\ TypeOK
    /\ \A n \in Names : MutexRight(n)
    /\ \A c \in Clients : LocksRight(c)

\* No action takes a name shared that does not come before the names it takes
\* exclusively.  The code does not enforce this: without it two actions may hold
\* a lock shared each that the other one wants exclusively.
OrderedSettings ==
    \A c \in Clients : \A n \in Shared[c], m \in Exclusive[c] : n < m

-------------------------------------------------------------------------------
(* The order of acquisition.                                               *)

\* An action has only one next lock.
LEMMA OneNext ==
    ASSUME TypeOK, NEW c \in Clients, NEW k, NEW l, IsNext(c, k), IsNext(c, l)
    PROVE  k = l
  <1>1. k \in Lock /\ l \in Lock BY DEF IsNext, TypeOK
  <1>2. k.name \in Nat /\ l.name \in Nat
    BY <1>1, CommandsAssumption DEF Lock, Names
  <1>3. ~(Before(k, l) /\ Before(l, k)) BY <1>2 DEF Before
  <1> QED BY <1>3 DEF IsNext

LEMMA LockTypes ==
    ASSUME NEW n \in Names
    PROVE  ExclusiveLock(n) \in Lock /\ SharedLock(n) \in Lock
  BY DEF Lock, ExclusiveLock, SharedLock

LEMMA LockCases ==
    ASSUME NEW l \in Lock
    PROVE  /\ l.name \in Names
           /\ \/ l = ExclusiveLock(l.name) /\ l.exclusive
              \/ l = SharedLock(l.name) /\ ~l.exclusive
  BY DEF Lock, ExclusiveLock, SharedLock

LEMMA LocksOfTypes ==
    ASSUME NEW c \in Clients
    PROVE  /\ LocksOf(c) \subseteq Lock
           /\ \A n : ExclusiveLock(n) \in LocksOf(c) <=> n \in Exclusive[c]
           /\ \A n : SharedLock(n) \in LocksOf(c) <=> n \in Shared[c]
  <1>1. LocksOf(c) = {SharedLock(n) : n \in Shared[c]} \cup {ExclusiveLock(n) : n \in Exclusive[c]}
    BY DEF LocksOf, SharedLock, ExclusiveLock
  <1>2. Shared[c] \subseteq Names /\ Exclusive[c] \subseteq Names BY CommandsAssumption
  <1>3. \A n, m : SharedLock(n) # ExclusiveLock(m) BY DEF SharedLock, ExclusiveLock
  <1>4. \A n, m : SharedLock(n) = SharedLock(m) => n = m BY DEF SharedLock
  <1>5. \A n, m : ExclusiveLock(n) = ExclusiveLock(m) => n = m BY DEF ExclusiveLock
  <1> QED BY <1>1, <1>2, <1>3, <1>4, <1>5, LockTypes

LEMMA FiniteWaiters == ASSUME NEW l PROVE IsFiniteSet(Waiters(l))
  <1>1. Waiters(l) \subseteq Clients BY DEF Waiters
  <1> QED BY <1>1, FS_Subset, ClientsAssumption

-------------------------------------------------------------------------------
(* Invariants follow from the inductive one, which holds initially.        *)

LEMMA InitIInv == Init => IInv
  <1> SUFFICES ASSUME Init PROVE IInv OBVIOUS
  <1>1. TypeOK BY DEF Init, TypeOK, NewMutex, MutexType, PCs
  <1>2. ASSUME NEW n \in Names PROVE MutexRight(n)
    <2>1. mutexes[n] = NewMutex BY DEF Init
    <2>2. \A l : Owners(l) = {} /\ Waiters(l) = {}
      BY DEF Init, Owners, Waiters, Owns, WaitsFor
    <2> QED BY <2>1, <2>2, FS_EmptySet DEF MutexRight, MutexFor, NewMutex, MutexType
  <1>3. \A c \in Clients : LocksRight(c) BY DEF Init, LocksRight
  <1> QED BY <1>1, <1>2, <1>3 DEF IInv

LEMMA Separated == IInv => TypeOK /\ ConflictingNeverTogether
  <1> SUFFICES ASSUME IInv, NEW c \in Clients, NEW d \in Clients, c # d,
                      pc[c] = "launched", pc[d] = "launched",
                      NEW n \in Exclusive[c] \cap (Shared[d] \cup Exclusive[d])
               PROVE  FALSE
    BY DEF IInv, ConflictingNeverTogether
  <1>1. n \in Names BY CommandsAssumption
  <1>2. locks[c] = LocksOf(c) /\ locks[d] = LocksOf(d) BY DEF IInv, LocksRight
  <1>3. c \in Owners(ExclusiveLock(n))
    BY <1>2, LocksOfTypes DEF Owners, Owns
  <1>4. d \in Owners(ExclusiveLock(n)) \cup Owners(SharedLock(n))
    BY <1>2, LocksOfTypes DEF Owners, Owns
  <1> QED BY <1>1, <1>3, <1>4 DEF IInv, MutexRight, MutexFor

\* Of some names one is the largest: the one with the fewest names above it.
LEMMA Largest ==
    ASSUME NEW S \in SUBSET Names, S # {}
    PROVE  \E m \in S : \A k \in S : k <= m
  <1> DEFINE Above(m) == {k \in S : k > m}
             T == {Above(m) : m \in S}
             R == StrictSubsetOrdering(S)
  <1>1. S \subseteq Int BY DEF Names
  <1>2. IsFiniteSet(S)
    <2>1. IsFiniteSet(1 .. MaxName) BY FS_Interval, CommandsAssumption
    <2> QED BY <2>1, FS_Subset DEF Names
  <1>3. T \subseteq FiniteSubsetsOf(S) /\ T # {}
    <2>1. FiniteSubsetsOf(S) = SUBSET S BY <1>2, FS_FiniteSubsetsOfFinite
    <2>2. \A u \in T : u \subseteq S OBVIOUS
    <2>3. T # {} OBVIOUS
    <2> HIDE DEF T
    <2> QED BY <2>1, <2>2, <2>3
  <1>4. PICK t \in T : \A u \in T : <<u, t>> \notin R
    <2> HIDE DEF R, T
    <2>1. IsWellFoundedOn(R, FiniteSubsetsOf(S))
      BY FS_StrictSubsetOrderingWellFounded DEF R
    <2> QED BY <1>3, <2>1, WFMin
  <1>5. PICK m \in S : t = Above(m) OBVIOUS
  <1>6. ASSUME NEW k \in S, k > m PROVE FALSE
    <2>1. Above(k) \in T /\ Above(m) \in T BY <1>5
    <2>2. Above(k) \subseteq Above(m)
      <3>1. ASSUME NEW x \in Above(k) PROVE x \in Above(m)
        <4>1. x \in S /\ x > k OBVIOUS
        <4>2. x \in Int /\ k \in Int /\ m \in Int BY <1>1, <4>1
        <4> QED BY <1>6, <4>1, <4>2
      <3> QED BY <3>1
    <2>3. k \in Above(m) /\ k \notin Above(k) BY <1>1, <1>6
    <2>4. <<Above(k), Above(m)>> \in R BY <2>2, <2>3 DEF StrictSubsetOrdering
    <2> QED BY <1>4, <1>5, <2>1, <2>4
  <1> QED BY <1>1, <1>6

LEMMA NoCircle ==
    ASSUME IInv, OrderedSettings PROVE NoCircularWait
  <1> SUFFICES ASSUME NEW D \in SUBSET Clients, D # {}, \A c \in D : InTheWay(c) \cap D # {}
               PROVE  FALSE
    BY DEF NoCircularWait
  <1> DEFINE wanted == UNION {{l.name : l \in Wanted(c)} : c \in D}
  <1>1. \A c \in D : Wanted(c) # {} BY DEF InTheWay
  <1>2. \A c \in D : \A l \in Wanted(c) : l \in todo[c] /\ l \in Lock /\ pc[c] = "wait"
    BY DEF Wanted, IInv, TypeOK
  <1>3. wanted \in SUBSET Names /\ wanted # {} BY <1>1, <1>2 DEF Lock
  <1>4. PICK m \in wanted : \A k \in wanted : k <= m
    <2> HIDE DEF wanted
    <2> QED BY <1>3, Largest
  <1>5. PICK c \in D : \E l \in Wanted(c) : l.name = m BY <1>4
  <1>6. \A l \in Wanted(c) : l.name = m BY <1>5, OneNext DEF Wanted, IInv
  <1>7. PICK d \in D : d \in InTheWay(c) OBVIOUS
  <1>8. PICK k \in locks[d] : k.name = m BY <1>6, <1>7 DEF InTheWay
  <1>9. PICK l \in Wanted(d) : TRUE BY <1>1
  <1>10. k \in LocksOf(d) /\ l \in LocksOf(d) /\ Before(k, l)
    BY <1>2, <1>8, <1>9 DEF IInv, LocksRight
  <1>11. k.name < l.name
    BY <1>10 DEF LocksOf, Before, OrderedSettings
  <1>12. l.name <= m BY <1>4, <1>9
  <1>13. l.name \in Nat /\ m \in Nat
    BY <1>2, <1>3, <1>9, CommandsAssumption DEF Lock, Names
  <1> QED BY <1>8, <1>11, <1>12, <1>13

-------------------------------------------------------------------------------
(* Steps that leave owners and callbacks alone.                            *)

\* A mutex whose owners and callbacks stay the same.
LEMMA SameMutex ==
    ASSUME NEW n \in Names, MutexRight(n), mutexes'[n] = mutexes[n],
           \A c \in Clients : \A l \in {ExclusiveLock(n), SharedLock(n)} :
               (Owns(c, l)' <=> Owns(c, l)) /\ (WaitsFor(c, l)' <=> WaitsFor(c, l))
    PROVE  MutexRight(n)'
  <1>1. \A l \in {ExclusiveLock(n), SharedLock(n)} :
            Owners(l)' = Owners(l) /\ Waiters(l)' = Waiters(l)
    BY DEF Owners, Waiters
  <1>2. /\ ExclusiveLock(n)' = ExclusiveLock(n) /\ SharedLock(n)' = SharedLock(n)
    BY DEF ExclusiveLock, SharedLock
  <1> QED BY <1>1, <1>2 DEF MutexRight

\* An action that neither waits nor is handed a lock before and after.
LEMMA Elsewhere ==
    ASSUME IInv, NEW c \in Clients, NEW to \in PCs \ {"wait", "grant"},
           pc[c] \notin {"wait", "grant"}, pc' = [pc EXCEPT ![c] = to],
           \A d \in Clients \ {c} : todo'[d] = todo[d],
           UNCHANGED <<mutexes, locks>>
    PROVE  \A n \in Names : MutexRight(n)'
  <1>1. ASSUME NEW d \in Clients, NEW l
        PROVE  (Owns(d, l)' <=> Owns(d, l)) /\ (WaitsFor(d, l)' <=> WaitsFor(d, l))
    <2>1. CASE d = c BY <2>1 DEF Owns, WaitsFor, IInv, TypeOK
    <2>2. CASE d # c BY <2>2 DEF Owns, WaitsFor, IsNext, IInv, TypeOK
    <2> QED BY <2>1, <2>2
  <1> QED BY <1>1, SameMutex DEF IInv

LEMMA RunIInv ==
    ASSUME IInv, NEW c \in Clients, Run(c) PROVE IInv'
  <1> USE DEF IInv, Run
  <1>1. LocksOf(c) \subseteq Lock BY LocksOfTypes
  <1>2. TypeOK' BY <1>1 DEF TypeOK, PCs
  <1>3. \A n \in Names : MutexRight(n)'
    BY Elsewhere DEF PCs, TypeOK
  <1>4. \A d \in Clients : LocksRight(d)'
    BY DEF LocksRight, IsNext, TypeOK
  <1> QED BY <1>2, <1>3, <1>4

LEMMA LaunchIInv ==
    ASSUME IInv, NEW c \in Clients, Launch(c) PROVE IInv'
  <1> USE DEF IInv, Launch
  <1>1. TypeOK' BY DEF TypeOK, PCs
  <1>2. \A n \in Names : MutexRight(n)' BY Elsewhere DEF PCs
  <1>3. \A d \in Clients : LocksRight(d)'
    <2> SUFFICES ASSUME NEW d \in Clients PROVE LocksRight(d)' OBVIOUS
    <2>1. LocksRight(d) /\ locks' = locks /\ todo' = todo OBVIOUS
    <2>2. CASE d = c
      <3>1. pc'[c] \in {"launched", "release"} /\ pc[c] = "acquire" /\ todo[c] = {}
        BY DEF TypeOK
      <3> QED BY <2>1, <2>2, <3>1 DEF LocksRight
    <2>3. CASE d # c
      <3>1. pc'[d] = pc[d] BY <2>3 DEF TypeOK
      <3> QED BY <2>1, <3>1 DEF LocksRight, IsNext
    <2> QED BY <2>2, <2>3
  <1> QED BY <1>1, <1>2, <1>3

LEMMA ExitIInv ==
    ASSUME IInv, NEW c \in Clients, Exit(c) PROVE IInv'
  <1> USE DEF IInv, Exit
  <1>1. TypeOK' BY DEF TypeOK, PCs
  <1>2. \A n \in Names : MutexRight(n)' BY Elsewhere DEF PCs
  <1>3. \A d \in Clients : LocksRight(d)' BY DEF LocksRight, IsNext, TypeOK
  <1> QED BY <1>1, <1>2, <1>3

LEMMA PostHandlerIInv ==
    ASSUME IInv, NEW c \in Clients, PostHandler(c) PROVE IInv'
  <1> USE DEF IInv, PostHandler
  <1>1. TypeOK' BY DEF TypeOK, PCs
  <1>2. \A n \in Names : MutexRight(n)' BY Elsewhere DEF PCs
  <1>3. \A d \in Clients : LocksRight(d)' BY DEF LocksRight, IsNext, TypeOK
  <1> QED BY <1>1, <1>2, <1>3

LEMMA RunHandlerIInv ==
    ASSUME IInv, NEW c \in Clients, RunHandler(c) PROVE IInv'
  <1> USE DEF IInv, RunHandler
  <1>1. TypeOK' BY DEF TypeOK, PCs
  <1>2. \A n \in Names : MutexRight(n)' BY Elsewhere DEF PCs
  <1>3. \A d \in Clients : LocksRight(d)' BY DEF LocksRight, IsNext, TypeOK
  <1> QED BY <1>1, <1>2, <1>3

\* Stopping an action changes neither its locks nor what it waits for.
LEMMA StopIInv ==
    ASSUME IInv, TypeOK', UNCHANGED <<mutexes, pc, todo, locks>> PROVE IInv'
  <1>1. \A n \in Names : MutexRight(n)'
    BY SameMutex DEF IInv, Owns, WaitsFor, IsNext
  <1>2. \A d \in Clients : LocksRight(d)' BY DEF IInv, LocksRight, IsNext
  <1> QED BY <1>1, <1>2 DEF IInv

LEMMA AbortIInv ==
    ASSUME IInv, NEW c \in Clients, Abort(c) PROVE IInv'
  <1>1. TypeOK' BY DEF IInv, Abort, TypeOK
  <1> QED BY <1>1, StopIInv DEF Abort

LEMMA RunStopHandlerIInv ==
    ASSUME IInv, NEW c \in Clients, RunStopHandler(c) PROVE IInv'
  <1>1. TypeOK' BY DEF IInv, RunStopHandler, TypeOK
  <1> QED BY <1>1, StopIInv DEF RunStopHandler

\* The callback of an action gets the lock the action owns since notify().
LEMMA RunCallbackIInv ==
    ASSUME IInv, NEW c \in Clients, RunCallback(c) PROVE IInv'
  <1>1. PICK l \in todo[c] :
            /\ IsNext(c, l)
            /\ todo' = [todo EXCEPT ![c] = @ \ {l}]
            /\ locks' = [locks EXCEPT ![c] = @ \cup {l}]
    BY DEF RunCallback
  <1>2. /\ pc[c] = "grant" /\ pc' = [pc EXCEPT ![c] = "acquire"]
        /\ UNCHANGED <<mutexes, aborted, stop, result>>
    BY DEF RunCallback
  <1>3. TypeOK' BY <1>1, <1>2 DEF IInv, TypeOK, PCs
  <1>4. \A n \in Names : MutexRight(n)'
    <2>1. ASSUME NEW d \in Clients, NEW k
          PROVE  (Owns(d, k)' <=> Owns(d, k)) /\ (WaitsFor(d, k)' <=> WaitsFor(d, k))
      <3>1. CASE d = c
        <4>1. IsNext(c, k) <=> k = l BY <1>1, OneNext DEF IInv
        <4> QED BY <1>1, <1>2, <3>1, <4>1 DEF Owns, WaitsFor, IInv, TypeOK
      <3>2. CASE d # c BY <1>1, <1>2, <3>2 DEF Owns, WaitsFor, IsNext, IInv, TypeOK
      <3> QED BY <3>1, <3>2
    <2> QED BY <1>2, <2>1, SameMutex DEF IInv
  <1>5. \A d \in Clients : LocksRight(d)'
    BY <1>1, <1>2 DEF IInv, LocksRight, IsNext, TypeOK
  <1> QED BY <1>3, <1>4, <1>5 DEF IInv

-------------------------------------------------------------------------------
(* Acquiring and releasing a lock.                                         *)

\* A mutex that changes together with its owners and callbacks.
LEMMA ChangedMutex ==
    ASSUME IInv, NEW n \in Names, NEW m, mutexes' = [mutexes EXCEPT ![n] = m],
           \A d \in Clients, k \in Lock : k.name # n =>
               (Owns(d, k)' <=> Owns(d, k)) /\ (WaitsFor(d, k)' <=> WaitsFor(d, k)),
           MutexFor(m, Owners(ExclusiveLock(n))', Owners(SharedLock(n))',
                    Waiters(ExclusiveLock(n))', Waiters(SharedLock(n))')
    PROVE  \A o \in Names : MutexRight(o)'
  <1> SUFFICES ASSUME NEW o \in Names PROVE MutexRight(o)' OBVIOUS
  <1>1. CASE o = n
    <2>1. mutexes'[o] = m BY <1>1 DEF IInv, TypeOK
    <2>2. ExclusiveLock(o)' = ExclusiveLock(o) /\ SharedLock(o)' = SharedLock(o)
      BY DEF ExclusiveLock, SharedLock
    <2> QED BY <1>1, <2>1, <2>2 DEF MutexRight
  <1>2. CASE o # n
    <2>1. mutexes'[o] = mutexes[o] BY <1>2 DEF IInv, TypeOK
    <2>2. ExclusiveLock(o).name = o /\ SharedLock(o).name = o
      BY DEF ExclusiveLock, SharedLock
    <2> QED BY <1>2, <2>1, <2>2, SameMutex, LockTypes DEF IInv
  <1> QED BY <1>1, <1>2

\* The action gets the lock at once.
LEMMA TakenIInv ==
    ASSUME IInv, NEW c \in Clients, pc[c] = "acquire", NEW l \in todo[c], IsNext(c, l),
           CanTake(l), mutexes' = [mutexes EXCEPT ![l.name] = Taken(l)],
           todo' = [todo EXCEPT ![c] = @ \ {l}], locks' = [locks EXCEPT ![c] = @ \cup {l}],
           UNCHANGED <<pc, aborted, stop, result>>
    PROVE  IInv'
  <1>1. l \in Lock /\ l.name \in Names /\ l \notin locks[c]
    BY LockCases DEF IInv, TypeOK, LocksRight
  <1>2. PICK n \in Names : n = l.name BY <1>1
  <1>3. MutexFor(mutexes[n], Owners(ExclusiveLock(n)), Owners(SharedLock(n)),
                 Waiters(ExclusiveLock(n)), Waiters(SharedLock(n)))
    BY DEF IInv, MutexRight
  <1>4. ASSUME NEW d \in Clients, NEW k
        PROVE  /\ Owns(d, k)' <=> Owns(d, k) \/ (d = c /\ k = l)
               /\ WaitsFor(d, k)' <=> WaitsFor(d, k)
    <2>1. CASE d = c BY <2>1 DEF Owns, WaitsFor, IInv, TypeOK
    <2>2. CASE d # c BY <2>2 DEF Owns, WaitsFor, IsNext, IInv, TypeOK
    <2> QED BY <2>1, <2>2
  <1>5. \A k : /\ Owners(k)' = Owners(k) \cup IF k = l THEN {c} ELSE {}
               /\ Waiters(k)' = Waiters(k)
    BY <1>4 DEF Owners, Waiters
  <1>6. c \notin Owners(l) BY <1>1 DEF Owners, Owns
  <1>7. MutexFor(Taken(l), Owners(ExclusiveLock(n))', Owners(SharedLock(n))',
                 Waiters(ExclusiveLock(n))', Waiters(SharedLock(n))')
    <2>1. ExclusiveLock(n) # SharedLock(n) BY DEF ExclusiveLock, SharedLock
    <2>2. CASE l = ExclusiveLock(n) /\ l.exclusive
      <3>1. /\ Owners(ExclusiveLock(n)) = {} /\ Owners(SharedLock(n)) = {}
            /\ MutexFor(Locked(mutexes[n]), {c}, {},
                        Waiters(ExclusiveLock(n)), Waiters(SharedLock(n)))
        BY <1>2, <1>3, <2>2, TakeExclusive DEF CanTake
      <3>2. Taken(l) = Locked(mutexes[n]) BY <1>2, <2>2 DEF Taken
      <3>3. Owners(ExclusiveLock(n))' = {c} /\ Owners(SharedLock(n))' = {}
        BY <1>5, <2>1, <2>2, <3>1
      <3> QED BY <1>5, <3>1, <3>2, <3>3
    <2>3. CASE l = SharedLock(n) /\ ~l.exclusive
      <3>1. MutexFor(LockedShared(mutexes[n]), Owners(ExclusiveLock(n)),
                     Owners(SharedLock(n)) \cup {c},
                     Waiters(ExclusiveLock(n)), Waiters(SharedLock(n)))
        BY <1>2, <1>3, <1>6, <2>3, TakeShared DEF CanTake
      <3>2. Taken(l) = LockedShared(mutexes[n]) BY <1>2, <2>3 DEF Taken
      <3>3. /\ Owners(SharedLock(n))' = Owners(SharedLock(n)) \cup {c}
            /\ Owners(ExclusiveLock(n))' = Owners(ExclusiveLock(n))
        BY <1>5, <2>1, <2>3
      <3> QED BY <1>5, <3>1, <3>2, <3>3
    <2> QED BY <1>1, <1>2, <2>2, <2>3, LockCases
  <1>8. \A o \in Names : MutexRight(o)'
    <2>1. \A d \in Clients, k \in Lock : k.name # n =>
              (Owns(d, k)' <=> Owns(d, k)) /\ (WaitsFor(d, k)' <=> WaitsFor(d, k))
      BY <1>2, <1>4
    <2> QED BY <1>2, <1>7, <2>1, ChangedMutex
  <1>9. TypeOK'
    <2>1. Taken(l) \in MutexType BY <1>7 DEF MutexFor
    <2> QED BY <1>1, <2>1 DEF IInv, TypeOK
  <1>10. \A d \in Clients : LocksRight(d)'
    <2> SUFFICES ASSUME NEW d \in Clients PROVE LocksRight(d)' OBVIOUS
    <2>1. CASE d # c BY <2>1 DEF IInv, LocksRight, IsNext, TypeOK
    <2>2. CASE d = c
      <3>1. todo'[c] = todo[c] \ {l} /\ locks'[c] = locks[c] \cup {l}
        BY DEF IInv, TypeOK
      <3> QED BY <2>2, <3>1 DEF IInv, LocksRight, IsNext
    <2> QED BY <2>1, <2>2
  <1> QED BY <1>8, <1>9, <1>10 DEF IInv

\* The action's callback is stored, an exclusive one that was there is dropped.
LEMMA StoredIInv ==
    ASSUME IInv, NEW c \in Clients, pc[c] = "acquire", NEW l \in todo[c], IsNext(c, l),
           ~CanTake(l), NEW m,
           m = IF l.exclusive THEN WithExclusiveCallback(mutexes[l.name], c)
                              ELSE WithSharedCallback(mutexes[l.name], c),
           mutexes' = [mutexes EXCEPT ![l.name] = m],
           pc' = [d \in Clients |->
                     IF d = c THEN "wait"
                     ELSE IF l.exclusive /\ d = mutexes[l.name].exclusiveCallback THEN "dropped"
                     ELSE pc[d]],
           UNCHANGED <<todo, locks, aborted, stop, result>>
    PROVE  IInv'
  <1>1. l \in Lock /\ l.name \in Names BY LockCases DEF IInv, TypeOK
  <1>2. PICK n \in Names : n = l.name BY <1>1
  <1>3. MutexFor(mutexes[n], Owners(ExclusiveLock(n)), Owners(SharedLock(n)),
                 Waiters(ExclusiveLock(n)), Waiters(SharedLock(n)))
    BY DEF IInv, MutexRight
  <1> DEFINE old == mutexes[n].exclusiveCallback
             lost(d) == d # c /\ l.exclusive /\ d = old
  <1>4. \A d \in Clients :
            /\ pc'[d] = IF d = c THEN "wait" ELSE IF lost(d) THEN "dropped" ELSE pc[d]
            /\ \A k : IsNext(d, k)' <=> IsNext(d, k)
    BY <1>2 DEF IsNext
  <1>5. \A d \in Clients : d = old => d \in Waiters(ExclusiveLock(n))
    BY <1>3, ClientsAssumption DEF MutexFor
  <1>6. \A d \in Clients : lost(d) => WaitsFor(d, l)
    BY <1>1, <1>2, <1>5, LockCases DEF Waiters
  <1> HIDE DEF lost, old
  <1>7. ASSUME NEW d \in Clients, NEW k
        PROVE  /\ Owns(d, k)' <=> Owns(d, k)
               /\ WaitsFor(d, k)' <=> IF d = c THEN k = l ELSE WaitsFor(d, k) /\ ~lost(d)
    <2>1. CASE d = c
      <3>1. IsNext(c, k) <=> k = l BY OneNext DEF IInv
      <3>2. pc'[c] = "wait" BY <1>4
      <3> QED BY <1>4, <2>1, <3>1, <3>2 DEF Owns, WaitsFor
    <2>2. CASE d # c /\ lost(d)
      <3>1. pc[d] = "wait" /\ pc'[d] = "dropped" BY <1>4, <1>6, <2>2 DEF WaitsFor
      <3> QED BY <1>4, <2>2, <3>1 DEF Owns, WaitsFor
    <2>3. CASE d # c /\ ~lost(d) BY <1>4, <2>3 DEF Owns, WaitsFor
    <2> QED BY <2>1, <2>2, <2>3
  <1>8. \A d \in Clients, k \in Lock : lost(d) /\ WaitsFor(d, k) => k = l
    BY <1>6, OneNext DEF IInv, WaitsFor
  <1>9. ~WaitsFor(c, l) BY DEF WaitsFor
  <1>10. \A k : Owners(k)' = Owners(k) BY <1>7 DEF Owners
  <1>11. MutexFor(m, Owners(ExclusiveLock(n))', Owners(SharedLock(n))',
                  Waiters(ExclusiveLock(n))', Waiters(SharedLock(n))')
    <2>1. ExclusiveLock(n) # SharedLock(n) BY DEF ExclusiveLock, SharedLock
    <2>2. \A k : ~WaitsFor(c, k) BY DEF WaitsFor
    <2>3. CASE l = ExclusiveLock(n) /\ l.exclusive
      <3>1. Waiters(ExclusiveLock(n)) = {old} \ {None} BY <1>3 DEF MutexFor, old
      <3>2. Waiters(ExclusiveLock(n))' = {c}
        BY <1>7, <2>3, <3>1 DEF Waiters, lost
      <3>3. Waiters(SharedLock(n))' = Waiters(SharedLock(n))
        BY <1>7, <1>8, <2>1, <2>2, <2>3, LockTypes DEF Waiters
      <3>4. MutexFor(WithExclusiveCallback(mutexes[n], c), Owners(ExclusiveLock(n)),
                     Owners(SharedLock(n)), {c}, Waiters(SharedLock(n)))
        BY <1>2, <1>3, <2>3, StoreExclusive DEF CanTake
      <3> QED BY <1>2, <1>10, <2>3, <3>2, <3>3, <3>4
    <2>4. CASE l = SharedLock(n) /\ ~l.exclusive
      <3>1. Waiters(SharedLock(n))' = Waiters(SharedLock(n)) \cup {c}
        BY <1>7, <2>4 DEF Waiters, lost
      <3>2. Waiters(ExclusiveLock(n))' = Waiters(ExclusiveLock(n))
        BY <1>7, <2>1, <2>2, <2>4 DEF Waiters, lost
      <3>3. MutexFor(WithSharedCallback(mutexes[n], c), Owners(ExclusiveLock(n)),
                     Owners(SharedLock(n)), Waiters(ExclusiveLock(n)),
                     Waiters(SharedLock(n)) \cup {c})
        BY <1>2, <1>3, <2>4, StoreShared DEF CanTake
      <3> QED BY <1>2, <1>10, <2>4, <3>1, <3>2, <3>3
    <2> QED BY <1>1, <1>2, <2>3, <2>4, LockCases
  <1>12. \A o \in Names : MutexRight(o)'
    <2>1. \A d \in Clients, k \in Lock : k.name # n =>
              (Owns(d, k)' <=> Owns(d, k)) /\ (WaitsFor(d, k)' <=> WaitsFor(d, k))
      <3>1. \A k : ~WaitsFor(c, k) BY DEF WaitsFor
      <3> QED BY <1>2, <1>7, <1>8, <3>1
    <2> QED BY <1>2, <1>11, <2>1, ChangedMutex
  <1>13. TypeOK'
    <2>1. m \in MutexType BY <1>11 DEF MutexFor
    <2>2. pc' \in [Clients -> PCs] BY DEF IInv, TypeOK, PCs
    <2> QED BY <1>1, <2>1, <2>2 DEF IInv, TypeOK
  <1>14. \A d \in Clients : LocksRight(d)'
    <2> SUFFICES ASSUME NEW d \in Clients PROVE LocksRight(d)' OBVIOUS
    <2>1. CASE d = c
      <3>1. pc'[c] = "wait" BY <1>4
      <3> QED BY <1>4, <2>1, <3>1 DEF IInv, LocksRight
    <2>2. CASE d # c /\ lost(d)
      <3>1. pc[d] = "wait" /\ pc'[d] = "dropped" BY <1>4, <1>6, <2>2 DEF WaitsFor
      <3> QED BY <1>4, <2>2, <3>1 DEF IInv, LocksRight
    <2>3. CASE d # c /\ ~lost(d) BY <1>4, <2>3 DEF IInv, LocksRight
    <2> QED BY <2>1, <2>2, <2>3
  <1> QED BY <1>12, <1>13, <1>14 DEF IInv

LEMMA AcquireIInv ==
    ASSUME IInv, NEW c \in Clients, Acquire(c) PROVE IInv'
  <1>1. PICK l \in todo[c] :
            /\ IsNext(c, l)
            /\ \/ /\ CanTake(l)
                  /\ mutexes' = [mutexes EXCEPT ![l.name] = Taken(l)]
                  /\ todo' = [todo EXCEPT ![c] = @ \ {l}]
                  /\ locks' = [locks EXCEPT ![c] = @ \cup {l}]
                  /\ UNCHANGED pc
               \/ /\ ~CanTake(l) /\ l.exclusive
                  /\ mutexes' = [mutexes EXCEPT ![l.name] = WithExclusiveCallback(@, c)]
                  /\ pc' = [d \in Clients |->
                               IF d = c THEN "wait"
                               ELSE IF d = mutexes[l.name].exclusiveCallback THEN "dropped"
                               ELSE pc[d]]
                  /\ UNCHANGED <<todo, locks>>
               \/ /\ ~CanTake(l) /\ ~l.exclusive
                  /\ mutexes' = [mutexes EXCEPT ![l.name] = WithSharedCallback(@, c)]
                  /\ pc' = [pc EXCEPT ![c] = "wait"]
                  /\ UNCHANGED <<todo, locks>>
    BY DEF Acquire
  <1>2. pc[c] = "acquire" /\ UNCHANGED <<aborted, stop, result>> BY DEF Acquire
  <1>3. CASE CanTake(l) BY <1>1, <1>2, <1>3, TakenIInv
  <1>4. CASE ~CanTake(l)
    <2> DEFINE m == IF l.exclusive THEN WithExclusiveCallback(mutexes[l.name], c)
                                   ELSE WithSharedCallback(mutexes[l.name], c)
    <2>1. mutexes' = [mutexes EXCEPT ![l.name] = m]
      <3>1. CASE l.exclusive BY <1>1, <1>4, <3>1
      <3>2. CASE ~l.exclusive BY <1>1, <1>4, <3>2
      <3> QED BY <3>1, <3>2
    <2>2. pc' = [d \in Clients |->
                    IF d = c THEN "wait"
                    ELSE IF l.exclusive /\ d = mutexes[l.name].exclusiveCallback THEN "dropped"
                    ELSE pc[d]]
      <3>1. CASE l.exclusive BY <1>1, <1>4, <3>1
      <3>2. CASE ~l.exclusive
        <4>1. pc' = [pc EXCEPT ![c] = "wait"] BY <1>1, <1>4, <3>2
        <4> QED BY <3>2, <4>1 DEF IInv, TypeOK
      <3> QED BY <3>1, <3>2
    <2>3. UNCHANGED <<todo, locks>> BY <1>1, <1>4
    <2> HIDE DEF m
    <2> QED BY <1>1, <1>2, <1>4, <2>1, <2>2, <2>3, StoredIInv DEF m
  <1> QED BY <1>3, <1>4

LEMMA ReleaseIInv ==
    ASSUME IInv, NEW c \in Clients, NEW l \in Lock, Release(c, l) PROVE IInv'
  <1> DEFINE u == Released(l)
             next == IF u.sharedOwners = 0 THEN Notified(u) ELSE u
             invoked == IF u.sharedOwners = 0 THEN InvokedShared(u) \cup InvokedExclusive(u) ELSE {}
  <1>1. /\ pc[c] = "release" /\ l \in locks[c]
        /\ locks' = [locks EXCEPT ![c] = @ \ {l}]
        /\ mutexes' = [mutexes EXCEPT ![l.name] = next]
        /\ UNCHANGED <<todo, aborted, stop, result>>
    BY DEF Release
  <1>2. \A d \in Clients : pc'[d] = IF d \in invoked THEN "grant" ELSE pc[d]
    BY DEF Release, IInv, TypeOK
  <1>3. DOMAIN pc' = Clients /\ pc' = [d \in Clients |-> pc'[d]]
    BY DEF Release, IInv, TypeOK
  <1>4. PICK n \in Names : n = l.name BY LockCases
  <1>5. MutexFor(mutexes[n], Owners(ExclusiveLock(n)), Owners(SharedLock(n)),
                 Waiters(ExclusiveLock(n)), Waiters(SharedLock(n)))
    BY DEF IInv, MutexRight
  <1>6. c \in Owners(l) BY <1>1 DEF Owners, Owns
  <1> DEFINE X == IF u.sharedOwners = 0 THEN InvokedExclusive(u) ELSE {}
             S == IF u.sharedOwners = 0 THEN InvokedShared(u) ELSE {}
  <1>7. /\ X \subseteq Waiters(ExclusiveLock(n)) /\ S \subseteq Waiters(SharedLock(n))
        /\ invoked = X \cup S
        /\ MutexFor(next,
                    (Owners(ExclusiveLock(n)) \ IF l.exclusive THEN {c} ELSE {}) \cup X,
                    (Owners(SharedLock(n)) \ IF l.exclusive THEN {} ELSE {c}) \cup S,
                    Waiters(ExclusiveLock(n)) \ X, Waiters(SharedLock(n)) \ S)
    <2>1. CASE l = ExclusiveLock(n) /\ l.exclusive
      <3>1. u = Unlocked(mutexes[n]) BY <1>4, <2>1 DEF Released
      <3>2. Owners(ExclusiveLock(n)) = {c} /\ Owners(SharedLock(n)) = {}
        BY <1>5, <1>6, <2>1 DEF MutexFor
      <3>3. /\ u.sharedOwners = 0
            /\ InvokedShared(u) = Waiters(SharedLock(n))
            /\ InvokedExclusive(u) = IF Waiters(SharedLock(n)) = {}
                                     THEN Waiters(ExclusiveLock(n)) ELSE {}
            /\ MutexFor(Notified(u), InvokedExclusive(u), Waiters(SharedLock(n)),
                        Waiters(ExclusiveLock(n)) \ InvokedExclusive(u), {})
        <4>1. IsFiniteSet(Waiters(SharedLock(n))) BY FiniteWaiters
        <4>2. c \in Owners(ExclusiveLock(n)) BY <3>2
        <4> HIDE DEF u
        <4> QED BY <1>5, <3>1, <4>1, <4>2, LeaveExclusive
      <3>4. X = InvokedExclusive(u) /\ S = Waiters(SharedLock(n)) /\ next = Notified(u)
        BY <3>3
      <3>5. /\ (Owners(ExclusiveLock(n)) \ IF l.exclusive THEN {c} ELSE {}) \cup X = X
            /\ (Owners(SharedLock(n)) \ IF l.exclusive THEN {} ELSE {c}) \cup S = S
            /\ Waiters(SharedLock(n)) \ S = {}
        BY <2>1, <3>2, <3>4
      <3>6. X \subseteq Waiters(ExclusiveLock(n)) /\ invoked = X \cup S BY <3>3, <3>4
      <3> HIDE DEF u, X, S, next, invoked
      <3> QED BY <3>3, <3>4, <3>5, <3>6
    <2>2. CASE l = SharedLock(n) /\ ~l.exclusive
      <3>1. u = UnlockedShared(mutexes[n]) BY <1>4, <2>2 DEF Released
      <3>2. c \in Owners(SharedLock(n)) BY <1>6, <2>2
      <3>3. Owners(ExclusiveLock(n)) = {} BY <1>5, <3>2 DEF MutexFor
      <3>4. /\ u.sharedOwners # 0 =>
                 MutexFor(u, Owners(ExclusiveLock(n)), Owners(SharedLock(n)) \ {c},
                          Waiters(ExclusiveLock(n)), Waiters(SharedLock(n)))
            /\ u.sharedOwners = 0 =>
                 /\ Owners(SharedLock(n)) = {c} /\ Waiters(SharedLock(n)) = {}
                 /\ InvokedShared(u) = {}
                 /\ InvokedExclusive(u) = Waiters(ExclusiveLock(n))
                 /\ MutexFor(Notified(u), Waiters(ExclusiveLock(n)), {}, {}, {})
        <4> HIDE DEF u
        <4> QED BY <1>5, <3>1, <3>2, LeaveShared
      <3>5. CASE u.sharedOwners = 0
        <4>1. X = Waiters(ExclusiveLock(n)) /\ S = {} /\ next = Notified(u) /\ invoked = X \cup S
          BY <3>4, <3>5
        <4>2. /\ (Owners(ExclusiveLock(n)) \ IF l.exclusive THEN {c} ELSE {}) \cup X =
                    Waiters(ExclusiveLock(n))
              /\ (Owners(SharedLock(n)) \ IF l.exclusive THEN {} ELSE {c}) \cup S = {}
              /\ Waiters(SharedLock(n)) \ S = {} /\ Waiters(ExclusiveLock(n)) \ X = {}
          BY <2>2, <3>3, <3>4, <3>5, <4>1
        <4> HIDE DEF u, X, S, next, invoked
        <4> QED BY <3>4, <3>5, <4>1, <4>2
      <3>6. CASE u.sharedOwners # 0
        <4>1. X = {} /\ S = {} /\ next = u /\ invoked = {} BY <3>6
        <4>2. /\ (Owners(ExclusiveLock(n)) \ IF l.exclusive THEN {c} ELSE {}) \cup X =
                    Owners(ExclusiveLock(n))
              /\ (Owners(SharedLock(n)) \ IF l.exclusive THEN {} ELSE {c}) \cup S =
                    Owners(SharedLock(n)) \ {c}
              /\ Waiters(SharedLock(n)) \ S = Waiters(SharedLock(n))
              /\ Waiters(ExclusiveLock(n)) \ X = Waiters(ExclusiveLock(n))
          BY <2>2, <4>1
        <4> HIDE DEF u, X, S, next, invoked
        <4> QED BY <3>4, <3>6, <4>1, <4>2
      <3> QED BY <3>5, <3>6
    <2> QED BY <1>4, <2>1, <2>2, LockCases
  <1> HIDE DEF u, next, invoked, X, S
  <1>8. \A d \in invoked :
            /\ d \in Clients /\ pc[d] = "wait" /\ d # c
            /\ \/ d \in X /\ IsNext(d, ExclusiveLock(n))
               \/ d \in S /\ IsNext(d, SharedLock(n))
    BY <1>1, <1>7 DEF Waiters, WaitsFor
  <1>9. \A d \in Clients : \A k : IsNext(d, k)' <=> IsNext(d, k) BY <1>1 DEF IsNext
  <1>10. ASSUME NEW d \in Clients, NEW k
         PROVE  /\ Owns(d, k)' <=> \/ Owns(d, k) /\ ~(d = c /\ k = l)
                                   \/ d \in invoked /\ IsNext(d, k)
                /\ WaitsFor(d, k)' <=> WaitsFor(d, k) /\ d \notin invoked
    <2>1. CASE d = c
      <3>1. c \notin invoked /\ pc'[c] = "release" BY <1>1, <1>2, <1>8
      <3>2. locks'[c] = locks[c] \ {l} BY <1>1 DEF IInv, TypeOK
      <3> QED BY <1>1, <2>1, <3>1, <3>2 DEF Owns, WaitsFor
    <2>2. CASE d # c /\ d \in invoked
      <3>1. pc[d] = "wait" /\ pc'[d] = "grant" /\ locks'[d] = locks[d]
        BY <1>1, <1>2, <1>8, <2>2 DEF IInv, TypeOK
      <3> QED BY <1>9, <2>2, <3>1 DEF Owns, WaitsFor
    <2>3. CASE d # c /\ d \notin invoked
      <3>1. pc'[d] = pc[d] /\ locks'[d] = locks[d] BY <1>1, <1>2, <2>3 DEF IInv, TypeOK
      <3> QED BY <1>9, <2>3, <3>1 DEF Owns, WaitsFor
    <2> QED BY <2>1, <2>2, <2>3
  <1>11. ASSUME NEW d \in invoked, NEW k
         PROVE  IsNext(d, k) <=> \/ d \in X /\ k = ExclusiveLock(n)
                                 \/ d \in S /\ k = SharedLock(n)
    <2>1. d \in X => IsNext(d, ExclusiveLock(n)) BY <1>7 DEF Waiters, WaitsFor
    <2>2. d \in S => IsNext(d, SharedLock(n)) BY <1>7 DEF Waiters, WaitsFor
    <2> QED BY <1>8, <2>1, <2>2, OneNext DEF IInv
  <1>12. MutexFor(next, Owners(ExclusiveLock(n))', Owners(SharedLock(n))',
                  Waiters(ExclusiveLock(n))', Waiters(SharedLock(n))')
    <2>1. ExclusiveLock(n) # SharedLock(n) BY DEF ExclusiveLock, SharedLock
    <2>2. \A d \in X \cup S : d \in invoked /\ d \in Clients BY <1>7, <1>8
    <2>3. \/ l = ExclusiveLock(n) /\ l.exclusive
          \/ l = SharedLock(n) /\ ~l.exclusive
      BY <1>4, LockCases
    <2>4. Owners(ExclusiveLock(n))' =
              (Owners(ExclusiveLock(n)) \ IF l.exclusive THEN {c} ELSE {}) \cup X
      BY <1>10, <1>11, <2>1, <2>2, <2>3 DEF Owners
    <2>5. Owners(SharedLock(n))' =
              (Owners(SharedLock(n)) \ IF l.exclusive THEN {} ELSE {c}) \cup S
      BY <1>10, <1>11, <2>1, <2>2, <2>3 DEF Owners
    <2>6. Waiters(ExclusiveLock(n))' = Waiters(ExclusiveLock(n)) \ X
      BY <1>7, <1>10, <1>11, <2>1, <2>2 DEF Waiters, WaitsFor
    <2>7. Waiters(SharedLock(n))' = Waiters(SharedLock(n)) \ S
      BY <1>7, <1>10, <1>11, <2>1, <2>2 DEF Waiters, WaitsFor
    <2> QED BY <1>7, <2>4, <2>5, <2>6, <2>7
  <1>13. \A o \in Names : MutexRight(o)'
    <2>1. ASSUME NEW d \in Clients, NEW k \in Lock, k.name # n
          PROVE  (Owns(d, k)' <=> Owns(d, k)) /\ (WaitsFor(d, k)' <=> WaitsFor(d, k))
      <3>1. k # ExclusiveLock(n) /\ k # SharedLock(n) /\ k # l
        BY <1>4, <2>1 DEF ExclusiveLock, SharedLock
      <3>2. d \in invoked => ~IsNext(d, k) BY <1>11, <3>1
      <3>3. d \in invoked => ~WaitsFor(d, k) BY <3>2 DEF WaitsFor
      <3> QED BY <1>10, <3>1, <3>2, <3>3
    <2> QED BY <1>1, <1>4, <1>12, <2>1, ChangedMutex
  <1>14. TypeOK'
    <2>1. next \in MutexType BY <1>12 DEF MutexFor
    <2>2. pc' \in [Clients -> PCs]
      <3>1. \A d \in Clients : pc'[d] \in PCs BY <1>2 DEF IInv, TypeOK, PCs
      <3> QED BY <1>3, <3>1
    <2> QED BY <1>1, <1>4, <2>1, <2>2 DEF IInv, TypeOK
  <1>15. \A d \in Clients : LocksRight(d)'
    <2> SUFFICES ASSUME NEW d \in Clients PROVE LocksRight(d)' OBVIOUS
    <2>1. CASE d = c
      <3>1. pc'[c] = "release" /\ locks'[c] = locks[c] \ {l}
        BY <1>1, <1>2, <1>8 DEF IInv, TypeOK
      <3> QED BY <1>1, <2>1, <3>1 DEF IInv, LocksRight
    <2>2. CASE d # c /\ d \in invoked
      <3>1. pc[d] = "wait" /\ pc'[d] = "grant" /\ locks'[d] = locks[d] /\ todo'[d] = todo[d]
        BY <1>1, <1>2, <1>8, <2>2 DEF IInv, TypeOK
      <3> QED BY <1>9, <3>1 DEF IInv, LocksRight
    <2>3. CASE d # c /\ d \notin invoked
      <3>1. pc'[d] = pc[d] /\ locks'[d] = locks[d] /\ todo'[d] = todo[d]
        BY <1>1, <1>2, <2>3 DEF IInv, TypeOK
      <3> QED BY <1>9, <3>1 DEF IInv, LocksRight
    <2> QED BY <2>1, <2>2, <2>3
  <1> QED BY <1>13, <1>14, <1>15 DEF IInv

-------------------------------------------------------------------------------

LEMMA NextIInv == IInv /\ [Next]_vars => IInv'
  <1> SUFFICES ASSUME IInv, [Next]_vars PROVE IInv' OBVIOUS
  <1>1. ASSUME NEW c \in Clients,
               \/ Run(c) \/ Acquire(c) \/ RunCallback(c) \/ Launch(c) \/ Exit(c)
               \/ (\E l \in Lock : Release(c, l))
               \/ PostHandler(c) \/ RunHandler(c) \/ Abort(c) \/ RunStopHandler(c)
        PROVE  IInv'
    BY <1>1, RunIInv, AcquireIInv, RunCallbackIInv, LaunchIInv, ExitIInv, ReleaseIInv,
       PostHandlerIInv, RunHandlerIInv, AbortIInv, RunStopHandlerIInv
  <1>2. CASE UNCHANGED vars
    <2>1. TypeOK' BY <1>2 DEF IInv, TypeOK, vars
    <2> QED BY <1>2, <2>1, StopIInv DEF vars
  <1> QED BY <1>1, <1>2 DEF Next

\* Whatever the settings, a command runs only while it owns its locks, so two
\* that conflict never run at the same time (customcommand.cpp, run()).
THEOREM Exclusion == Spec => [](TypeOK /\ ConflictingNeverTogether)
  <1>1. Spec => []IInv BY InitIInv, NextIInv, PTL DEF Spec
  <1> QED BY <1>1, Separated, PTL

\* If every action takes shared only names that come before those it takes
\* exclusively, no actions ever wait for each other in a circle, for any number
\* of actions and locks (customcommand.cpp, the order of m_sharedLocks and
\* m_exclusiveLocks).
THEOREM AlwaysConsistent == ASSUME OrderedSettings PROVE Spec => []Consistent
  <1>1. Spec => []IInv BY InitIInv, NextIInv, PTL DEF Spec
  <1>2. IInv => Consistent BY Separated, NoCircle DEF Consistent
  <1> QED BY <1>1, <1>2, PTL

===============================================================================

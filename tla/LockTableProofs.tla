---------------------------- MODULE LockTableProofs ----------------------------
(***************************************************************************)
(* Proofs about LockTable for every finite set of clients, any locks they  *)
(* use, any numbers of threads, requests and reloads.                      *)
(***************************************************************************)
EXTENDS LockTable, FiniteSetTheorems, TLAPS

-----------------------------------------------------------------------------
(* What the operations of GlobalSharedMutex do to a mutex, in terms of who *)
(* owns it and whose callbacks it stores.                                  *)

\* What a mutex m looks like when X owns it exclusively, S owns it shared, and
\* the callbacks of AX (at most one) and AS are stored in it.
MutexFor(m, X, S, AX, AS) ==
    /\ m \in MutexType
    /\ m.exclusivelyOwned <=> X # {}
    /\ X # {} => S = {} /\ \E x : X = {x}
    /\ IsFiniteSet(S) /\ m.sharedOwners = Cardinality(S)
    /\ m.sharedCallbacks = AS
    /\ AX = {m.exclusiveCallback} \ {None}
    /\ AS # {} => X # {}
    /\ AX # {} => X # {} \/ S # {}

LEMMA TakeExclusive ==
    ASSUME NEW m, NEW X, NEW S, NEW AX, NEW AS, MutexFor(m, X, S, AX, AS),
           CanLock(m), NEW x
    PROVE  X = {} /\ S = {} /\ MutexFor(Locked(m), {x}, {}, AX, AS)
  <1>1. X = {} BY DEF MutexFor, CanLock
  <1>2. S = {} BY FS_EmptySet DEF MutexFor, CanLock
  <1> QED BY <1>1, <1>2 DEF MutexFor, Locked, MutexType

LEMMA TakeShared ==
    ASSUME NEW m, NEW X, NEW S, NEW AX, NEW AS, MutexFor(m, X, S, AX, AS),
           CanLockShared(m), NEW c, c \notin S
    PROVE  MutexFor(LockedShared(m), X, S \cup {c}, AX, AS)
  <1>1. X = {} BY DEF MutexFor, CanLockShared
  <1>2. IsFiniteSet(S \cup {c}) /\ Cardinality(S \cup {c}) = Cardinality(S) + 1
    BY FS_AddElement DEF MutexFor
  <1> QED BY <1>1, <1>2 DEF MutexFor, LockedShared, MutexType

LEMMA StoreExclusive ==
    ASSUME NEW m, NEW X, NEW S, NEW AX, NEW AS, MutexFor(m, X, S, AX, AS),
           ~CanLock(m), NEW c \in Clients
    PROVE  MutexFor(WithExclusiveCallback(m, c), X, S, {c}, AS)
  <1>1. X # {} \/ S # {} BY FS_EmptySet DEF MutexFor, CanLock
  <1> QED BY <1>1, ClientsAssumption DEF MutexFor, WithExclusiveCallback, MutexType

LEMMA StoreShared ==
    ASSUME NEW m, NEW X, NEW S, NEW AX, NEW AS, MutexFor(m, X, S, AX, AS),
           ~CanLockShared(m), NEW c \in Clients
    PROVE  MutexFor(WithSharedCallback(m, c), X, S, AX, AS \cup {c})
  BY DEF MutexFor, WithSharedCallback, MutexType, CanLockShared

\* The exclusive owner leaves: all shared callbacks or else the exclusive one get
\* the mutex.
LEMMA LeaveExclusive ==
    ASSUME NEW m, NEW X, NEW S, NEW AX, NEW AS, MutexFor(m, X, S, AX, AS),
           NEW x \in X, IsFiniteSet(AS)
    PROVE  LET u == Unlocked(m)
           IN  /\ u.sharedOwners = 0
               /\ InvokedShared(u) = AS
               /\ InvokedExclusive(u) = IF AS = {} THEN AX ELSE {}
               /\ MutexFor(Notified(u), InvokedExclusive(u), AS, AX \ InvokedExclusive(u), {})
  <1> DEFINE u == Unlocked(m)
  <1>1. S = {} /\ m.sharedOwners = 0 BY FS_EmptySet DEF MutexFor
  <1>2. u = [m EXCEPT !.exclusivelyOwned = FALSE] BY DEF Unlocked
  <1>3. m \in MutexType BY DEF MutexFor
  <1>4. u.sharedOwners = 0 BY <1>1, <1>2, <1>3 DEF MutexType
  <1>5. InvokedShared(u) = AS BY <1>2, <1>3 DEF InvokedShared, MutexFor, MutexType
  <1>6. InvokedExclusive(u) = IF AS = {} THEN AX ELSE {}
    BY <1>2, <1>3, <1>4, <1>5 DEF InvokedExclusive, MutexFor, MutexType, CanLock
  <1>7. MutexFor(Notified(u), InvokedExclusive(u), AS, AX \ InvokedExclusive(u), {})
    <2>1. CASE AS # {}
      <3>1. Notified(u) = [u EXCEPT !.sharedOwners = @ + Cardinality(AS), !.sharedCallbacks = {}]
        BY <1>5, <2>1 DEF Notified
      <3>2. Cardinality(AS) \in Nat BY FS_CardinalityType
      <3>3. /\ Notified(u) \in MutexType
            /\ Notified(u).sharedOwners = Cardinality(AS)
            /\ ~Notified(u).exclusivelyOwned
            /\ Notified(u).sharedCallbacks = {}
            /\ Notified(u).exclusiveCallback = m.exclusiveCallback
        <4>1. Notified(u) = [sharedOwners |-> Cardinality(AS), exclusivelyOwned |-> FALSE,
                             sharedCallbacks |-> {}, exclusiveCallback |-> m.exclusiveCallback]
          <5>1. u = [sharedOwners |-> 0, exclusivelyOwned |-> FALSE,
                     sharedCallbacks |-> m.sharedCallbacks,
                     exclusiveCallback |-> m.exclusiveCallback]
            BY <1>1, <1>2, <1>3 DEF MutexType
          <5> HIDE DEF u
          <5>2. u.sharedOwners + Cardinality(AS) = Cardinality(AS) BY <3>2, <5>1
          <5> QED BY <3>1, <5>1, <5>2
        <4>2. m.exclusiveCallback \in Clients \cup {None} BY <1>3 DEF MutexType
        <4> QED BY <3>2, <4>1, <4>2 DEF MutexType
      <3>4. InvokedExclusive(u) = {} /\ AX = {m.exclusiveCallback} \ {None}
        BY <1>6, <2>1 DEF MutexFor
      <3> HIDE DEF u
      <3> QED BY <2>1, <3>3, <3>4 DEF MutexFor
    <2>2. CASE AS = {} /\ AX # {}
      <3>1. Notified(u) = [u EXCEPT !.exclusivelyOwned = TRUE, !.exclusiveCallback = None]
        BY <1>5, <1>6, <2>2 DEF Notified
      <3>2. /\ Notified(u) \in MutexType
            /\ Notified(u).sharedOwners = 0
            /\ Notified(u).exclusivelyOwned
            /\ Notified(u).sharedCallbacks = {}
            /\ Notified(u).exclusiveCallback = None
        BY <1>2, <1>3, <1>4, <1>5, <2>2, <3>1 DEF MutexType, MutexFor
      <3>3. InvokedExclusive(u) = AX /\ AX = {m.exclusiveCallback}
        BY <1>6, <2>2 DEF MutexFor
      <3>4. AX \ InvokedExclusive(u) = {} BY <3>3
      <3> HIDE DEF u
      <3> QED BY <2>2, <3>2, <3>3, <3>4, FS_EmptySet DEF MutexFor
    <2>3. CASE AS = {} /\ AX = {}
      <3>1. Notified(u) = u BY <1>5, <1>6, <2>3 DEF Notified
      <3> QED BY <1>1, <1>2, <1>3, <1>6, <2>3, <3>1, FS_EmptySet DEF MutexFor, MutexType
    <2> QED BY <2>1, <2>2, <2>3
  <1> QED BY <1>4, <1>5, <1>6, <1>7

\* A shared owner leaves; only the last one hands over, to the exclusive callback.
LEMMA LeaveShared ==
    ASSUME NEW m, NEW X, NEW S, NEW AX, NEW AS, MutexFor(m, X, S, AX, AS),
           NEW c \in S
    PROVE  LET u == UnlockedShared(m)
           IN  /\ u.sharedOwners # 0 => MutexFor(u, X, S \ {c}, AX, AS)
               /\ u.sharedOwners = 0 =>
                     /\ S = {c} /\ AS = {} /\ InvokedShared(u) = {}
                     /\ InvokedExclusive(u) = AX
                     /\ MutexFor(Notified(u), AX, {}, {}, {})
  <1> DEFINE u == UnlockedShared(m)
  <1>1. X = {} /\ AS = {} BY DEF MutexFor
  <1>2. /\ IsFiniteSet(S \ {c}) /\ Cardinality(S \ {c}) = Cardinality(S) - 1
        /\ Cardinality(S) \in Nat
    BY FS_RemoveElement, FS_CardinalityType DEF MutexFor
  <1>3. m \in MutexType BY DEF MutexFor
  <1>4. u = [m EXCEPT !.sharedOwners = @ - 1] BY DEF UnlockedShared
  <1>5. u.sharedOwners = Cardinality(S \ {c}) /\ u.sharedOwners \in Nat
    BY <1>2, <1>3, <1>4, FS_CardinalityType DEF MutexFor, MutexType
  <1>6. ASSUME u.sharedOwners # 0 PROVE MutexFor(u, X, S \ {c}, AX, AS)
    <2>1. S \ {c} # {} BY <1>5, <1>6, FS_EmptySet
    <2> QED BY <1>1, <1>2, <1>3, <1>4, <1>5, <2>1 DEF MutexFor, MutexType
  <1>7. ASSUME u.sharedOwners = 0
        PROVE  /\ S = {c} /\ AS = {} /\ InvokedShared(u) = {}
               /\ InvokedExclusive(u) = AX
               /\ MutexFor(Notified(u), AX, {}, {}, {})
    <2>1. S \ {c} = {} BY <1>2, <1>5, <1>7, FS_EmptySet
    <2>2. InvokedShared(u) = {} BY <1>1, <1>3, <1>4 DEF InvokedShared, MutexFor, MutexType
    <2>3. InvokedExclusive(u) = AX
      BY <1>1, <1>3, <1>4, <1>7, <2>2 DEF InvokedExclusive, MutexFor, MutexType, CanLock
    <2>4. CASE AX # {}
      <3>1. Notified(u) = [u EXCEPT !.exclusivelyOwned = TRUE, !.exclusiveCallback = None]
        BY <2>2, <2>3, <2>4 DEF Notified
      <3>2. /\ Notified(u) \in MutexType
            /\ Notified(u).sharedOwners = 0
            /\ Notified(u).exclusivelyOwned
            /\ Notified(u).sharedCallbacks = {}
            /\ Notified(u).exclusiveCallback = None
        <4>1. Notified(u) = [sharedOwners |-> 0, exclusivelyOwned |-> TRUE,
                             sharedCallbacks |-> {}, exclusiveCallback |-> None]
          BY <1>1, <1>3, <1>4, <1>7, <3>1 DEF MutexType, MutexFor
        <4> QED BY <4>1 DEF MutexType
      <3>3. AX = {m.exclusiveCallback} BY <2>4 DEF MutexFor
      <3>4. MutexFor(Notified(u), AX, {}, {}, {})
        <4> HIDE DEF u
        <4> QED BY <3>2, <3>3, FS_EmptySet DEF MutexFor
      <3> QED BY <1>1, <2>1, <2>2, <2>3, <3>4
    <2>5. CASE AX = {}
      <3>1. Notified(u) = u BY <2>2, <2>3, <2>5 DEF Notified
      <3> QED BY <1>1, <1>3, <1>4, <1>7, <2>1, <2>2, <2>3, <2>5, <3>1, FS_EmptySet
          DEF MutexFor, MutexType
    <2> QED BY <2>4, <2>5
  <1> QED BY <1>6, <1>7

-----------------------------------------------------------------------------
(* The inductive invariant *)

\* The owners of a lock and the owners of callbacks; None stands for clear().
Clearer(n) == IF clearer.at = "locked" /\ clearer.name = n THEN {None} ELSE {}
OwningWriters(n) == {c \in Users(n) \cap Writers : Owning(c)} \cup Clearer(n)
OwningReaders(n) == {c \in Users(n) \ Writers : Owning(c)}
AsyncWriters(n) == {c \in Users(n) \cap Writers : pc[c] = "async"}
AsyncReaders(n) == {c \in Users(n) \ Writers : pc[c] = "async"}

MutexRight(n) ==
    MutexFor(mutexes[n], OwningWriters(n), OwningReaders(n), AsyncWriters(n), AsyncReaders(n))

\* While clear() walks through the table nobody is inside, and nobody cares for
\* the mutex it has locked and is about to erase.
ClearerRight ==
    /\ clearer.at \in {"visit", "locked", "unlocked"} => CleanupReaders = {}
    /\ clearer.at \in {"locked", "unlocked"} => clearer.name \in Names
    /\ clearer.at \in {"locked", "unlocked"} =>
          \A c \in Users(clearer.name) : pc[c] \in {"idle", "config", "notify", "dropped"}

\* NamedExclusion alone is not inductive: a mutex lets in whom its fields allow,
\* so these have to match the owners, and erasing a mutex loses nothing only if
\* nobody has a callback in it.
IInv == TypeOK /\ (\A n \in Names : MutexRight(n)) /\ ClearerRight

-------------------------------------------------------------------------------
(* Invariants follow from the inductive one, which holds initially.        *)

LEMMA FiniteAsync == ASSUME NEW n PROVE IsFiniteSet(AsyncReaders(n))
  <1>1. AsyncReaders(n) \subseteq Clients BY DEF AsyncReaders, Users
  <1> QED BY <1>1, FS_Subset, ClientsAssumption

LEMMA Implied == IInv => Consistent
  <1> SUFFICES ASSUME IInv PROVE Consistent OBVIOUS
  <1>1. ASSUME NEW c \in Clients, NEW d \in Clients, c # d, NameOf[c] = NameOf[d],
               Owning(c), Owning(d), c \in Writers
        PROVE  FALSE
    <2> DEFINE n == NameOf[c]
    <2>1. n \in Names /\ c \in Users(n) /\ d \in Users(n) BY <1>1, TableAssumption DEF Users
    <2>2. c \in OwningWriters(n) BY <1>1, <2>1 DEF OwningWriters
    <2>3. PICK x : OwningWriters(n) = {x} /\ OwningReaders(n) = {}
      BY <2>1, <2>2 DEF IInv, MutexRight, MutexFor
    <2>4. CASE d \in Writers BY <1>1, <2>1, <2>2, <2>3, <2>4 DEF OwningWriters
    <2>5. CASE d \notin Writers BY <1>1, <2>1, <2>3, <2>5 DEF OwningReaders
    <2> QED BY <2>4, <2>5
  <1>2. NamedExclusion BY <1>1 DEF NamedExclusion
  <1> QED BY <1>2 DEF IInv, Consistent

LEMMA InitIInv == Init => IInv
  <1> SUFFICES ASSUME Init PROVE IInv OBVIOUS
  <1>1. TypeOK
    BY TableAssumption DEF Init, TypeOK, NewMutex, MutexType, PCs, NotClearing
  <1>2. ASSUME NEW n \in Names PROVE MutexRight(n)
    <2>1. mutexes[n] = NewMutex BY DEF Init
    <2>2. /\ OwningWriters(n) = {} /\ OwningReaders(n) = {}
          /\ AsyncWriters(n) = {} /\ AsyncReaders(n) = {}
      BY DEF Init, OwningWriters, OwningReaders, AsyncWriters, AsyncReaders, Owning, Users,
             Clearer, NotClearing
    <2> QED BY <2>1, <2>2, FS_EmptySet DEF MutexRight, MutexFor, NewMutex, MutexType
  <1>3. ClearerRight BY DEF Init, ClearerRight, NotClearing
  <1> QED BY <1>1, <1>2, <1>3 DEF IInv

-------------------------------------------------------------------------------
(* Steps of clients.                                                       *)

\* A mutex whose owners and callbacks stay the same.
LEMMA SameMutex ==
    ASSUME NEW n \in Names, MutexRight(n), mutexes'[n] = mutexes[n], Clearer(n)' = Clearer(n),
           \A c \in Users(n) : /\ Owning(c)' <=> Owning(c)
                               /\ pc'[c] = "async" <=> pc[c] = "async"
    PROVE  MutexRight(n)'
  <1>1. /\ OwningWriters(n)' = OwningWriters(n) /\ OwningReaders(n)' = OwningReaders(n)
        /\ AsyncWriters(n)' = AsyncWriters(n) /\ AsyncReaders(n)' = AsyncReaders(n)
    BY DEF OwningWriters, OwningReaders, AsyncWriters, AsyncReaders, Users
  <1> QED BY <1>1 DEF MutexRight

\* Nobody is inside the table while clear() walks through it.
LEMMA NotInside ==
    ASSUME IInv, NEW c \in Clients, pc[c] \in {"entered", "wait", "woken", "inner"}
    PROVE  clearer.at \in {"idle", "config"}
  BY DEF IInv, TypeOK, ClearerRight, CleanupReaders

LEMMA LockConfigIInv ==
    ASSUME IInv, NEW c \in Clients, LockConfig(c) PROVE IInv'
  <1> USE DEF IInv, LockConfig, UnchangedClearer
  <1>1. TypeOK' BY TableAssumption DEF TypeOK, PCs
  <1>2. \A n \in Names : MutexRight(n)'
    BY SameMutex DEF Clearer, Owning, Users, TypeOK
  <1>3. ClearerRight' BY DEF ClearerRight, TypeOK
  <1> QED BY <1>1, <1>2, <1>3

LEMMA EnterTableIInv ==
    ASSUME IInv, NEW c \in Clients, EnterTable(c) PROVE IInv'
  <1> USE DEF IInv, EnterTable, UnchangedClearer
  <1>1. TypeOK'
    <2>1. NameOf[c] \in Names BY TableAssumption
    <2>2. made' \in [Clients -> 0..MaxRequests]
      <3>1. CASE c \in Blocking BY <3>1 DEF TypeOK
      <3>2. CASE c \notin Blocking
        <4>1. made[c] \in 0..MaxRequests /\ made[c] < MaxRequests BY <3>2 DEF TypeOK
        <4>2. made[c] + 1 \in 0..MaxRequests BY <4>1, TableAssumption
        <4> QED BY <3>2, <4>2 DEF TypeOK
      <3> QED BY <3>1, <3>2
    <2>3. entries' \subseteq Names /\ pc' \in [Clients -> PCs] BY <2>1 DEF TypeOK, PCs
    <2> QED BY <2>2, <2>3 DEF TypeOK
  <1>2. \A n \in Names : MutexRight(n)'
    BY SameMutex DEF Clearer, Owning, Users, TypeOK
  <1>3. ClearerRight' BY DEF ClearerRight, TypeOK
  <1> QED BY <1>1, <1>2, <1>3

LEMMA RunCallbackIInv ==
    ASSUME IInv, NEW c \in Clients, RunCallback(c) PROVE IInv'
  <1> USE DEF IInv, RunCallback, UnchangedClearer
  <1>1. TypeOK' BY DEF TypeOK, PCs
  <1>2. \A n \in Names : MutexRight(n)'
    BY SameMutex DEF Clearer, Owning, Users, TypeOK
  <1>3. ClearerRight' BY DEF ClearerRight, CleanupReaders, TypeOK, Users
  <1> QED BY <1>1, <1>2, <1>3

LEMMA NotifyOneIInv ==
    ASSUME IInv, NEW c \in Clients, NotifyOne(c) PROVE IInv'
  <1> USE DEF IInv, NotifyOne, UnchangedClearer, WaitSet
  <1>1. TypeOK' BY DEF TypeOK, PCs, Users
  <1>2. \A n \in Names : MutexRight(n)'
    BY SameMutex DEF Clearer, Owning, Users, TypeOK
  <1>3. ClearerRight' BY DEF ClearerRight, CleanupReaders, TypeOK, Users
  <1> QED BY <1>1, <1>2, <1>3

\* A mutex that changes together with its users.
LEMMA ChangedMutex ==
    ASSUME IInv, NEW n \in Names, NEW m, mutexes' = [mutexes EXCEPT ![n] = m],
           \A k \in Names \ {n} : Clearer(k)' = Clearer(k),
           \A d \in Clients : NameOf[d] # n => pc'[d] = pc[d],
           MutexFor(m, OwningWriters(n)', OwningReaders(n)', AsyncWriters(n)', AsyncReaders(n)')
    PROVE  \A k \in Names : MutexRight(k)'
  <1> SUFFICES ASSUME NEW k \in Names PROVE MutexRight(k)' OBVIOUS
  <1>1. CASE k = n
    <2>1. mutexes'[k] = m BY <1>1 DEF IInv, TypeOK
    <2> QED BY <1>1, <2>1 DEF MutexRight
  <1>2. CASE k # n
    <2>1. mutexes'[k] = mutexes[k] BY <1>2 DEF IInv, TypeOK
    <2>2. \A d \in Users(k) : pc'[d] = pc[d] BY <1>2 DEF Users
    <2> QED BY <1>2, <2>1, <2>2, SameMutex DEF IInv, Owning
  <1> QED BY <1>1, <1>2

\* Nobody owns a mutex that clear() has locked.
LEMMA ClearerAlone ==
    ASSUME IInv, NEW c \in Clients, Owning(c)
    PROVE  Clearer(NameOf[c]) = {}
  <1> DEFINE n == NameOf[c]
  <1>1. n \in Names /\ c \in Users(n) BY TableAssumption DEF Users
  <1>2. MutexFor(mutexes[n], OwningWriters(n), OwningReaders(n), AsyncWriters(n), AsyncReaders(n))
    BY <1>1 DEF IInv, MutexRight
  <1>3. SUFFICES ASSUME Clearer(n) # {} PROVE FALSE OBVIOUS
  <1>4. None \in OwningWriters(n) BY <1>3 DEF Clearer, OwningWriters
  <1>5. OwningWriters(n) = {None} /\ OwningReaders(n) = {} BY <1>2, <1>4 DEF MutexFor
  <1> QED BY <1>1, <1>5, ClientsAssumption DEF OwningWriters, OwningReaders

\* A thread or a callback becomes an owner of the mutex.
LEMMA TakenIInv ==
    ASSUME IInv, NEW c \in Clients, NEW to \in {"hold", "inner"},
           pc[c] \in {"entered", "woken"}, CanTake(c),
           mutexes' = [mutexes EXCEPT ![NameOf[c]] = Taken(c)],
           pc' = [pc EXCEPT ![c] = to],
           UNCHANGED <<entries, made>>, UnchangedClearer
    PROVE  IInv'
  <1> DEFINE n == NameOf[c]
             m == mutexes[n]
  <1> USE DEF IInv, UnchangedClearer
  <1>1. n \in Names /\ c \in Users(n) BY TableAssumption DEF Users
  <1>2. MutexFor(m, OwningWriters(n), OwningReaders(n), AsyncWriters(n), AsyncReaders(n))
    BY <1>1 DEF MutexRight
  <1>3. MutexFor(Taken(c), OwningWriters(n)', OwningReaders(n)', AsyncWriters(n)', AsyncReaders(n)')
    <2>1. AsyncWriters(n)' = AsyncWriters(n) /\ AsyncReaders(n)' = AsyncReaders(n)
      BY DEF AsyncWriters, AsyncReaders, Users, TypeOK
    <2>2. Clearer(n)' = Clearer(n) BY DEF Clearer
    <2>3. CASE c \in Writers
      <3>1. /\ OwningWriters(n) = {} /\ OwningReaders(n) = {}
            /\ MutexFor(Locked(m), {c}, {}, AsyncWriters(n), AsyncReaders(n))
        BY <1>2, <2>3, TakeExclusive DEF CanTake, MutexOf
      <3>2. OwningWriters(n)' = OwningWriters(n) \cup {c}
        BY <1>1, <2>2, <2>3 DEF OwningWriters, Owning, TypeOK, Users
      <3>3. OwningReaders(n)' = OwningReaders(n)
        BY <2>3 DEF OwningReaders, Owning, TypeOK, Users
      <3> QED BY <2>1, <2>3, <3>1, <3>2, <3>3 DEF Taken, MutexOf
    <2>4. CASE c \notin Writers
      <3>1. c \notin OwningReaders(n) BY DEF OwningReaders, Owning
      <3>2. MutexFor(LockedShared(m), OwningWriters(n), OwningReaders(n) \cup {c},
                     AsyncWriters(n), AsyncReaders(n))
        BY <1>2, <2>4, <3>1, TakeShared DEF CanTake, MutexOf
      <3>3. OwningReaders(n)' = OwningReaders(n) \cup {c}
        BY <1>1, <2>4 DEF OwningReaders, Owning, TypeOK, Users
      <3>4. OwningWriters(n)' = OwningWriters(n)
        BY <2>2, <2>4 DEF OwningWriters, Owning, TypeOK, Users
      <3> QED BY <2>1, <2>4, <3>2, <3>3, <3>4 DEF Taken, MutexOf
    <2> QED BY <2>3, <2>4
  <1>4. \A k \in Names : MutexRight(k)'
    <2>1. \A k \in Names \ {n} : Clearer(k)' = Clearer(k) BY DEF Clearer
    <2>2. \A d \in Clients : NameOf[d] # n => pc'[d] = pc[d] BY DEF TypeOK
    <2> HIDE DEF n, IInv
    <2> QED BY <1>1, <1>3, <2>1, <2>2, ChangedMutex DEF n, IInv
  <1>5. TypeOK'
    <2>1. Taken(c) \in MutexType BY <1>3 DEF MutexFor
    <2> QED BY <2>1 DEF TypeOK, PCs
  <1>6. ClearerRight'
    <2>1. clearer'.at \in {"idle", "config"} BY NotInside
    <2> QED BY <2>1 DEF ClearerRight
  <1> QED BY <1>4, <1>5, <1>6

LEMMA AcquireBlockingIInv ==
    ASSUME IInv, NEW c \in Clients, AcquireBlocking(c) PROVE IInv'
  <1>1. CASE CanTake(c)
    BY <1>1, TakenIInv DEF AcquireBlocking
  <1>2. CASE ~CanTake(c)
    <2> USE <1>2 DEF IInv, AcquireBlocking, UnchangedClearer
    <2>1. TypeOK' BY DEF TypeOK, PCs
    <2>2. \A n \in Names : MutexRight(n)'
      BY SameMutex DEF Clearer, Owning, Users, TypeOK
    <2>3. ClearerRight'
      <3>1. clearer'.at \in {"idle", "config"} BY NotInside
      <3> QED BY <3>1 DEF ClearerRight
    <2> QED BY <2>1, <2>2, <2>3
  <1> QED BY <1>1, <1>2

\* A callback is stored; an exclusive one that was there is dropped.
LEMMA StoredIInv ==
    ASSUME IInv, NEW c \in Clients, pc[c] = "entered", ~CanTake(c), NEW m,
           m = IF c \in Writers THEN WithExclusiveCallback(MutexOf(c), c)
                                ELSE WithSharedCallback(MutexOf(c), c),
           mutexes' = [mutexes EXCEPT ![NameOf[c]] = m],
           pc' = [d \in Clients |->
                     IF d = c THEN "async"
                     ELSE IF c \in Writers /\ d = MutexOf(c).exclusiveCallback THEN "dropped"
                     ELSE pc[d]],
           UNCHANGED <<entries, made>>, UnchangedClearer
    PROVE  IInv'
  <1> DEFINE n == NameOf[c]
             old == mutexes[n].exclusiveCallback
  <1> USE DEF IInv, UnchangedClearer
  <1>1. n \in Names /\ c \in Users(n) BY TableAssumption DEF Users
  <1>2. MutexFor(mutexes[n], OwningWriters(n), OwningReaders(n), AsyncWriters(n), AsyncReaders(n))
    BY <1>1 DEF MutexRight
  <1>3. AsyncWriters(n) = {old} \ {None} BY <1>2 DEF MutexFor
  <1>4. ASSUME NEW d \in Clients, d = old
        PROVE  d \in Users(n) /\ d \in Writers /\ pc[d] = "async"
    BY <1>3, <1>4, ClientsAssumption DEF AsyncWriters
  <1>5. Clearer(n)' = Clearer(n) BY DEF Clearer
  <1>6. \A d \in Clients : Owning(d)' <=> Owning(d) BY <1>4 DEF Owning, MutexOf
  <1>7. OwningWriters(n)' = OwningWriters(n) /\ OwningReaders(n)' = OwningReaders(n)
    BY <1>5, <1>6 DEF OwningWriters, OwningReaders, Users
  <1>8. MutexFor(m, OwningWriters(n)', OwningReaders(n)', AsyncWriters(n)', AsyncReaders(n)')
    <2>1. CASE c \in Writers
      <3>1. AsyncWriters(n)' = {c}
        BY <1>1, <1>3, <1>4, <2>1 DEF AsyncWriters, Users, MutexOf
      <3>2. AsyncReaders(n)' = AsyncReaders(n)
        BY <1>1, <1>4, <2>1 DEF AsyncReaders, Users, MutexOf
      <3>3. MutexFor(WithExclusiveCallback(mutexes[n], c), OwningWriters(n), OwningReaders(n),
                     {c}, AsyncReaders(n))
        BY <1>2, <2>1, StoreExclusive DEF CanTake, MutexOf
      <3> QED BY <1>7, <2>1, <3>1, <3>2, <3>3 DEF MutexOf
    <2>2. CASE c \notin Writers
      <3>1. AsyncReaders(n)' = AsyncReaders(n) \cup {c}
        BY <1>1, <2>2 DEF AsyncReaders, Users
      <3>2. AsyncWriters(n)' = AsyncWriters(n)
        BY <1>1, <2>2 DEF AsyncWriters, Users
      <3>3. MutexFor(WithSharedCallback(mutexes[n], c), OwningWriters(n), OwningReaders(n),
                     AsyncWriters(n), AsyncReaders(n) \cup {c})
        BY <1>2, <2>2, StoreShared DEF CanTake, MutexOf
      <3> QED BY <1>7, <2>2, <3>1, <3>2, <3>3 DEF MutexOf
    <2> QED BY <2>1, <2>2
  <1>9. \A k \in Names : MutexRight(k)'
    <2>1. \A k \in Names \ {n} : Clearer(k)' = Clearer(k) BY DEF Clearer
    <2>2. \A d \in Clients : NameOf[d] # n => pc'[d] = pc[d] BY <1>4 DEF MutexOf, Users
    <2> HIDE DEF n, IInv
    <2> QED BY <1>1, <1>8, <2>1, <2>2, ChangedMutex DEF n, IInv
  <1>10. TypeOK'
    <2>1. m \in MutexType BY <1>8 DEF MutexFor
    <2>2. pc' \in [Clients -> PCs] BY DEF TypeOK, PCs
    <2> QED BY <2>1, <2>2 DEF TypeOK
  <1>11. ClearerRight'
    <2>1. clearer'.at \in {"idle", "config"} BY NotInside
    <2> QED BY <2>1 DEF ClearerRight
  <1> QED BY <1>9, <1>10, <1>11

LEMMA AcquireAsyncIInv ==
    ASSUME IInv, NEW c \in Clients, AcquireAsync(c) PROVE IInv'
  <1>1. pc[c] = "entered" /\ UNCHANGED <<entries, made>> /\ UnchangedClearer
    BY DEF AcquireAsync
  <1>2. CASE CanTake(c)
    <2>1. /\ mutexes' = [mutexes EXCEPT ![NameOf[c]] = Taken(c)]
          /\ pc' = [pc EXCEPT ![c] = "inner"]
      BY <1>2 DEF AcquireAsync
    <2> QED BY <1>1, <1>2, <2>1, TakenIInv
  <1>3. CASE ~CanTake(c)
    <2> DEFINE m == IF c \in Writers THEN WithExclusiveCallback(MutexOf(c), c)
                                     ELSE WithSharedCallback(MutexOf(c), c)
    <2>1. mutexes' = [mutexes EXCEPT ![NameOf[c]] = m]
      <3>1. CASE c \in Writers BY <1>3, <3>1 DEF AcquireAsync, MutexOf
      <3>2. CASE c \notin Writers BY <1>3, <3>2 DEF AcquireAsync, MutexOf
      <3> QED BY <3>1, <3>2
    <2>2. pc' = [d \in Clients |->
                    IF d = c THEN "async"
                    ELSE IF c \in Writers /\ d = MutexOf(c).exclusiveCallback THEN "dropped"
                    ELSE pc[d]]
      <3>1. CASE c \in Writers BY <1>3, <3>1 DEF AcquireAsync
      <3>2. CASE c \notin Writers
        <4>1. pc' = [pc EXCEPT ![c] = "async"] BY <1>3, <3>2 DEF AcquireAsync
        <4> QED BY <3>2, <4>1 DEF IInv, TypeOK
      <3> QED BY <3>1, <3>2
    <2> HIDE DEF m
    <2> QED BY <1>1, <1>3, <2>1, <2>2, StoredIInv DEF m
  <1> QED BY <1>2, <1>3

-------------------------------------------------------------------------------
(* Releasing a lock.                                                       *)

\* Who owns the mutex and who has a callback after notify() was entered by c.
LEMMA HandOver ==
    ASSUME IInv, NEW n \in Names, NEW c, NEW u,
           c = None \/ (c \in Users(n) /\ pc[c] = "hold"),
           InvokedShared(u) \subseteq AsyncReaders(n),
           InvokedExclusive(u) \subseteq AsyncWriters(n),
           pc' = AfterNotify(u, c)
    PROVE  /\ pc' \in [Clients -> PCs]
           /\ \A d \in Clients : NameOf[d] # n => pc'[d] = pc[d]
           /\ CleanupReaders' = CleanupReaders
           /\ {d \in Users(n) \cap Writers : Owning(d)'} =
                 ({d \in Users(n) \cap Writers : Owning(d)} \ {c}) \cup InvokedExclusive(u)
           /\ OwningReaders(n)' = (OwningReaders(n) \ {c}) \cup InvokedShared(u)
           /\ AsyncWriters(n)' = AsyncWriters(n) \ InvokedExclusive(u)
           /\ AsyncReaders(n)' = AsyncReaders(n) \ InvokedShared(u)
  <1> DEFINE R == InvokedShared(u)
             W == InvokedExclusive(u)
  <1>1. \A d \in R : d \in Users(n) \ Writers /\ pc[d] = "async" BY DEF AsyncReaders
  <1>2. \A d \in W : d \in Users(n) \cap Writers /\ pc[d] = "async" BY DEF AsyncWriters
  <1>3. \A d \in Clients :
            /\ d \in R \cup W => pc'[d] = "grant"
            /\ d \notin R \cup W /\ d # c => pc'[d] = pc[d]
            /\ d \notin R \cup W /\ d = c => pc'[d] \in {"notify", "idle"}
    BY DEF AfterNotify
  <1>4. c \in Clients => c \in Users(n) /\ pc[c] = "hold" /\ c \notin R \cup W
    BY <1>1, <1>2, ClientsAssumption
  <1>5. pc \in [Clients -> PCs] BY DEF IInv, TypeOK
  <1> HIDE DEF R, W
  <1>6. pc' \in [Clients -> PCs]
    <2>1. DOMAIN pc' = Clients /\ pc' = [d \in Clients |-> pc'[d]] BY DEF AfterNotify
    <2>2. \A d \in Clients : pc'[d] \in PCs BY <1>3, <1>5 DEF PCs
    <2> QED BY <2>1, <2>2
  <1>7. \A d \in Clients : NameOf[d] # n => pc'[d] = pc[d]
    BY <1>1, <1>2, <1>3, <1>4 DEF Users
  <1>8. CleanupReaders' = CleanupReaders
    BY <1>1, <1>2, <1>3, <1>4 DEF CleanupReaders
  <1>9. {d \in Users(n) \cap Writers : Owning(d)'} =
            ({d \in Users(n) \cap Writers : Owning(d)} \ {c}) \cup W
    BY <1>1, <1>2, <1>3, <1>4 DEF Owning, Users
  <1>10. OwningReaders(n)' = (OwningReaders(n) \ {c}) \cup R
    BY <1>1, <1>2, <1>3, <1>4 DEF OwningReaders, Owning, Users
  <1>11. AsyncWriters(n)' = AsyncWriters(n) \ W
    BY <1>1, <1>2, <1>3, <1>4 DEF AsyncWriters, Users
  <1>12. AsyncReaders(n)' = AsyncReaders(n) \ R
    BY <1>1, <1>2, <1>3, <1>4 DEF AsyncReaders, Users
  <1> QED BY <1>6, <1>7, <1>8, <1>9, <1>10, <1>11, <1>12 DEF R, W

LEMMA ReleaseIInv ==
    ASSUME IInv, NEW c \in Clients, Release(c) PROVE IInv'
  <1> DEFINE n == NameOf[c]
             u == ReleasedMutex(c)
             next == IF u.sharedOwners = 0 THEN Notified(u) ELSE u
  <1>1. n \in Names /\ c \in Users(n) /\ pc[c] = "hold" /\ Owning(c)
    BY TableAssumption DEF Users, Release, Owning
  <1>2. MutexFor(mutexes[n], OwningWriters(n), OwningReaders(n), AsyncWriters(n), AsyncReaders(n))
    BY <1>1 DEF IInv, MutexRight
  <1>3. Clearer(n) = {} /\ Clearer(n)' = {}
    BY <1>1, ClearerAlone DEF Clearer, Release, UnchangedClearer
  <1>4. UNCHANGED <<entries, made, clearer, todo, clears>>
    BY DEF Release, UnchangedClearer
  <1>5. mutexes' = [mutexes EXCEPT ![n] = next] BY DEF Release
  <1>6. /\ pc' \in [Clients -> PCs]
        /\ \A d \in Clients : NameOf[d] # n => pc'[d] = pc[d]
        /\ CleanupReaders' = CleanupReaders
        /\ MutexFor(next, OwningWriters(n)', OwningReaders(n)', AsyncWriters(n)', AsyncReaders(n)')
    <2>1. OwningWriters(n) = {d \in Users(n) \cap Writers : Owning(d)}
      BY <1>3 DEF OwningWriters
    <2>2. OwningWriters(n)' = {d \in Users(n) \cap Writers : Owning(d)'}
      BY <1>3 DEF OwningWriters, Users
    <2>3. CASE c \in Writers
      <3>1. u = Unlocked(mutexes[n]) BY <2>3 DEF ReleasedMutex, MutexOf
      <3>2. OwningWriters(n) = {c} /\ OwningReaders(n) = {}
        BY <1>1, <1>2, <2>3 DEF OwningWriters, MutexFor
      <3>3. /\ u.sharedOwners = 0
            /\ InvokedShared(u) = AsyncReaders(n)
            /\ InvokedExclusive(u) = IF AsyncReaders(n) = {} THEN AsyncWriters(n) ELSE {}
            /\ MutexFor(Notified(u), InvokedExclusive(u), AsyncReaders(n),
                        AsyncWriters(n) \ InvokedExclusive(u), {})
        <4>1. c \in OwningWriters(n) BY <3>2
        <4> HIDE DEF n, u
        <4>2. IsFiniteSet(AsyncReaders(n)) BY FiniteAsync
        <4> QED BY <1>2, <3>1, <4>1, <4>2, LeaveExclusive
      <3>4. pc' = AfterNotify(u, c) BY <3>3 DEF Release
      <3> HIDE DEF n, u
      <3>5. /\ pc' \in [Clients -> PCs]
            /\ \A d \in Clients : NameOf[d] # n => pc'[d] = pc[d]
            /\ CleanupReaders' = CleanupReaders
            /\ OwningWriters(n)' = (OwningWriters(n) \ {c}) \cup InvokedExclusive(u)
            /\ OwningReaders(n)' = (OwningReaders(n) \ {c}) \cup InvokedShared(u)
            /\ AsyncWriters(n)' = AsyncWriters(n) \ InvokedExclusive(u)
            /\ AsyncReaders(n)' = AsyncReaders(n) \ InvokedShared(u)
        BY <1>1, <2>1, <2>2, <3>3, <3>4, HandOver
      <3>6. /\ OwningWriters(n)' = InvokedExclusive(u) /\ OwningReaders(n)' = AsyncReaders(n)
            /\ AsyncReaders(n)' = {}
        BY <3>2, <3>3, <3>5
      <3> QED BY <3>3, <3>5, <3>6
    <2>4. CASE c \notin Writers
      <3>1. u = UnlockedShared(mutexes[n]) BY <2>4 DEF ReleasedMutex, MutexOf
      <3>2. c \in OwningReaders(n) BY <1>1, <2>4 DEF OwningReaders
      <3>3. OwningWriters(n) = {} BY <1>2, <3>2 DEF MutexFor
      <3>4. /\ u.sharedOwners # 0 =>
                 MutexFor(u, OwningWriters(n), OwningReaders(n) \ {c}, AsyncWriters(n), AsyncReaders(n))
            /\ u.sharedOwners = 0 =>
                 /\ OwningReaders(n) = {c} /\ AsyncReaders(n) = {} /\ InvokedShared(u) = {}
                 /\ InvokedExclusive(u) = AsyncWriters(n)
                 /\ MutexFor(Notified(u), AsyncWriters(n), {}, {}, {})
        <4> HIDE DEF n
        <4> QED BY <1>2, <3>1, <3>2, LeaveShared
      <3>5. CASE u.sharedOwners = 0
        <4>1. pc' = AfterNotify(u, c) BY <3>5 DEF Release
        <4> HIDE DEF n, u
        <4>2. /\ pc' \in [Clients -> PCs]
              /\ \A d \in Clients : NameOf[d] # n => pc'[d] = pc[d]
              /\ CleanupReaders' = CleanupReaders
              /\ OwningWriters(n)' = (OwningWriters(n) \ {c}) \cup InvokedExclusive(u)
              /\ OwningReaders(n)' = (OwningReaders(n) \ {c}) \cup InvokedShared(u)
              /\ AsyncWriters(n)' = AsyncWriters(n) \ InvokedExclusive(u)
              /\ AsyncReaders(n)' = AsyncReaders(n) \ InvokedShared(u)
          BY <1>1, <2>1, <2>2, <3>4, <3>5, <4>1, HandOver
        <4>3. /\ OwningWriters(n)' = AsyncWriters(n) /\ OwningReaders(n)' = {}
              /\ AsyncWriters(n)' = {} /\ AsyncReaders(n)' = {}
          BY <3>3, <3>4, <3>5, <4>2
        <4> QED BY <3>4, <3>5, <4>2, <4>3
      <3>6. CASE u.sharedOwners # 0
        <4>1. pc' = [pc EXCEPT ![c] = "idle"] BY <3>6 DEF Release
        <4>2. /\ pc' \in [Clients -> PCs]
              /\ \A d \in Clients : NameOf[d] # n => pc'[d] = pc[d]
              /\ CleanupReaders' = CleanupReaders
          BY <1>1, <4>1 DEF IInv, TypeOK, PCs, CleanupReaders
        <4>3. /\ OwningWriters(n)' = OwningWriters(n)
              /\ OwningReaders(n)' = OwningReaders(n) \ {c}
              /\ AsyncWriters(n)' = AsyncWriters(n) /\ AsyncReaders(n)' = AsyncReaders(n)
          BY <1>1, <1>3, <2>4, <4>1
             DEF OwningWriters, OwningReaders, AsyncWriters, AsyncReaders, Owning, IInv, TypeOK, Users
        <4> QED BY <3>4, <3>6, <4>2, <4>3
      <3> QED BY <3>5, <3>6
    <2> QED BY <2>3, <2>4
  <1> HIDE DEF n, u, next
  <1>7. \A k \in Names : MutexRight(k)'
    <2>1. \A k \in Names \ {n} : Clearer(k)' = Clearer(k) BY <1>4 DEF Clearer
    <2> QED BY <1>1, <1>5, <1>6, <2>1, ChangedMutex
  <1>8. TypeOK'
    <2>1. next \in MutexType BY <1>6 DEF MutexFor
    <2> QED BY <1>1, <1>4, <1>5, <1>6, <2>1 DEF IInv, TypeOK
  <1>9. ClearerRight'
    <2>1. clearer.at \in {"locked", "unlocked"} => clearer.name # n
      BY <1>1 DEF IInv, ClearerRight
    <2> QED BY <1>4, <1>6, <2>1 DEF IInv, ClearerRight, Users
  <1> QED BY <1>7, <1>8, <1>9 DEF IInv

-------------------------------------------------------------------------------
(* Steps of ReloadConfiguration and clear().                               *)

LEMMA StartReloadIInv ==
    ASSUME IInv, StartReload PROVE IInv'
  <1> USE DEF IInv, StartReload
  <1>1. TypeOK' BY TableAssumption DEF TypeOK, NotClearing
  <1>2. \A n \in Names : MutexRight(n)'
    BY SameMutex DEF Clearer, Owning, NotClearing
  <1>3. ClearerRight' BY DEF ClearerRight, NotClearing
  <1> QED BY <1>1, <1>2, <1>3

LEMMA StartClearIInv ==
    ASSUME IInv, StartClear PROVE IInv'
  <1> USE DEF IInv, StartClear
  <1>1. clearer' = [at |-> "visit", name |-> clearer.name] BY DEF TypeOK
  <1>2. TypeOK' BY <1>1 DEF TypeOK
  <1>3. \A n \in Names : MutexRight(n)'
    BY <1>1, SameMutex DEF Clearer, Owning
  <1>4. ClearerRight' BY <1>1 DEF ClearerRight, CleanupReaders
  <1> QED BY <1>2, <1>3, <1>4

LEMMA ClearTryLockIInv ==
    ASSUME IInv, NEW n \in Names, ClearTryLock(n) PROVE IInv'
  <1>1. /\ clearer.at = "visit" /\ todo' \subseteq Names
        /\ UNCHANGED <<entries, pc, made, clears>>
    BY DEF ClearTryLock, IInv, TypeOK
  <1>2. CASE CanLock(mutexes[n])
    <2>1. /\ mutexes' = [mutexes EXCEPT ![n] = Locked(mutexes[n])]
          /\ clearer' = [at |-> "locked", name |-> n]
      BY <1>2 DEF ClearTryLock
    <2>2. MutexFor(mutexes[n], OwningWriters(n), OwningReaders(n), AsyncWriters(n), AsyncReaders(n))
      BY DEF IInv, MutexRight
    <2>3. /\ OwningWriters(n) = {} /\ OwningReaders(n) = {}
          /\ MutexFor(Locked(mutexes[n]), {None}, {}, AsyncWriters(n), AsyncReaders(n))
      BY <1>2, <2>2, TakeExclusive
    <2>4. AsyncWriters(n) = {} /\ AsyncReaders(n) = {} BY <2>2, <2>3 DEF MutexFor
    <2>5. /\ OwningReaders(n)' = OwningReaders(n)
          /\ AsyncWriters(n)' = AsyncWriters(n) /\ AsyncReaders(n)' = AsyncReaders(n)
      BY <1>1 DEF OwningReaders, AsyncWriters, AsyncReaders, Owning, Users
    <2>6. OwningWriters(n)' = {None}
      <3>1. Clearer(n)' = {None} BY <2>1 DEF Clearer
      <3>2. {c \in Users(n) \cap Writers : Owning(c)} = {} BY <2>3 DEF OwningWriters
      <3> QED BY <1>1, <3>1, <3>2 DEF OwningWriters, Owning, Users
    <2>7. \A k \in Names : MutexRight(k)'
      <3>1. \A k \in Names \ {n} : Clearer(k)' = Clearer(k) BY <1>1, <2>1 DEF Clearer
      <3> QED BY <1>1, <2>1, <2>3, <2>5, <2>6, <3>1, ChangedMutex
    <2>8. TypeOK'
      <3>1. Locked(mutexes[n]) \in MutexType BY <2>3 DEF MutexFor
      <3> QED BY <1>1, <2>1, <3>1 DEF IInv, TypeOK
    <2>9. \A c \in Users(n) : pc[c] \in {"idle", "config", "notify", "dropped"}
      <3> SUFFICES ASSUME NEW c \in Users(n)
                   PROVE  pc[c] \in {"idle", "config", "notify", "dropped"}
        OBVIOUS
      <3>1. c \in Clients /\ pc[c] \in PCs BY DEF Users, IInv, TypeOK
      <3>2. pc[c] \notin {"entered", "wait", "woken", "inner"}
        BY <1>1, <3>1 DEF IInv, ClearerRight, CleanupReaders
      <3>3. ~Owning(c)
        BY <2>3 DEF OwningWriters, OwningReaders
      <3>4. pc[c] # "async" BY <2>4 DEF AsyncWriters, AsyncReaders
      <3> QED BY <3>1, <3>2, <3>3, <3>4 DEF PCs, Owning
    <2>10. ClearerRight'
      BY <1>1, <2>1, <2>9 DEF IInv, ClearerRight, CleanupReaders, Users
    <2> QED BY <2>7, <2>8, <2>10 DEF IInv
  <1>3. CASE ~CanLock(mutexes[n])
    <2> USE <1>3 DEF IInv, ClearTryLock
    <2>1. TypeOK' BY <1>1 DEF TypeOK
    <2>2. \A k \in Names : MutexRight(k)' BY SameMutex DEF Clearer, Owning
    <2>3. ClearerRight' BY DEF ClearerRight, CleanupReaders
    <2> QED BY <2>1, <2>2, <2>3
  <1> QED BY <1>2, <1>3

LEMMA ClearUnlockIInv ==
    ASSUME IInv, ClearUnlock PROVE IInv'
  <1>0. PICK n \in Names : clearer.at = "locked" /\ clearer.name = n
    BY DEF ClearUnlock, IInv, ClearerRight
  <1> DEFINE u == Unlocked(mutexes[n])
  <1>1. /\ clearer' = [at |-> "unlocked", name |-> n]
        /\ mutexes' = [mutexes EXCEPT ![n] = Notified(u)]
        /\ pc' = AfterNotify(u, None)
        /\ UNCHANGED <<entries, made, todo, clears>>
    BY <1>0 DEF ClearUnlock, IInv, TypeOK
  <1>2. MutexFor(mutexes[n], OwningWriters(n), OwningReaders(n), AsyncWriters(n), AsyncReaders(n))
    BY <1>0, <1>1 DEF IInv, MutexRight
  <1>3. None \in OwningWriters(n) BY <1>0, <1>1 DEF OwningWriters, Clearer
  <1>4. OwningWriters(n) = {None} /\ OwningReaders(n) = {} BY <1>2, <1>3 DEF MutexFor
  <1>5. \A c \in Users(n) : pc[c] \in {"idle", "config", "notify", "dropped"}
    BY <1>0, <1>1 DEF IInv, ClearerRight
  <1>6. AsyncWriters(n) = {} /\ AsyncReaders(n) = {} BY <1>5 DEF AsyncWriters, AsyncReaders
  <1>7. /\ u.sharedOwners = 0
        /\ InvokedShared(u) = AsyncReaders(n)
        /\ InvokedExclusive(u) = IF AsyncReaders(n) = {} THEN AsyncWriters(n) ELSE {}
        /\ MutexFor(Notified(u), InvokedExclusive(u), AsyncReaders(n),
                    AsyncWriters(n) \ InvokedExclusive(u), {})
    <2>1. IsFiniteSet(AsyncReaders(n)) BY FiniteAsync
    <2> QED BY <1>2, <1>3, <2>1, LeaveExclusive
  <1> HIDE DEF u
  <1>8. pc' = pc
    <2>1. InvokedShared(u) \cup InvokedExclusive(u) = {} BY <1>6, <1>7
    <2> QED BY <1>0, <1>1, <2>1, ClientsAssumption DEF AfterNotify, IInv, TypeOK
  <1>9. /\ OwningWriters(n)' = {} /\ OwningReaders(n)' = {}
        /\ AsyncWriters(n)' = {} /\ AsyncReaders(n)' = {}
    <2>1. Clearer(n)' = {} BY <1>0, <1>1 DEF Clearer
    <2>2. \A c \in Users(n) : ~Owning(c)' /\ pc'[c] # "async" BY <1>5, <1>8 DEF Owning
    <2> QED BY <2>1, <2>2
        DEF OwningWriters, OwningReaders, AsyncWriters, AsyncReaders, Users
  <1>10. \A k \in Names : MutexRight(k)'
    <2>1. \A k \in Names \ {n} : Clearer(k)' = Clearer(k) BY <1>0, <1>1 DEF Clearer
    <2>2. MutexFor(Notified(u), {}, {}, {}, {}) BY <1>6, <1>7
    <2> QED BY <1>0, <1>1, <1>8, <1>9, <2>1, <2>2, ChangedMutex
  <1>11. TypeOK'
    <2>1. Notified(u) \in MutexType BY <1>7 DEF MutexFor
    <2> QED BY <1>0, <1>1, <1>8, <2>1 DEF IInv, TypeOK
  <1>12. ClearerRight'
    BY <1>0, <1>1, <1>5, <1>8 DEF IInv, ClearerRight, CleanupReaders, Users
  <1> QED BY <1>0, <1>10, <1>11, <1>12 DEF IInv

LEMMA ClearEraseIInv ==
    ASSUME IInv, ClearErase PROVE IInv'
  <1>0. PICK n \in Names : clearer.at = "unlocked" /\ clearer.name = n
    BY DEF ClearErase, IInv, ClearerRight
  <1>1. /\ clearer' = [at |-> "visit", name |-> None]
        /\ mutexes' = [mutexes EXCEPT ![n] = NewMutex]
        /\ entries' \subseteq entries
        /\ UNCHANGED <<pc, made, todo, clears>>
    BY <1>0 DEF ClearErase
  <1>2. \A c \in Users(n) : pc[c] \in {"idle", "config", "notify", "dropped"}
    BY <1>0, <1>1 DEF IInv, ClearerRight
  <1>3. /\ OwningWriters(n)' = {} /\ OwningReaders(n)' = {}
        /\ AsyncWriters(n)' = {} /\ AsyncReaders(n)' = {}
    <2>1. Clearer(n)' = {} BY <1>0, <1>1 DEF Clearer
    <2>2. \A c \in Users(n) : ~Owning(c)' /\ pc'[c] # "async" BY <1>0, <1>1, <1>2 DEF Owning
    <2> QED BY <2>1, <2>2
        DEF OwningWriters, OwningReaders, AsyncWriters, AsyncReaders, Users
  <1>4. MutexFor(NewMutex, {}, {}, {}, {})
    BY FS_EmptySet DEF MutexFor, NewMutex, MutexType
  <1>5. \A k \in Names : MutexRight(k)'
    <2>1. \A k \in Names \ {n} : Clearer(k)' = Clearer(k) BY <1>0, <1>1 DEF Clearer
    <2> QED BY <1>0, <1>1, <1>3, <1>4, <2>1, ChangedMutex
  <1>6. TypeOK' BY <1>0, <1>1, <1>4 DEF IInv, TypeOK, MutexFor
  <1>7. ClearerRight' BY <1>0, <1>1 DEF IInv, ClearerRight, CleanupReaders
  <1> QED BY <1>5, <1>6, <1>7 DEF IInv

LEMMA FinishReloadIInv ==
    ASSUME IInv, FinishReload PROVE IInv'
  <1> USE DEF IInv, FinishReload, NotClearing
  <1>1. TypeOK' BY DEF TypeOK
  <1>2. \A n \in Names : MutexRight(n)' BY SameMutex DEF Clearer, Owning
  <1>3. ClearerRight' BY DEF ClearerRight
  <1> QED BY <1>1, <1>2, <1>3

-------------------------------------------------------------------------------

LEMMA NextIInv == IInv /\ [Next]_vars => IInv'
  <1> SUFFICES ASSUME IInv, [Next]_vars PROVE IInv' OBVIOUS
  <1>1. ASSUME NEW c \in Clients,
               LockConfig(c) \/ EnterTable(c) \/ AcquireBlocking(c) \/ AcquireAsync(c)
                   \/ RunCallback(c) \/ Release(c) \/ NotifyOne(c)
        PROVE  IInv'
    BY <1>1, LockConfigIInv, EnterTableIInv, AcquireBlockingIInv, AcquireAsyncIInv,
       RunCallbackIInv, ReleaseIInv, NotifyOneIInv
  <1>2. CASE StartReload BY <1>2, StartReloadIInv
  <1>3. CASE ClearStep
    BY <1>3, StartClearIInv, ClearTryLockIInv, ClearUnlockIInv, ClearEraseIInv,
       FinishReloadIInv DEF ClearStep
  <1>4. CASE UNCHANGED vars
    <2> USE <1>4 DEF IInv, vars
    <2>1. TypeOK' BY DEF TypeOK
    <2>2. \A n \in Names : MutexRight(n)' BY SameMutex DEF Clearer, Owning
    <2>3. ClearerRight' BY DEF ClearerRight, CleanupReaders
    <2> QED BY <2>1, <2>2, <2>3
  <1> QED BY <1>1, <1>2, <1>3, <1>4 DEF Next

LEMMA EraseUnowned ==
    IInv /\ [Next]_vars =>
        [\A n \in Names : \A c \in Users(n) :
            n \in entries \ entries' => pc[c] \in {"idle", "config", "notify", "dropped"}]_vars
  <1> SUFFICES ASSUME IInv, Next, NEW n \in Names, NEW c \in Users(n), n \in entries \ entries'
               PROVE  pc[c] \in {"idle", "config", "notify", "dropped"}
    OBVIOUS
  <1>1. ClearErase
    BY DEF Next, ClearStep, LockConfig, EnterTable, AcquireBlocking, AcquireAsync, RunCallback,
           Release, NotifyOne, StartReload, StartClear, ClearTryLock, ClearUnlock, FinishReload
  <1> QED BY <1>1 DEF ClearErase, IInv, ClearerRight

\* Types hold, and for any number of clients and names two owners of the same
\* name are both readers, also while the table of locks is cleared and filled
\* again (globallock.h, ServiceSetup::Locks::clear()).
THEOREM AlwaysConsistent == Spec => []Consistent
  <1>1. Spec => []IInv BY InitIInv, NextIInv, PTL DEF Spec
  <1> QED BY <1>1, Implied, PTL

\* clear() only ever erases a mutex nobody owns, waits for, has a callback in or
\* is about to lock (serversetup.cpp, ServiceSetup::Locks::clear()).
THEOREM ErasedFree == Spec => ErasedUnowned
  <1>1. Spec => []IInv BY InitIInv, NextIInv, PTL DEF Spec
  <1> QED BY <1>1, EraseUnowned, PTL DEF Spec, ErasedUnowned

===============================================================================

--------------------------- MODULE GlobalLockProofs ---------------------------
(***************************************************************************)
(* Proofs about GlobalLock for every set of clients, every assignment of   *)
(* functions to clients and every number of requests.                      *)
(***************************************************************************)
EXTENDS GlobalLock, FiniteSetTheorems, TLAPS

\* The safety invariants together are inductive: counting the owners needs
\* mutual exclusion (who releases is counted once), mutual exclusion needs the
\* count (a zero m_sharedOwners means no shared owner), and the absence of lost
\* wakeups and stranded callbacks needs both.
IInv ==
    /\ TypeOK
    /\ OwnersCounted
    /\ MutualExclusion
    /\ CallbacksBehindOwner
    /\ CallbacksStored
    /\ NoLostWakeup

-------------------------------------------------------------------------------
(* Counting the shared owners. *)

\* A set of clients at some position is finite.
LEMMA AtFinite ==
    ASSUME NEW S PROVE IsFiniteSet(At(S))
  <1>1. At(S) \subseteq Clients BY DEF At
  <1> QED BY <1>1, ClientsAssumption, FS_Subset

\* m_sharedOwners is zero exactly if nobody owns the mutex shared.
LEMMA NoSharedOwner ==
    ASSUME OwnersCounted
    PROVE  mutex.sharedOwners = 0 <=> SharedOwners = {}
  BY AtFinite, FS_EmptySet DEF OwnersCounted, SharedOwners

\* A free mutex has no owner.
LEMMA FreeHasNoOwner ==
    ASSUME OwnersCounted, CanLock(mutex)
    PROVE  SharedOwners = {} /\ ExclusiveOwners = {}
  BY NoSharedOwner DEF CanLock, OwnersCounted

\* The initial state satisfies the invariant.
LEMMA InitIInv == Init => IInv
  <1> SUFFICES ASSUME Init PROVE IInv OBVIOUS
  <1>1. TypeOK
    BY RequestsAssumption DEF Init, TypeOK, MutexType, NewMutex, PCs
  <1>2. \A S : "idle" \notin S => At(S) = {} BY DEF Init, At
  <1>3. OwnersCounted
    BY <1>2, FS_EmptySet DEF Init, OwnersCounted, NewMutex, SharedOwners, ExclusiveOwners
  <1>4. MutualExclusion BY <1>2 DEF MutualExclusion, ExclusiveOwners
  <1>5. CallbacksBehindOwner BY DEF Init, NewMutex, CallbacksBehindOwner
  <1>6. CallbacksStored BY <1>2 DEF Init, NewMutex, CallbacksStored
  <1>7. NoLostWakeup BY <1>2 DEF NoLostWakeup, WaitSet
  <1> QED BY <1>1, <1>3, <1>4, <1>5, <1>6, <1>7 DEF IInv

\* A client becomes the exclusive owner of a free mutex.
LEMMA TakeExclusive ==
    ASSUME IInv, NEW c \in Clients, pc[c] \in {"idle", "wokenX"},
           CanLock(mutex), mutex' = Locked(mutex),
           NEW s \in {"holdX", "grantX"}, pc' = [pc EXCEPT ![c] = s],
           made' \in [Clients -> 0..MaxRequests]
    PROVE  IInv'
  <1> USE DEF IInv
  <1>0. SharedOwners = {} /\ ExclusiveOwners = {} BY FreeHasNoOwner
  <1>1. TypeOK' BY DEF TypeOK, MutexType, Locked, PCs
  <1>2. SharedOwners' = {} /\ ExclusiveOwners' = {c}
    BY <1>0 DEF SharedOwners, ExclusiveOwners, At, TypeOK
  <1>3. mutex'.sharedOwners = 0 /\ mutex'.exclusivelyOwned
    BY DEF CanLock, Locked, TypeOK, MutexType
  <1>4. OwnersCounted' BY <1>2, <1>3, FS_EmptySet DEF OwnersCounted
  <1>5. MutualExclusion' BY <1>2 DEF MutualExclusion
  <1>6. CallbacksBehindOwner' BY <1>3 DEF CallbacksBehindOwner, CanLock
  <1>7. CallbacksStored'
    BY DEF CallbacksStored, At, Locked, TypeOK, MutexType
  <1>8. NoLostWakeup' BY <1>3 DEF NoLostWakeup, CanLock
  <1> QED BY <1>1, <1>4, <1>5, <1>6, <1>7, <1>8

\* A client becomes a shared owner of a mutex that is not exclusively owned.
LEMMA TakeShared ==
    ASSUME IInv, NEW c \in Clients, pc[c] \in {"idle", "wokenS"},
           CanLockShared(mutex), mutex' = LockedShared(mutex),
           NEW s \in {"holdS", "grantS"}, pc' = [pc EXCEPT ![c] = s],
           made' \in [Clients -> 0..MaxRequests]
    PROVE  IInv'
  <1> USE DEF IInv
  <1>0. ExclusiveOwners = {} BY DEF OwnersCounted, CanLockShared
  <1>1. TypeOK'
    <2>1. mutex.sharedOwners + 1 \in Nat BY DEF TypeOK, MutexType
    <2>2. mutex' \in MutexType BY <2>1 DEF TypeOK, MutexType, LockedShared
    <2>3. pc' \in [Clients -> PCs] BY DEF TypeOK, PCs
    <2> QED BY <2>2, <2>3 DEF TypeOK
  <1>2. /\ c \notin SharedOwners
        /\ SharedOwners' = SharedOwners \cup {c}
        /\ ExclusiveOwners' = {}
    BY <1>0 DEF SharedOwners, ExclusiveOwners, At, TypeOK
  <1>3. /\ mutex'.sharedOwners = mutex.sharedOwners + 1
        /\ ~mutex'.exclusivelyOwned
    BY DEF CanLockShared, LockedShared, TypeOK, MutexType
  <1>4. Cardinality(SharedOwners \cup {c}) = Cardinality(SharedOwners) + 1
    BY <1>2, AtFinite, FS_AddElement DEF SharedOwners
  <1>5. OwnersCounted' BY <1>2, <1>3, <1>4 DEF OwnersCounted
  <1>6. MutualExclusion' BY <1>2 DEF MutualExclusion
  <1>7. ~CanLock(mutex)' BY <1>3 DEF CanLock, TypeOK, MutexType
  <1>8. CallbacksBehindOwner'
    BY <1>7 DEF CallbacksBehindOwner, CanLockShared, LockedShared, TypeOK, MutexType
  <1>9. CallbacksStored'
    BY DEF CallbacksStored, At, LockedShared, TypeOK, MutexType
  <1>10. NoLostWakeup' BY <1>7 DEF NoLostWakeup
  <1> QED BY <1>1, <1>5, <1>6, <1>8, <1>9, <1>10

\* A client that owns nothing moves without touching the mutex; if it enters the
\* wait set then because the mutex is owned.
LEMMA MoveUnowned ==
    ASSUME IInv, NEW c \in Clients,
           pc[c] \in {"idle", "wokenX", "wokenS"},
           NEW s \in {"idle", "waitX", "waitS"},
           pc' = [pc EXCEPT ![c] = s], UNCHANGED mutex,
           (pc[c] = "idle" /\ s = "idle") \/ ~CanLock(mutex),
           made' \in [Clients -> 0..MaxRequests]
    PROVE  IInv'
  <1> USE DEF IInv
  <1>1. TypeOK' BY DEF TypeOK, PCs
  <1>2. /\ SharedOwners' = SharedOwners
        /\ ExclusiveOwners' = ExclusiveOwners
        /\ At({"asyncS"})' = At({"asyncS"})
        /\ At({"asyncX"})' = At({"asyncX"})
    BY DEF SharedOwners, ExclusiveOwners, At, TypeOK
  <1>3. OwnersCounted' BY <1>2 DEF OwnersCounted
  <1>4. MutualExclusion' BY <1>2 DEF MutualExclusion
  <1>5. CallbacksBehindOwner' BY DEF CallbacksBehindOwner, CanLock
  <1>6. CallbacksStored' BY <1>2 DEF CallbacksStored
  <1>7. NoLostWakeup'
    <2>1. CASE pc[c] = "idle" /\ s = "idle"
      <3>1. pc' = pc BY <2>1 DEF TypeOK
      <3> QED BY <3>1 DEF NoLostWakeup, CanLock, WaitSet, At
    <2>2. CASE ~CanLock(mutex) BY <2>2 DEF NoLostWakeup, CanLock
    <2> QED BY <2>1, <2>2
  <1> QED BY <1>1, <1>3, <1>4, <1>5, <1>6, <1>7

\* A callback is stored; in the exclusive slot it replaces the previous one.
LEMMA StoreExclusive ==
    ASSUME IInv, NEW c \in Clients, LockAsync(c), ~CanLock(mutex)
    PROVE  IInv'
  <1> USE DEF IInv, LockAsync, Request, WithExclusiveCallback
  <1>0. c # None BY ClientsAssumption
  <1>1. TypeOK' BY RequestsAssumption DEF TypeOK, MutexType, PCs
  <1>2. mutex' = [mutex EXCEPT !.exclusiveCallback = c] OBVIOUS
  <1>3. \A d \in Clients : d = mutex.exclusiveCallback <=> pc[d] = "asyncX"
    BY ClientsAssumption DEF CallbacksStored, At
  <1>4. \A d \in Clients : pc'[d] = IF d = c THEN "asyncX"
                                    ELSE IF pc[d] = "asyncX" THEN "dropped" ELSE pc[d]
    BY <1>3 DEF TypeOK
  <1>5. /\ SharedOwners' = SharedOwners
        /\ ExclusiveOwners' = ExclusiveOwners
    BY <1>4 DEF SharedOwners, ExclusiveOwners, At
  <1>6. At({"asyncS"})' = At({"asyncS"}) /\ At({"asyncX"})' = {c}
    BY <1>4 DEF At
  <1>7. /\ mutex'.sharedOwners = mutex.sharedOwners
        /\ mutex'.exclusivelyOwned = mutex.exclusivelyOwned
        /\ mutex'.sharedCallbacks = mutex.sharedCallbacks
        /\ mutex'.exclusiveCallback = c
    BY <1>2 DEF TypeOK, MutexType
  <1> HIDE DEF LockAsync
  <1>8. OwnersCounted' BY <1>5, <1>7 DEF OwnersCounted
  <1>9. MutualExclusion' BY <1>5 DEF MutualExclusion
  <1>10. CallbacksBehindOwner' BY <1>7 DEF CallbacksBehindOwner, CanLock
  <1>11. CallbacksStored' BY <1>0, <1>6, <1>7 DEF CallbacksStored
  <1>12. NoLostWakeup' BY <1>7 DEF NoLostWakeup, CanLock
  <1> QED BY <1>1, <1>8, <1>9, <1>10, <1>11, <1>12

\* A shared callback is appended behind an exclusive owner.
LEMMA StoreShared ==
    ASSUME IInv, NEW c \in Clients, LockSharedAsync(c), ~CanLockShared(mutex)
    PROVE  IInv'
  <1> USE DEF IInv, LockSharedAsync, Request, WithSharedCallback
  <1>1. TypeOK' BY RequestsAssumption DEF TypeOK, MutexType, PCs
  <1>2. /\ mutex'.sharedOwners = mutex.sharedOwners
        /\ mutex'.exclusivelyOwned = mutex.exclusivelyOwned
        /\ mutex'.sharedCallbacks = mutex.sharedCallbacks \cup {c}
        /\ mutex'.exclusiveCallback = mutex.exclusiveCallback
    BY DEF TypeOK, MutexType
  <1>3. /\ SharedOwners' = SharedOwners
        /\ ExclusiveOwners' = ExclusiveOwners
    BY DEF SharedOwners, ExclusiveOwners, At, TypeOK
  <1>4. At({"asyncS"})' = At({"asyncS"}) \cup {c} /\ At({"asyncX"})' = At({"asyncX"})
    BY DEF At, TypeOK
  <1> HIDE DEF LockSharedAsync
  <1>5. OwnersCounted' BY <1>2, <1>3 DEF OwnersCounted
  <1>6. MutualExclusion' BY <1>3 DEF MutualExclusion
  <1>7. CallbacksBehindOwner' BY <1>2 DEF CallbacksBehindOwner, CanLock, CanLockShared
  <1>8. CallbacksStored' BY <1>2, <1>4 DEF CallbacksStored
  <1>9. NoLostWakeup' BY <1>2 DEF NoLostWakeup, CanLock, CanLockShared
  <1> QED BY <1>1, <1>5, <1>6, <1>7, <1>8, <1>9

\* The only owner c enters notify() with the mutex in the free state m.
HandsOver(m, c) ==
    /\ SharedOwners \cup ExclusiveOwners = {c}
    /\ m.sharedOwners = 0
    /\ ~m.exclusivelyOwned
    /\ m.sharedCallbacks = mutex.sharedCallbacks
    /\ m.exclusiveCallback = mutex.exclusiveCallback
    /\ EnterNotify(m, c)
    /\ UNCHANGED made

\* The invariant survives the hand-over.
LEMMA LastOwnerLeaves ==
    ASSUME IInv, NEW c \in Clients, NEW m \in MutexType, HandsOver(m, c)
    PROVE  IInv'
  <1> USE DEF IInv, HandsOver
  <1>1. /\ m.sharedCallbacks = At({"asyncS"})
        /\ {m.exclusiveCallback} \ {None} = At({"asyncX"})
    BY DEF CallbacksStored
  <1>2. /\ InvokedShared(m) = At({"asyncS"})
        /\ InvokedExclusive(m) = IF At({"asyncS"}) = {} THEN At({"asyncX"}) ELSE {}
    BY <1>1 DEF InvokedShared, InvokedExclusive, CanLock
  <1>3. \A d \in Clients :
          /\ pc[d] \in {"holdX", "holdS", "grantX", "grantS"} <=> d = c
          /\ d \in At({"asyncS"}) <=> pc[d] = "asyncS"
          /\ d \in At({"asyncX"}) <=> pc[d] = "asyncX"
    BY DEF SharedOwners, ExclusiveOwners, At
  <1>4. m.exclusiveCallback = None <=> At({"asyncX"}) = {}
    BY <1>1
  <1>5. mutex' = Notified(m) BY DEF EnterNotify
  <1>6. CASE At({"asyncS"}) # {}
    <2>1. \A d \in Clients : pc'[d] = IF pc[d] = "asyncS" THEN "grantS"
                                      ELSE IF d = c THEN "idle" ELSE pc[d]
      BY <1>2, <1>3, <1>6 DEF EnterNotify, NotifiesThread
    <2>3. /\ Cardinality(At({"asyncS"})) \in Nat
          /\ m.sharedOwners + Cardinality(At({"asyncS"})) = Cardinality(At({"asyncS"}))
      <3>1. Cardinality(At({"asyncS"})) \in Nat BY AtFinite, FS_CardinalityType
      <3> QED BY <3>1
    <2>2. mutex' = [m EXCEPT !.sharedOwners = Cardinality(At({"asyncS"})),
                             !.sharedCallbacks = {}]
      BY <1>2, <1>5, <1>6, <2>3 DEF Notified
    <2>4. /\ mutex' \in MutexType
          /\ mutex'.sharedOwners = Cardinality(At({"asyncS"}))
          /\ ~mutex'.exclusivelyOwned
          /\ mutex'.sharedCallbacks = {}
          /\ mutex'.exclusiveCallback = m.exclusiveCallback
      BY <2>2, <2>3 DEF MutexType
    <2>5. pc' \in [Clients -> PCs]
      BY <2>1 DEF EnterNotify, TypeOK, PCs
    <2>6. TypeOK' BY <2>4, <2>5 DEF TypeOK
    <2>7. SharedOwners' = At({"asyncS"}) /\ ExclusiveOwners' = {}
      BY <1>3, <2>1 DEF SharedOwners, ExclusiveOwners, At
    <2>8. At({"asyncS"})' = {} /\ At({"asyncX"})' = At({"asyncX"})
      BY <1>3, <2>1 DEF At
    <2>9. OwnersCounted' BY <2>4, <2>7 DEF OwnersCounted
    <2>10. MutualExclusion' BY <2>7 DEF MutualExclusion
    <2>11. Cardinality(At({"asyncS"})) # 0 BY <1>6, AtFinite, FS_EmptySet
    <2>12. ~CanLock(mutex)' BY <2>4, <2>11 DEF CanLock
    <2>13. CallbacksBehindOwner' BY <2>4, <2>12 DEF CallbacksBehindOwner
    <2>14. CallbacksStored' BY <1>1, <2>4, <2>8 DEF CallbacksStored
    <2>15. NoLostWakeup' BY <2>12 DEF NoLostWakeup
    <2> QED BY <2>6, <2>9, <2>10, <2>13, <2>14, <2>15
  <1>7. CASE At({"asyncS"}) = {} /\ At({"asyncX"}) # {}
    <2>1. \A d \in Clients : pc'[d] = IF pc[d] = "asyncX" THEN "grantX"
                                      ELSE IF d = c THEN "idle" ELSE pc[d]
      BY <1>2, <1>3, <1>7 DEF EnterNotify, NotifiesThread
    <2>2. mutex' = [m EXCEPT !.exclusivelyOwned = TRUE, !.exclusiveCallback = None]
      BY <1>2, <1>5, <1>7 DEF Notified
    <2>3. /\ mutex' \in MutexType
          /\ mutex'.sharedOwners = 0
          /\ mutex'.exclusivelyOwned
          /\ mutex'.sharedCallbacks = {}
          /\ mutex'.exclusiveCallback = None
      BY <1>1, <1>7, <2>2 DEF MutexType
    <2>4. pc' \in [Clients -> PCs]
      BY <2>1 DEF EnterNotify, TypeOK, PCs
    <2>5. TypeOK' BY <2>3, <2>4 DEF TypeOK
    <2>6. SharedOwners' = {} /\ ExclusiveOwners' = {m.exclusiveCallback}
      BY <1>1, <1>3, <1>7, <2>1 DEF SharedOwners, ExclusiveOwners, At
    <2>7. At({"asyncS"})' = {} /\ At({"asyncX"})' = {}
      BY <1>3, <1>7, <2>1 DEF At
    <2>8. OwnersCounted' BY <2>3, <2>6, FS_EmptySet DEF OwnersCounted
    <2>9. MutualExclusion' BY <2>6 DEF MutualExclusion
    <2>10. CallbacksBehindOwner' BY <2>3 DEF CallbacksBehindOwner
    <2>11. CallbacksStored' BY <2>3, <2>7 DEF CallbacksStored
    <2>12. NoLostWakeup' BY <2>3 DEF NoLostWakeup, CanLock
    <2> QED BY <2>5, <2>8, <2>9, <2>10, <2>11, <2>12
  <1>8. CASE At({"asyncS"}) = {} /\ At({"asyncX"}) = {}
    <2>1. \A d \in Clients : pc'[d] = IF d = c THEN "notify" ELSE pc[d]
      BY <1>2, <1>3, <1>8 DEF EnterNotify, NotifiesThread
    <2>2. mutex' = m BY <1>2, <1>5, <1>8 DEF Notified
    <2>3. pc' \in [Clients -> PCs]
      BY <2>1 DEF EnterNotify, TypeOK, PCs
    <2>4. TypeOK' BY <2>2, <2>3 DEF TypeOK
    <2>5. SharedOwners' = {} /\ ExclusiveOwners' = {}
      BY <1>3, <2>1 DEF SharedOwners, ExclusiveOwners, At
    <2>6. At({"asyncS"})' = {} /\ At({"asyncX"})' = {}
      BY <1>3, <1>8, <2>1 DEF At
    <2>7. OwnersCounted' BY <2>2, <2>5, FS_EmptySet DEF OwnersCounted
    <2>8. MutualExclusion' BY <2>5 DEF MutualExclusion
    <2>9. CallbacksBehindOwner' BY <1>1, <1>4, <1>8, <2>2 DEF CallbacksBehindOwner
    <2>10. CallbacksStored' BY <1>1, <1>8, <2>2, <2>6 DEF CallbacksStored
    <2>11. NoLostWakeup' BY <2>1 DEF NoLostWakeup, At
    <2> QED BY <2>4, <2>7, <2>8, <2>9, <2>10, <2>11
  <1> QED BY <1>6, <1>7, <1>8

\* A shared owner that is not the last one leaves.
LEMMA OtherOwnersRemain ==
    ASSUME IInv, NEW c \in Clients, pc[c] = "holdS",
           mutex' = UnlockedShared(mutex), UnlockedShared(mutex).sharedOwners # 0,
           pc' = [pc EXCEPT ![c] = "idle"], UNCHANGED made
    PROVE  IInv'
  <1> USE DEF IInv
  <1>1. /\ c \in SharedOwners
        /\ SharedOwners' = SharedOwners \ {c}
        /\ ExclusiveOwners' = ExclusiveOwners
        /\ At({"asyncS"})' = At({"asyncS"})
        /\ At({"asyncX"})' = At({"asyncX"})
    BY DEF SharedOwners, ExclusiveOwners, At, TypeOK
  <1>2. Cardinality(SharedOwners \ {c}) = Cardinality(SharedOwners) - 1
    BY <1>1, AtFinite, FS_RemoveElement DEF SharedOwners
  <1>3. Cardinality(SharedOwners \ {c}) \in Nat
    BY <1>1, AtFinite, FS_RemoveElement, FS_CardinalityType DEF SharedOwners
  <1>4. mutex.sharedOwners - 1 \in Nat /\ mutex.sharedOwners - 1 # 0
    BY <1>2, <1>3 DEF OwnersCounted, UnlockedShared, TypeOK, MutexType
  <1>5. /\ mutex' \in MutexType
        /\ mutex'.sharedOwners = mutex.sharedOwners - 1
        /\ mutex'.exclusivelyOwned = mutex.exclusivelyOwned
        /\ mutex'.sharedCallbacks = mutex.sharedCallbacks
        /\ mutex'.exclusiveCallback = mutex.exclusiveCallback
    BY <1>4 DEF UnlockedShared, TypeOK, MutexType
  <1>6. TypeOK' BY <1>5 DEF TypeOK, PCs
  <1>7. OwnersCounted' BY <1>1, <1>2, <1>5 DEF OwnersCounted
  <1>8. MutualExclusion' BY <1>1 DEF MutualExclusion
  <1>9. CallbacksBehindOwner' BY <1>4, <1>5 DEF CallbacksBehindOwner, CanLock
  <1>10. CallbacksStored' BY <1>1, <1>5 DEF CallbacksStored
  <1>11. NoLostWakeup' BY <1>4, <1>5 DEF NoLostWakeup, CanLock
  <1> QED BY <1>6, <1>7, <1>8, <1>9, <1>10, <1>11

\* Steps that leave the mutex alone and wake threads up or run a callback.
LEMMA InternalStep ==
    ASSUME IInv, NEW c \in Clients,
           RunCallback(c) \/ NotifyOne(c) \/ SpuriousWakeup(c)
    PROVE  IInv'
  <1> USE DEF IInv
  <1>1. /\ pc' \in [Clients -> PCs]
        /\ \A d \in Clients :
            /\ pc[d] \in {"grantS", "holdS"} <=> pc'[d] \in {"grantS", "holdS"}
            /\ pc[d] \in {"grantX", "holdX"} <=> pc'[d] \in {"grantX", "holdX"}
            /\ pc[d] = "asyncS" <=> pc'[d] = "asyncS"
            /\ pc[d] = "asyncX" <=> pc'[d] = "asyncX"
    BY DEF RunCallback, NotifyOne, SpuriousWakeup, WaitSet, At, Woken, TypeOK, PCs
  <1>2. /\ SharedOwners' = SharedOwners
        /\ ExclusiveOwners' = ExclusiveOwners
        /\ At({"asyncS"})' = At({"asyncS"})
        /\ At({"asyncX"})' = At({"asyncX"})
    BY <1>1 DEF SharedOwners, ExclusiveOwners, At
  <1>3. UNCHANGED <<mutex, made>> BY DEF RunCallback, NotifyOne, SpuriousWakeup
  <1>4. TypeOK' BY <1>1, <1>3 DEF TypeOK
  <1>5. OwnersCounted' BY <1>2, <1>3 DEF OwnersCounted
  <1>6. MutualExclusion' BY <1>2 DEF MutualExclusion
  <1>7. CallbacksBehindOwner' BY <1>3 DEF CallbacksBehindOwner, CanLock
  <1>8. CallbacksStored' BY <1>2, <1>3 DEF CallbacksStored
  <1>9. NoLostWakeup'
    <2>1. CASE RunCallback(c)
      BY <2>1 DEF RunCallback, NoLostWakeup, CanLock, WaitSet, At, TypeOK
    <2>2. CASE NotifyOne(c)
      <3>1. CASE WaitSet = {}
        <4>1. WaitSet' = {} BY <2>2, <3>1 DEF NotifyOne, WaitSet, At, TypeOK
        <4> QED BY <4>1 DEF NoLostWakeup
      <3>2. CASE WaitSet # {}
        <4>1. PICK d \in WaitSet : pc' = [pc EXCEPT ![c] = "idle", ![d] = Woken(d)]
          BY <2>2, <3>2 DEF NotifyOne
        <4>2. d # c BY <2>2 DEF NotifyOne, WaitSet, At
        <4>3. pc'[d] \in {"wokenX", "wokenS"} BY <4>1, <4>2 DEF Woken, WaitSet, At, TypeOK
        <4> QED BY <4>3 DEF NoLostWakeup, WaitSet, At
      <3> QED BY <3>1, <3>2
    <2>3. CASE SpuriousWakeup(c)
      <3>1. pc'[c] \in {"wokenX", "wokenS"}
        BY <2>3 DEF SpuriousWakeup, Woken, WaitSet, At, TypeOK
      <3> QED BY <3>1 DEF NoLostWakeup, At
    <2> QED BY <2>1, <2>2, <2>3
  <1> QED BY <1>4, <1>5, <1>6, <1>7, <1>8, <1>9

\* Who releases a mutex exclusively owned by it, or shared owned by it alone,
\* is the only owner.
LEMMA UnlockHandsOver ==
    ASSUME IInv, NEW c \in Clients, Unlock(c)
    PROVE  \E m \in MutexType : HandsOver(m, c)
  <1> USE DEF IInv
  <1>1. c \in ExclusiveOwners BY DEF Unlock, ExclusiveOwners, At
  <1>2. SharedOwners \cup ExclusiveOwners = {c}
    BY <1>1 DEF MutualExclusion, SharedOwners, ExclusiveOwners, At
  <1>3. mutex.sharedOwners = 0
    <2>1. c \notin SharedOwners BY DEF Unlock, SharedOwners, At
    <2>2. SharedOwners = {} BY <1>2, <2>1
    <2> QED BY <2>2, NoSharedOwner
  <1>4. PICK m : m = Unlocked(mutex) OBVIOUS
  <1>5. /\ m \in MutexType
        /\ m.sharedOwners = 0
        /\ ~m.exclusivelyOwned
        /\ m.sharedCallbacks = mutex.sharedCallbacks
        /\ m.exclusiveCallback = mutex.exclusiveCallback
    BY <1>3, <1>4 DEF Unlocked, TypeOK, MutexType
  <1>6. EnterNotify(m, c) /\ UNCHANGED made BY <1>4 DEF Unlock
  <1> QED BY <1>2, <1>5, <1>6 DEF HandsOver

\* The same for unlock_shared() by the last shared owner.
LEMMA UnlockSharedHandsOver ==
    ASSUME IInv, NEW c \in Clients, UnlockShared(c), UnlockedShared(mutex).sharedOwners = 0
    PROVE  \E m \in MutexType : HandsOver(m, c)
  <1> USE DEF IInv
  <1>1. c \in SharedOwners BY DEF UnlockShared, SharedOwners, At
  <1>2. ExclusiveOwners = {}
    BY <1>1 DEF MutualExclusion, UnlockShared, SharedOwners, ExclusiveOwners, At
  <1>3. mutex.sharedOwners = 1 /\ ~mutex.exclusivelyOwned
    BY <1>2 DEF UnlockedShared, OwnersCounted, TypeOK, MutexType
  <1>4. SharedOwners = {c}
    <2>1. Cardinality(SharedOwners) = 1 BY <1>3 DEF OwnersCounted
    <2>2. PICK x : SharedOwners = {x}
      BY <2>1, AtFinite, FS_Singleton DEF SharedOwners
    <2> QED BY <1>1, <2>2
  <1>5. PICK m : m = UnlockedShared(mutex) OBVIOUS
  <1>6. /\ m \in MutexType
        /\ m.sharedOwners = 0
        /\ ~m.exclusivelyOwned
        /\ m.sharedCallbacks = mutex.sharedCallbacks
        /\ m.exclusiveCallback = mutex.exclusiveCallback
    BY <1>3, <1>5 DEF UnlockedShared, TypeOK, MutexType
  <1>7. EnterNotify(m, c) /\ UNCHANGED made BY <1>5 DEF UnlockShared
  <1> QED BY <1>2, <1>4, <1>6, <1>7 DEF HandsOver

\* Every step preserves the invariant.
LEMMA StepIInv == IInv /\ [Next]_vars => IInv'
  <1> SUFFICES ASSUME IInv, [Next]_vars PROVE IInv' OBVIOUS
  <1>1. CASE UNCHANGED vars
    BY <1>1 DEF vars, IInv, TypeOK, OwnersCounted, MutualExclusion, CallbacksBehindOwner,
                CallbacksStored, NoLostWakeup, SharedOwners, ExclusiveOwners, WaitSet, At, CanLock
  <1>2. ASSUME NEW c \in Clients, NEW call, Request(c, call)
        PROVE  pc[c] = "idle" /\ made' \in [Clients -> 0..MaxRequests]
    BY <1>2, RequestsAssumption DEF Request, IInv, TypeOK
  <1>3. made \in [Clients -> 0..MaxRequests] BY DEF IInv, TypeOK
  <1>4. \A c \in Clients : pc = [pc EXCEPT ![c] = pc[c]] BY DEF IInv, TypeOK
  <1>5. ~CanLockShared(mutex) => ~CanLock(mutex) BY DEF CanLock, CanLockShared
  <1>6. ASSUME NEW c \in Clients, Lock(c) PROVE IInv'
    <2>1. CASE CanLock(mutex)
      BY <1>2, <1>6, <2>1, TakeExclusive DEF Lock, AcquireOrWait
    <2>2. CASE ~CanLock(mutex)
      BY <1>2, <1>6, <2>2, MoveUnowned DEF Lock, AcquireOrWait
    <2> QED BY <2>1, <2>2
  <1>7. ASSUME NEW c \in Clients, ResumeLock(c) PROVE IInv'
    <2>1. CASE CanLock(mutex)
      BY <1>3, <1>7, <2>1, TakeExclusive DEF ResumeLock, AcquireOrWait
    <2>2. CASE ~CanLock(mutex)
      BY <1>3, <1>7, <2>2, MoveUnowned DEF ResumeLock, AcquireOrWait
    <2> QED BY <2>1, <2>2
  <1>8. ASSUME NEW c \in Clients, TryLock(c) PROVE IInv'
    <2>1. CASE CanLock(mutex) BY <1>2, <1>8, <2>1, TakeExclusive DEF TryLock
    <2>2. CASE ~CanLock(mutex) BY <1>2, <1>4, <1>8, <2>2, MoveUnowned DEF TryLock
    <2> QED BY <2>1, <2>2
  <1>9. ASSUME NEW c \in Clients, LockAsync(c) PROVE IInv'
    <2>1. CASE CanLock(mutex) BY <1>2, <1>9, <2>1, TakeExclusive DEF LockAsync
    <2>2. CASE ~CanLock(mutex) BY <1>9, <2>2, StoreExclusive
    <2> QED BY <2>1, <2>2
  <1>10. ASSUME NEW c \in Clients, LockShared(c) PROVE IInv'
    <2>1. CASE CanLockShared(mutex)
      BY <1>2, <1>10, <2>1, TakeShared DEF LockShared, AcquireSharedOrWait
    <2>2. CASE ~CanLockShared(mutex)
      BY <1>2, <1>5, <1>10, <2>2, MoveUnowned DEF LockShared, AcquireSharedOrWait
    <2> QED BY <2>1, <2>2
  <1>11. ASSUME NEW c \in Clients, ResumeLockShared(c) PROVE IInv'
    <2>1. CASE CanLockShared(mutex)
      BY <1>3, <1>11, <2>1, TakeShared DEF ResumeLockShared, AcquireSharedOrWait
    <2>2. CASE ~CanLockShared(mutex)
      BY <1>3, <1>5, <1>11, <2>2, MoveUnowned DEF ResumeLockShared, AcquireSharedOrWait
    <2> QED BY <2>1, <2>2
  <1>12. ASSUME NEW c \in Clients, TryLockShared(c) PROVE IInv'
    <2>1. CASE CanLockShared(mutex) BY <1>2, <1>12, <2>1, TakeShared DEF TryLockShared
    <2>2. CASE ~CanLockShared(mutex)
      BY <1>2, <1>4, <1>5, <1>12, <2>2, MoveUnowned DEF TryLockShared
    <2> QED BY <2>1, <2>2
  <1>13. ASSUME NEW c \in Clients, LockSharedAsync(c) PROVE IInv'
    <2>1. CASE CanLockShared(mutex) BY <1>2, <1>13, <2>1, TakeShared DEF LockSharedAsync
    <2>2. CASE ~CanLockShared(mutex) BY <1>13, <2>2, StoreShared
    <2> QED BY <2>1, <2>2
  <1>14. ASSUME NEW c \in Clients, Unlock(c) PROVE IInv'
    BY <1>14, UnlockHandsOver, LastOwnerLeaves
  <1>15. ASSUME NEW c \in Clients, UnlockShared(c) PROVE IInv'
    <2>1. CASE UnlockedShared(mutex).sharedOwners # 0
      BY <1>15, <2>1, OtherOwnersRemain DEF UnlockShared
    <2>2. CASE UnlockedShared(mutex).sharedOwners = 0
      BY <1>15, <2>2, UnlockSharedHandsOver, LastOwnerLeaves
    <2> QED BY <2>1, <2>2
  <1> QED
    BY <1>1, <1>6, <1>7, <1>8, <1>9, <1>10, <1>11, <1>12, <1>13, <1>14, <1>15,
       InternalStep DEF Next

\* The inductive invariant holds in every reachable state.
LEMMA Invariance == Spec => []IInv
  BY InitIInv, StepIInv, PTL DEF Spec

-------------------------------------------------------------------------------

\* The mutex's own view of its owners and waiters is right in every state.
THEOREM AlwaysConsistent == Spec => []Consistent
  <1>1. IInv => Consistent BY DEF IInv, Consistent
  <1> QED BY <1>1, Invariance, PTL

\* Every field and every client keeps its type.
THEOREM TypeCorrect == Spec => []TypeOK
  <1>1. IInv => TypeOK BY DEF IInv
  <1> QED BY <1>1, Invariance, PTL

\* Readers and writers exclude each other, whatever mix of blocking,
\* non-blocking and asynchronous functions is used.
THEOREM Exclusion == Spec => []MutualExclusion
  <1>1. IInv => MutualExclusion BY DEF IInv
  <1> QED BY <1>1, Invariance, PTL

\* The counter and the flag of the mutex agree with its owners.
THEOREM Counting == Spec => []OwnersCounted
  <1>1. IInv => OwnersCounted BY DEF IInv
  <1> QED BY <1>1, Invariance, PTL

\* No callback is stranded in a free mutex.
THEOREM NoStrandedCallback == Spec => []CallbacksBehindOwner
  <1>1. IInv => CallbacksBehindOwner BY DEF IInv
  <1> QED BY <1>1, Invariance, PTL

\* No wakeup of a blocked thread is lost although notify_one() is called outside
\* the critical section and skipped when callbacks are invoked.
THEOREM WakeupsKept == Spec => []NoLostWakeup
  <1>1. IInv => NoLostWakeup BY DEF IInv
  <1> QED BY <1>1, Invariance, PTL

\* A lock() that had to wait never overtakes a stored callback.
THEOREM AsyncFirst == Spec => AsyncHandledFirst
  <1>1. ASSUME IInv, [Next]_vars, NEW c \in Clients, pc[c] = "wokenX", pc'[c] = "holdX"
        PROVE  mutex.sharedCallbacks = {} /\ mutex.exclusiveCallback = None
    <2>1. CanLock(mutex)
      <3>1. PICK d \in Clients : \/ ResumeLock(d) \/ ResumeLockShared(d) \/ Lock(d) \/ TryLock(d)
                                 \/ LockAsync(d) \/ LockShared(d) \/ TryLockShared(d)
                                 \/ LockSharedAsync(d) \/ RunCallback(d) \/ Unlock(d)
                                 \/ UnlockShared(d) \/ NotifyOne(d) \/ SpuriousWakeup(d)
        BY <1>1 DEF Next, vars
      <3>2. CASE d = c
        BY <1>1, <3>1, <3>2 DEF ResumeLock, ResumeLockShared, Lock, TryLock, LockAsync, LockShared,
             TryLockShared, LockSharedAsync, RunCallback, Unlock, UnlockShared, NotifyOne,
             SpuriousWakeup, Request, AcquireOrWait, WaitSet, At, IInv, TypeOK
      <3>3. CASE d # c
        <4>1. pc'[c] # "holdX"
          BY <1>1, <3>1, <3>3 DEF ResumeLock, ResumeLockShared, Lock, TryLock, LockAsync, LockShared,
               TryLockShared, LockSharedAsync, RunCallback, Unlock, UnlockShared, NotifyOne,
               SpuriousWakeup, Request, AcquireOrWait, AcquireSharedOrWait, EnterNotify, Woken,
               WaitSet, At, IInv, TypeOK
        <4> QED BY <1>1, <4>1
      <3> QED BY <3>2, <3>3
    <2> QED BY <1>1, <2>1 DEF IInv, CallbacksBehindOwner, CanLock
  <1>2. IInv /\ [Next]_vars =>
          [\A c \in Clients : pc[c] = "wokenX" /\ pc'[c] = "holdX" =>
              mutex.sharedCallbacks = {} /\ mutex.exclusiveCallback = None]_vars
    BY <1>1
  <1> QED BY <1>2, Invariance, PTL DEF Spec, AsyncHandledFirst

-------------------------------------------------------------------------------
(* Refinement of ReaderWriterLock. *)

\* The owners and stored callbacks named as in the abstract lock.
LEMMA Mapping ==
    ASSUME IInv
    PROVE  /\ CanLock(mutex) <=> RW!Owners = {}
           /\ CanLockShared(mutex) <=> ExclusiveOwners = {}
           /\ \A c \in Clients : pc[c] \in {"idle", "wokenX", "wokenS"} =>
                c \notin RW!Owners \cup RW!Queued
  <1>1. CanLock(mutex) <=> RW!Owners = {}
    BY NoSharedOwner DEF IInv, OwnersCounted, CanLock, RW!Owners
  <1>2. CanLockShared(mutex) <=> ExclusiveOwners = {}
    BY DEF IInv, OwnersCounted, CanLockShared
  <1>3. ASSUME NEW c \in Clients, pc[c] \in {"idle", "wokenX", "wokenS"}
        PROVE  c \notin RW!Owners \cup RW!Queued
    BY <1>3 DEF RW!Owners, RW!Queued, SharedOwners, ExclusiveOwners, At
  <1> QED BY <1>1, <1>2, <1>3

\* Taking the mutex exclusively is BecomeWriter.
LEMMA MapWriter ==
    ASSUME IInv, NEW c \in Clients, pc[c] \in {"idle", "wokenX"}, CanLock(mutex),
           NEW s \in {"holdX", "grantX"}, pc' = [pc EXCEPT ![c] = s]
    PROVE  RW!BecomeWriter(c)
  <1>1. SharedOwners = {} /\ ExclusiveOwners = {} BY FreeHasNoOwner DEF IInv
  <1>2. /\ ExclusiveOwners' = {c}
        /\ SharedOwners' = SharedOwners
        /\ At({"asyncS"})' = At({"asyncS"})
        /\ At({"asyncX"})' = At({"asyncX"})
    BY <1>1 DEF SharedOwners, ExclusiveOwners, At, IInv, TypeOK
  <1> QED BY <1>1, <1>2, Mapping DEF RW!BecomeWriter, RW!Owners

\* Taking it shared is BecomeReader.
LEMMA MapReader ==
    ASSUME IInv, NEW c \in Clients, pc[c] \in {"idle", "wokenS"}, CanLockShared(mutex),
           NEW s \in {"holdS", "grantS"}, pc' = [pc EXCEPT ![c] = s]
    PROVE  RW!BecomeReader(c)
  <1>1. /\ SharedOwners' = SharedOwners \cup {c}
        /\ ExclusiveOwners' = ExclusiveOwners
        /\ At({"asyncS"})' = At({"asyncS"})
        /\ At({"asyncX"})' = At({"asyncX"})
    BY DEF SharedOwners, ExclusiveOwners, At, IInv, TypeOK
  <1> QED BY <1>1, Mapping DEF RW!BecomeReader

\* Storing a callback is QueueWriter resp. QueueReader.
LEMMA MapQueue ==
    ASSUME IInv, NEW c \in Clients
    PROVE  /\ LockAsync(c) /\ ~CanLock(mutex) => RW!QueueWriter(c)
           /\ LockSharedAsync(c) /\ ~CanLockShared(mutex) => RW!QueueReader(c)
  <1>1. ASSUME LockAsync(c), ~CanLock(mutex) PROVE RW!QueueWriter(c)
    <2>1. pc[c] = "idle" BY <1>1 DEF LockAsync, Request
    <2>2. \A d \in Clients : d = mutex.exclusiveCallback <=> pc[d] = "asyncX"
      BY ClientsAssumption DEF IInv, CallbacksStored, At
    <2>3. \A d \in Clients : pc'[d] = IF d = c THEN "asyncX"
                                      ELSE IF pc[d] = "asyncX" THEN "dropped" ELSE pc[d]
      BY <1>1, <2>2 DEF LockAsync, IInv, TypeOK
    <2>4. /\ SharedOwners' = SharedOwners
          /\ ExclusiveOwners' = ExclusiveOwners
          /\ At({"asyncS"})' = At({"asyncS"})
          /\ At({"asyncX"})' = {c}
      BY <2>1, <2>3 DEF SharedOwners, ExclusiveOwners, At
    <2> QED BY <1>1, <2>1, <2>4, Mapping DEF RW!QueueWriter
  <1>2. ASSUME LockSharedAsync(c), ~CanLockShared(mutex) PROVE RW!QueueReader(c)
    <2>1. pc[c] = "idle" BY <1>2 DEF LockSharedAsync, Request
    <2>2. /\ SharedOwners' = SharedOwners
          /\ ExclusiveOwners' = ExclusiveOwners
          /\ At({"asyncS"})' = At({"asyncS"}) \cup {c}
          /\ At({"asyncX"})' = At({"asyncX"})
      BY <1>2, <2>1 DEF LockSharedAsync, SharedOwners, ExclusiveOwners, At, IInv, TypeOK
    <2> QED BY <1>2, <2>1, <2>2, Mapping DEF RW!QueueReader
  <1> QED BY <1>1, <1>2

\* Moves of clients that own nothing and have no callback stored are invisible.
LEMMA MapInvisible ==
    ASSUME IInv, NEW c \in Clients, pc[c] \in {"idle", "wokenX", "wokenS"},
           NEW s \in {"idle", "waitX", "waitS"}, pc' = [pc EXCEPT ![c] = s]
    PROVE  UNCHANGED RW!vars
  BY DEF RW!vars, SharedOwners, ExclusiveOwners, At, IInv, TypeOK

\* The last owner's notify() is HandOver.
LEMMA MapHandOver ==
    ASSUME IInv, NEW c \in Clients, NEW m \in MutexType, HandsOver(m, c)
    PROVE  RW!HandOver(c)
  <1> USE DEF IInv, HandsOver
  <1>1. /\ InvokedShared(m) = At({"asyncS"})
        /\ InvokedExclusive(m) = IF At({"asyncS"}) = {} THEN At({"asyncX"}) ELSE {}
    BY DEF CallbacksStored, InvokedShared, InvokedExclusive, CanLock
  <1>2. \A d \in Clients :
          /\ pc[d] \in {"holdX", "holdS", "grantX", "grantS"} <=> d = c
          /\ d \in At({"asyncS"}) <=> pc[d] = "asyncS"
          /\ d \in At({"asyncX"}) <=> pc[d] = "asyncX"
    BY DEF SharedOwners, ExclusiveOwners, At
  <1>3. \A d \in Clients :
          pc'[d] = IF pc[d] = "asyncS" THEN "grantS"
                   ELSE IF pc[d] = "asyncX" /\ At({"asyncS"}) = {} THEN "grantX"
                   ELSE IF d # c THEN pc[d]
                   ELSE IF NotifiesThread(m) THEN "notify" ELSE "idle"
    BY <1>1, <1>2 DEF EnterNotify
  <1>4. SharedOwners' = At({"asyncS"}) /\ At({"asyncS"})' = {}
    BY <1>2, <1>3 DEF SharedOwners, At
  <1>5. CASE At({"asyncS"}) = {}
    <2>1. ExclusiveOwners' = At({"asyncX"}) /\ At({"asyncX"})' = {}
      BY <1>2, <1>3, <1>5 DEF ExclusiveOwners, At
    <2> QED BY <1>4, <1>5, <2>1 DEF RW!HandOver, RW!Owners
  <1>6. CASE At({"asyncS"}) # {}
    <2>1. ExclusiveOwners' = {} /\ At({"asyncX"})' = At({"asyncX"})
      BY <1>2, <1>3, <1>6 DEF ExclusiveOwners, At
    <2> QED BY <1>4, <1>6, <2>1 DEF RW!HandOver, RW!Owners
  <1> QED BY <1>5, <1>6

\* A shared owner leaving others behind is Leave.
LEMMA MapLeave ==
    ASSUME IInv, NEW c \in Clients, UnlockShared(c), UnlockedShared(mutex).sharedOwners # 0
    PROVE  RW!Leave(c)
  <1>1. /\ c \in SharedOwners
        /\ SharedOwners' = SharedOwners \ {c}
        /\ ExclusiveOwners' = ExclusiveOwners
        /\ At({"asyncS"})' = At({"asyncS"})
        /\ At({"asyncX"})' = At({"asyncX"})
    BY DEF UnlockShared, SharedOwners, ExclusiveOwners, At, IInv, TypeOK
  <1>2. SharedOwners # {c}
    <2>1. SUFFICES ASSUME SharedOwners = {c} PROVE FALSE OBVIOUS
    <2>2. Cardinality(SharedOwners) = 1 BY <2>1, FS_Singleton
    <2> QED BY <2>2 DEF IInv, OwnersCounted, UnlockedShared, TypeOK, MutexType
  <1> QED BY <1>1, <1>2 DEF RW!Leave, RW!Owners

\* Waking up and running callbacks is invisible.
LEMMA MapInternal ==
    ASSUME IInv, NEW c \in Clients, RunCallback(c) \/ NotifyOne(c) \/ SpuriousWakeup(c)
    PROVE  UNCHANGED RW!vars
  <1>1. \A d \in Clients :
          /\ pc[d] \in {"grantS", "holdS"} <=> pc'[d] \in {"grantS", "holdS"}
          /\ pc[d] \in {"grantX", "holdX"} <=> pc'[d] \in {"grantX", "holdX"}
          /\ pc[d] = "asyncS" <=> pc'[d] = "asyncS"
          /\ pc[d] = "asyncX" <=> pc'[d] = "asyncX"
    BY DEF RunCallback, NotifyOne, SpuriousWakeup, WaitSet, At, Woken, IInv, TypeOK, PCs
  <1> QED BY <1>1 DEF RW!vars, SharedOwners, ExclusiveOwners, At

\* GlobalSharedMutex implements the abstract reader-writer lock.
THEOREM Refinement == Spec => ImplementsReaderWriterLock
  <1>1. Init => RW!Init
    BY DEF Init, RW!Init, SharedOwners, ExclusiveOwners, At
  <1>2. ASSUME IInv, [Next]_vars PROVE [RW!Next]_(RW!vars)
    <2>1. CASE UNCHANGED vars
      BY <2>1 DEF vars, RW!vars, SharedOwners, ExclusiveOwners, At
    <2>2. ASSUME NEW c \in Clients,
                 Lock(c) \/ TryLock(c) \/ LockAsync(c) \/ ResumeLock(c)
          PROVE  RW!BecomeWriter(c) \/ RW!QueueWriter(c) \/ UNCHANGED RW!vars
      <3>1. CASE CanLock(mutex)
        BY <1>2, <2>2, <3>1, MapWriter
           DEF Lock, TryLock, LockAsync, ResumeLock, AcquireOrWait, Request
      <3>2. CASE ~CanLock(mutex)
        <4>1. CASE LockAsync(c) BY <1>2, <3>2, <4>1, MapQueue
        <4>2. CASE TryLock(c)
          BY <1>2, <3>2, <4>2 DEF TryLock, RW!vars, SharedOwners, ExclusiveOwners, At
        <4>3. CASE Lock(c) \/ ResumeLock(c)
          BY <1>2, <3>2, <4>3, MapInvisible DEF Lock, ResumeLock, AcquireOrWait, Request
        <4> QED BY <2>2, <4>1, <4>2, <4>3
      <3> QED BY <3>1, <3>2
    <2>3. ASSUME NEW c \in Clients,
                 LockShared(c) \/ TryLockShared(c) \/ LockSharedAsync(c) \/ ResumeLockShared(c)
          PROVE  RW!BecomeReader(c) \/ RW!QueueReader(c) \/ UNCHANGED RW!vars
      <3>1. CASE CanLockShared(mutex)
        BY <1>2, <2>3, <3>1, MapReader
           DEF LockShared, TryLockShared, LockSharedAsync, ResumeLockShared, AcquireSharedOrWait, Request
      <3>2. CASE ~CanLockShared(mutex)
        <4>1. CASE LockSharedAsync(c) BY <1>2, <3>2, <4>1, MapQueue
        <4>2. CASE TryLockShared(c)
          BY <1>2, <3>2, <4>2 DEF TryLockShared, RW!vars, SharedOwners, ExclusiveOwners, At
        <4>3. CASE LockShared(c) \/ ResumeLockShared(c)
          BY <1>2, <3>2, <4>3, MapInvisible DEF LockShared, ResumeLockShared, AcquireSharedOrWait, Request
        <4> QED BY <2>3, <4>1, <4>2, <4>3
      <3> QED BY <3>1, <3>2
    <2>4. ASSUME NEW c \in Clients, Unlock(c) PROVE RW!HandOver(c)
      BY <1>2, <2>4, UnlockHandsOver, MapHandOver
    <2>5. ASSUME NEW c \in Clients, UnlockShared(c) PROVE RW!Leave(c) \/ RW!HandOver(c)
      <3>1. CASE UnlockedShared(mutex).sharedOwners # 0 BY <1>2, <2>5, <3>1, MapLeave
      <3>2. CASE UnlockedShared(mutex).sharedOwners = 0
        BY <1>2, <2>5, <3>2, UnlockSharedHandsOver, MapHandOver
      <3> QED BY <3>1, <3>2
    <2> QED BY <1>2, <2>1, <2>2, <2>3, <2>4, <2>5, MapInternal DEF Next, RW!Next
  <1> QED BY <1>1, <1>2, Invariance, PTL DEF Spec, ImplementsReaderWriterLock, RW!Spec
===============================================================================

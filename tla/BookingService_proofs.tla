------------------------ MODULE BookingService_proofs ------------------------
(***************************************************************************)
(* Proofs about BookingService for any bookings and requests, any expiry   *)
(* of the lock and any set of faults.                                      *)
(*                                                                         *)
(* Each property gets a strengthening of its own, kept by every step:      *)
(*   Lease    whoever is in the try block has its key in Redis,            *)
(*   Stages   what a request has not done before a point of its handler,   *)
(*   Backed   confirmed names, and results stored or about to be, are real,*)
(*   Stored   a reply is out only after its result was stored,             *)
(*   Replayed requests that come after a confirmed reply only replay it.   *)
(***************************************************************************)
EXTENDS BookingService, TLAPS

USE DEF redis, history

-----------------------------------------------------------------------------
(* Types.                                                                  *)

\* The initial state has the right types.
LEMMA InitType == Init => TypeOK
  BY NobodyAssumption, TimeAssumption DEF Init, TypeOK, Replies, PCs

\* Every step keeps the types: what the handler does, then everything else.
LEMMA NextType == TypeOK /\ [Next]_vars => TypeOK'
<1> SUFFICES ASSUME TypeOK, [Next]_vars PROVE TypeOK'
  OBVIOUS
<1> USE DEF TypeOK, Replies, PCs, Goto, Answer, Hit, LeaveTry, Note
<1>1. ASSUME NEW r \in Requests, Replay(r) PROVE TypeOK'
  BY <1>1 DEF Replay
<1>2. ASSUME NEW r \in Requests, Receive(r) PROVE TypeOK'
  BY <1>2 DEF Receive
<1>3. ASSUME NEW r \in Requests, AcquireLock(r) PROVE TypeOK'
  BY <1>3, TimeAssumption DEF AcquireLock
<1>4. ASSUME NEW r \in Requests, LockTaken(r) PROVE TypeOK'
  BY <1>4 DEF LockTaken
<1>5. ASSUME NEW r \in Requests, LockFails(r) PROVE TypeOK'
  <2>1. lock' \in [Bookings -> 0 .. LockTTL]
    BY <1>5, TimeAssumption DEF LockFails
  <2> QED  BY <2>1, <1>5 DEF LockFails
<1>6. ASSUME NEW r \in Requests, GiveUp(r) PROVE TypeOK'
  BY <1>6 DEF GiveUp
<1>7. ASSUME NEW r \in Requests, RejectVehicle(r) PROVE TypeOK'
  BY <1>7 DEF RejectVehicle
<1>8. ASSUME NEW r \in Requests, CallSupplier(r) PROVE TypeOK'
  BY <1>8 DEF CallSupplier
<1>9. ASSUME NEW r \in Requests, Confirm(r) PROVE TypeOK'
  BY <1>9 DEF Confirm
<1>10. ASSUME NEW r \in Requests, CallFails(r) PROVE TypeOK'
  BY <1>10 DEF CallFails
<1>11. ASSUME NEW r \in Requests, CallTimesOut(r) PROVE TypeOK'
  BY <1>11 DEF CallTimesOut
<1>12. ASSUME NEW r \in Requests, StoreResult(r) PROVE TypeOK'
  BY <1>12 DEF StoreResult
<1>13. ASSUME NEW r \in Requests, ReleaseLock(r) PROVE TypeOK'
  BY <1>13, TimeAssumption DEF ReleaseLock
<1>14. ASSUME NEW r \in Requests, SupplierDecides(r) PROVE TypeOK'
  BY <1>14 DEF SupplierDecides
<1>15. ASSUME NEW r \in Requests, CancelBooking(r) PROVE TypeOK'
  BY <1>15 DEF CancelBooking
<1>16. ASSUME NEW b \in Bookings, EvictResult(b) PROVE TypeOK'
  BY <1>16 DEF EvictResult
<1>17. ASSUME NEW b \in Bookings, EvictLock(b) PROVE TypeOK'
  BY <1>17, TimeAssumption DEF EvictLock
<1>18. ASSUME Tick PROVE TypeOK'
  <2>1. lock' \in [Bookings -> 0 .. LockTTL]
    BY <1>18, TimeAssumption DEF Tick
  <2> QED  BY <2>1, <1>18 DEF Tick
<1>19. ASSUME Crash PROVE TypeOK'
  BY <1>19 DEF Crash
<1>20. CASE UNCHANGED vars
  BY <1>20 DEF vars
<1> QED
  BY <1>1, <1>2, <1>3, <1>4, <1>5, <1>6, <1>7, <1>8, <1>9, <1>10, <1>11, <1>12, <1>13,
     <1>14, <1>15, <1>16, <1>17, <1>18, <1>19, <1>20
  DEF Next, Step, Gateway

\* All variables keep their types.
THEOREM TypeCorrect == Spec => []TypeOK
  BY InitType, NextType, PTL DEF Spec

-----------------------------------------------------------------------------
(* Mutual exclusion: the lease argument.  Whoever is inside the try block,   *)
(* for a booking whose lock did not go away under a holder (Guarded), has    *)
(* its key in Redis; so nobody else gets it.                                 *)

Lease ==
    /\ OneCallAtATime
    /\ \A r \in Requests : Guarded(r) => lock[booking[r]] > 0

\* A step that lets nobody into a try block and removes no lock.
LetsNobodyIn ==
    /\ UNCHANGED booking
    /\ \A b \in Bookings : lock[b] > 0 => lock'[b] > 0
    /\ \A r \in Requests : Guarded(r)' => Guarded(r)

\* Such a step keeps the lease.
LEMMA QuietLease == TypeOK /\ Lease /\ LetsNobodyIn => Lease'
  BY DEF Lease, LetsNobodyIn, OneCallAtATime, TypeOK

\* Every step keeps the lease: a key that goes away under its holder is noted.
LEMMA NextLease == TypeOK /\ Lease /\ [Next]_vars => Lease'
<1> SUFFICES ASSUME TypeOK, Lease, [Next]_vars PROVE Lease'
  OBVIOUS
<1> USE DEF Goto, Answer, LeaveTry
<1>1. ASSUME NEW r \in Requests,
             \/ Replay(r) \/ LockTaken(r) \/ GiveUp(r) \/ RejectVehicle(r) \/ CallSupplier(r)
             \/ CallFails(r) \/ CallTimesOut(r)
      PROVE  Lease'
  <2>1. LetsNobodyIn
    BY <1>1 DEF LetsNobodyIn, Guarded, Holding, TypeOK, Replay, LockTaken, GiveUp, RejectVehicle,
                CallSupplier, CallFails, CallTimesOut
  <2> QED  BY <2>1, QuietLease
<1>2. ASSUME NEW r \in Requests, Receive(r) \/ Confirm(r) \/ StoreResult(r) PROVE Lease'
  <2>1. LetsNobodyIn
    BY <1>2 DEF LetsNobodyIn, Guarded, Holding, TypeOK, Receive, Confirm, StoreResult, Keyed
  <2> QED  BY <2>1, QuietLease
<1>3. ASSUME NEW r \in Requests, AcquireLock(r) PROVE Lease'
  <2> DEFINE b == booking[r]
  <2>1. b \in Bookings /\ booking' = booking
    BY <1>3 DEF AcquireLock, TypeOK
  <2>2. \A s \in Requests : booking[s] = b => ~Guarded(s)
    BY <1>3 DEF AcquireLock, Lease
  <2>3. \A s \in Requests : Guarded(s)' => s = r \/ (Guarded(s) /\ s # r)
    BY <1>3 DEF AcquireLock, Guarded, Holding, TypeOK
  <2>4. OneCallAtATime'
    BY <2>1, <2>2, <2>3 DEF Lease, OneCallAtATime
  <2>5. \A c \in Bookings : c = b \/ lock[c] > 0 => lock'[c] > 0
    BY <1>3, <2>1, TimeAssumption DEF AcquireLock, TypeOK
  <2>6. \A s \in Requests : Guarded(s)' => lock'[booking'[s]] > 0
    BY <2>1, <2>3, <2>5 DEF Lease, TypeOK
  <2> QED  BY <2>4, <2>6 DEF Lease
<1>4. ASSUME NEW r \in Requests, LockFails(r) PROVE Lease'
  <2>1. LetsNobodyIn
    BY <1>4, TimeAssumption DEF LetsNobodyIn, LockFails, Guarded, Holding, TypeOK
  <2> QED  BY <2>1, QuietLease
<1>5. ASSUME NEW r \in Requests, ReleaseLock(r) PROVE Lease'
  <2>1. Guarded(r)' = FALSE /\ \A s \in Requests : Guarded(s)' => Guarded(s)
    BY <1>5 DEF ReleaseLock, Guarded, Holding, TypeOK
  <2>2. ASSUME NEW s \in Requests, Guarded(s)' PROVE lock'[booking[s]] = lock[booking[s]]
    <3>1. s # r /\ Guarded(s)
      BY <2>1, <2>2
    <3>2. booking[s] # booking[r]
      BY <1>5, <3>1 DEF Lease, OneCallAtATime, ReleaseLock, Guarded, Holding
    <3> QED  BY <1>5, <3>1, <3>2 DEF ReleaseLock, TypeOK
  <2> QED  BY <1>5, <2>1, <2>2 DEF ReleaseLock, Lease, OneCallAtATime
<1>6. ASSUME NEW r \in Requests, SupplierDecides(r) \/ CancelBooking(r) PROVE Lease'
  BY <1>6, QuietLease DEF SupplierDecides, CancelBooking, LetsNobodyIn, Guarded, Holding
<1>7. ASSUME NEW b \in Bookings, EvictResult(b) PROVE Lease'
  BY <1>7, QuietLease DEF EvictResult, LetsNobodyIn, Guarded, Holding
<1>8. ASSUME NEW b \in Bookings, EvictLock(b) PROVE Lease'
  <2>1. booking' = booking /\ \A s \in Requests : Guarded(s)' => Guarded(s) /\ booking[s] # b
    BY <1>8 DEF EvictLock, Guarded, Holding, Held
  <2>2. \A s \in Requests : booking[s] # b => lock'[booking[s]] = lock[booking[s]]
    BY <1>8 DEF EvictLock, TypeOK
  <2> QED  BY <2>1, <2>2 DEF Lease, OneCallAtATime
<1>9. ASSUME Tick PROVE Lease'
  <2>1. booking' = booking /\ \A s \in Requests : Guarded(s)' => Guarded(s)
    BY <1>9 DEF Tick, Guarded, Holding
  <2>2. ASSUME NEW s \in Requests, Guarded(s)' PROVE lock'[booking[s]] > 0
    <3>1. booking[s] \in Bookings /\ lock[booking[s]] \in Int
      BY TimeAssumption DEF TypeOK
    <3>2. lock[booking[s]] > 0
      BY <2>1, <2>2 DEF Lease
    <3>3. lock[booking[s]] # 1
      BY <1>9, <2>2, <3>1 DEF Tick, Guarded, Holding, Held
    <3> QED  BY <1>9, <3>1, <3>2, <3>3 DEF Tick
  <2> QED  BY <2>1, <2>2 DEF Lease, OneCallAtATime
<1>10. ASSUME Crash PROVE Lease'
  BY <1>10, QuietLease DEF Crash, LetsNobodyIn, Guarded, Holding, Underway, TypeOK
<1>11. CASE UNCHANGED vars
  BY <1>11, QuietLease DEF vars, LetsNobodyIn, Guarded, Holding
<1> QED
  BY <1>1, <1>2, <1>3, <1>4, <1>5, <1>6, <1>7, <1>8, <1>9, <1>10, <1>11 DEF Next, Step, Gateway

\* Two requests of one booking are never inside the try block at once, whatever
\* else fails, unless the booking's lock expired or was evicted under a holder:
\* before that DEL never deletes another's lock.
THEOREM MutualExclusion == Spec => []OneCallAtATime
<1>1. Init => Lease
  BY DEF Init, Lease, OneCallAtATime, Guarded, Holding
<1>2. Lease => OneCallAtATime
  BY DEF Lease
<1> QED  BY <1>1, <1>2, NextLease, TypeCorrect, PTL DEF Spec

-----------------------------------------------------------------------------
(* What a request has not done yet.                                        *)

Stages ==
    \A r \in Requests :
        /\ pc[r] \in {"new", "locking", "waiting", "lookup"} => supplier[r] = "none"
        /\ pc[r] \in {"new", "locking", "waiting", "lookup", "calling"} => reply[r] = "none"
        /\ reply[r] \in {"bad_request", "bad_gateway"} => supplier[r] = "none"

\* Every step keeps it: the supplier is called last, and the handler's errors
\* after that are answers of the supplier's, never a 400 or a 502.
LEMMA NextStages == TypeOK /\ Stages /\ [Next]_vars => Stages'
<1> SUFFICES ASSUME TypeOK, Stages, [Next]_vars PROVE Stages'
  OBVIOUS
<1> USE DEF Stages, TypeOK, Goto, Answer, LeaveTry, Hit, Note
<1>1. ASSUME NEW r \in Requests, Replay(r) \/ Receive(r) PROVE Stages'
  BY <1>1 DEF Replay, Receive
<1>2. ASSUME NEW r \in Requests, AcquireLock(r) \/ LockTaken(r) \/ LockFails(r) \/ GiveUp(r)
      PROVE  Stages'
  BY <1>2 DEF AcquireLock, LockTaken, LockFails, GiveUp
<1>3. ASSUME NEW r \in Requests, RejectVehicle(r) \/ CallSupplier(r) PROVE Stages'
  BY <1>3 DEF RejectVehicle, CallSupplier
<1>4. ASSUME NEW r \in Requests, Confirm(r) \/ CallFails(r) \/ CallTimesOut(r) PROVE Stages'
  BY <1>4 DEF Confirm, CallFails, CallTimesOut
<1>5. ASSUME NEW r \in Requests, StoreResult(r) \/ ReleaseLock(r) PROVE Stages'
  BY <1>5 DEF StoreResult, ReleaseLock
<1>6. ASSUME NEW r \in Requests, SupplierDecides(r) \/ CancelBooking(r) PROVE Stages'
  BY <1>6 DEF SupplierDecides, CancelBooking
<1>7. ASSUME NEW b \in Bookings, EvictResult(b) \/ EvictLock(b) PROVE Stages'
  BY <1>7 DEF EvictResult, EvictLock
<1>8. ASSUME Tick PROVE Stages'
  BY <1>8 DEF Tick
<1>9. ASSUME Crash PROVE Stages'
  BY <1>9 DEF Crash, Underway
<1>10. CASE UNCHANGED vars
  BY <1>10 DEF vars
<1> QED
  BY <1>1, <1>2, <1>3, <1>4, <1>5, <1>6, <1>7, <1>8, <1>9, <1>10 DEF Next, Step, Gateway

\* It holds in every reachable state.
LEMMA StagesInv == Spec => []Stages
<1>1. Init => Stages
  BY DEF Init, Stages
<1> QED  BY <1>1, NextStages, TypeCorrect, PTL DEF Spec

\* A 400 or a 502 is only given to a request that asked the supplier for nothing.
THEOREM ErrorsAreHarmless == Spec => []ErrorMeansUntouched
<1>1. Stages => ErrorMeansUntouched
  BY DEF Stages, ErrorMeansUntouched
<1> QED  BY <1>1, StagesInv, PTL

-----------------------------------------------------------------------------
(* Confirmed means reserved.                                               *)

\* A request about to store a result stores its own reservation.
Backed ==
    /\ ConfirmedIsReserved
    /\ \A r \in Requests : pc[r] = "storing" =>
          reply[r] = "confirmed" /\ named[r] = r /\ booking[r] \in Keyed

\* A step that leaves alone the names, the results and what is at the supplier.
NamesNothing ==
    /\ UNCHANGED <<booking, named, result, supplier, unfounded>>
    /\ \A r \in Requests :
          /\ reply'[r] = "confirmed" => reply[r] = "confirmed"
          /\ pc'[r] = "storing" => pc[r] = "storing" /\ reply'[r] = reply[r]

\* Such a step keeps the invariant.
LEMMA QuietBacked == Backed /\ NamesNothing => Backed'
  BY DEF Backed, NamesNothing, ConfirmedIsReserved, Backing

\* Every step keeps the invariant.
LEMMA NextBacked == TypeOK /\ Stages /\ Backed /\ [Next]_vars => Backed'
<1> SUFFICES ASSUME TypeOK, Stages, Backed, [Next]_vars PROVE Backed'
  OBVIOUS
<1> USE DEF Goto, Answer, LeaveTry, Hit, Note
<1>1. ASSUME NEW r \in Requests, Replay(r) PROVE Backed'
  BY <1>1, NobodyAssumption DEF Replay, Backed, ConfirmedIsReserved, Backing, TypeOK
<1>2. ASSUME NEW r \in Requests,
             \/ Receive(r) \/ AcquireLock(r) \/ LockTaken(r) \/ LockFails(r) \/ GiveUp(r)
             \/ RejectVehicle(r) \/ CallFails(r) \/ CallTimesOut(r)
      PROVE  Backed'
  <2>1. NamesNothing
    BY <1>2 DEF NamesNothing, TypeOK, Receive, AcquireLock, LockTaken, LockFails, GiveUp,
                RejectVehicle, CallFails, CallTimesOut
  <2> QED  BY <2>1, QuietBacked
<1>3. ASSUME NEW r \in Requests, CallSupplier(r) PROVE Backed'
  BY <1>3 DEF CallSupplier, Backed, ConfirmedIsReserved, Backing, Stages, TypeOK
<1>4. ASSUME NEW r \in Requests, Confirm(r) PROVE Backed'
  BY <1>4 DEF Confirm, Backed, ConfirmedIsReserved, Backing, TypeOK
<1>5. ASSUME NEW r \in Requests, StoreResult(r) PROVE Backed'
  <2>1. /\ reply[r] = "confirmed" /\ named[r] = r /\ booking[r] \in Keyed
        /\ Backing(r)
    BY <1>5 DEF StoreResult, Backed, ConfirmedIsReserved
  <2> QED  BY <1>5, <2>1 DEF StoreResult, Backed, ConfirmedIsReserved, Backing, TypeOK, Keyed
<1>6. ASSUME NEW r \in Requests, ReleaseLock(r) PROVE Backed'
  BY <1>6, QuietBacked DEF ReleaseLock, NamesNothing, TypeOK
<1>7. ASSUME NEW r \in Requests, SupplierDecides(r) \/ CancelBooking(r) PROVE Backed'
  <2>1. \A q \in Requests : supplier[q] \in {"reserved", "cancelled"}
                               => supplier'[q] \in {"reserved", "cancelled"}
    BY <1>7 DEF SupplierDecides, CancelBooking, TypeOK
  <2>2. UNCHANGED <<pc, booking, reply, named, result, unfounded>>
    BY <1>7 DEF SupplierDecides, CancelBooking
  <2>3. \A b \in Keyed : result[b] # Nobody => result[b] \in Requests
    BY DEF TypeOK, Keyed
  <2> QED  BY <2>1, <2>2, <2>3 DEF Backed, ConfirmedIsReserved, Backing
<1>8. ASSUME NEW b \in Bookings, EvictResult(b) PROVE Backed'
  BY <1>8 DEF EvictResult, Backed, ConfirmedIsReserved, Backing, TypeOK
<1>9. ASSUME NEW b \in Bookings, EvictLock(b) PROVE Backed'
  BY <1>9, QuietBacked DEF EvictLock, NamesNothing
<1>10. ASSUME Tick PROVE Backed'
  BY <1>10, QuietBacked DEF Tick, NamesNothing
<1>11. ASSUME Crash PROVE Backed'
  BY <1>11, QuietBacked DEF Crash, Underway, NamesNothing, TypeOK
<1>12. CASE UNCHANGED vars
  BY <1>12, QuietBacked DEF vars, NamesNothing
<1> QED
  BY <1>1, <1>2, <1>3, <1>4, <1>5, <1>6, <1>7, <1>8, <1>9, <1>10, <1>11, <1>12 DEF Next, Step, Gateway

\* Every confirmed reply and every stored result names a reservation the
\* supplier made for that booking, or that an adapter claimed without one,
\* whatever fails and however requests overlap.
THEOREM ConfirmedIsReal == Spec => []ConfirmedIsReserved
<1>1. Init => Backed
  BY DEF Init, Backed, ConfirmedIsReserved, Keyed
<1>2. Backed => ConfirmedIsReserved
  BY DEF Backed
<1> QED  BY <1>1, <1>2, NextBacked, StagesInv, TypeCorrect, PTL DEF Spec

-----------------------------------------------------------------------------
(* Retries are replayed.                                                   *)

\* Before a confirmed reply goes out its result is stored, and stays.
Stored ==
    \A r \in Requests :
        /\ reply[r] = "confirmed" /\ pc[r] \in {"releasing", "done"}
        /\ booking[r] \in Keyed /\ intact[booking[r]]
        => result[booking[r]] # Nobody

\* A request that came after a confirmed reply has done no more than replay it.
Replayed ==
    \A r \in Requests :
        /\ pc[r] = "new" => seen[r] = {}
        /\ \A s \in seen[r] :
              /\ s \in Requests /\ pc[s] = "done" /\ booking[s] = booking[r]
              /\ reply[s] = "confirmed" /\ booking[r] \in Keyed /\ intact[booking[r]]
                    => pc[r] = "done" /\ supplier[r] = "none"

\* Every step keeps the first: storing comes before releasing in the handler.
LEMMA NextStored == TypeOK /\ Stages /\ Stored /\ [Next]_vars => Stored'
<1> SUFFICES ASSUME TypeOK, Stages, Stored, [Next]_vars PROVE Stored'
  OBVIOUS
<1> USE DEF Stored, Stages, TypeOK, Goto, Answer, LeaveTry, Hit, Note
<1>1. ASSUME NEW r \in Requests, Replay(r) \/ Receive(r) PROVE Stored'
  BY <1>1 DEF Replay, Receive
<1>2. ASSUME NEW r \in Requests, AcquireLock(r) \/ LockTaken(r) \/ LockFails(r) \/ GiveUp(r)
      PROVE  Stored'
  BY <1>2 DEF AcquireLock, LockTaken, LockFails, GiveUp
<1>3. ASSUME NEW r \in Requests, RejectVehicle(r) \/ CallSupplier(r) PROVE Stored'
  BY <1>3 DEF RejectVehicle, CallSupplier
<1>4. ASSUME NEW r \in Requests, Confirm(r) \/ CallFails(r) \/ CallTimesOut(r) PROVE Stored'
  BY <1>4 DEF Confirm, CallFails, CallTimesOut
<1>5. ASSUME NEW r \in Requests, StoreResult(r) PROVE Stored'
  BY <1>5, NobodyAssumption DEF StoreResult
<1>6. ASSUME NEW r \in Requests, ReleaseLock(r) PROVE Stored'
  BY <1>6 DEF ReleaseLock
<1>7. ASSUME NEW r \in Requests, SupplierDecides(r) \/ CancelBooking(r) PROVE Stored'
  BY <1>7 DEF SupplierDecides, CancelBooking
<1>8. ASSUME NEW b \in Bookings, EvictResult(b) \/ EvictLock(b) PROVE Stored'
  BY <1>8 DEF EvictResult, EvictLock
<1>9. ASSUME Tick \/ UNCHANGED vars PROVE Stored'
  BY <1>9 DEF Tick, vars
<1>10. ASSUME Crash PROVE Stored'
  BY <1>10 DEF Crash, Underway
<1> QED
  BY <1>1, <1>2, <1>3, <1>4, <1>5, <1>6, <1>7, <1>8, <1>9, <1>10 DEF Next, Step, Gateway

\* Every step keeps the second: a request that comes after a confirmed reply
\* finds the result, by the first.
LEMMA NextReplayed == TypeOK /\ Stages /\ Stored /\ Replayed /\ [Next]_vars => Replayed'
<1> SUFFICES ASSUME TypeOK, Stages, Stored, Replayed, [Next]_vars PROVE Replayed'
  OBVIOUS
<1> USE DEF Replayed, Stages, TypeOK, Goto, Answer, LeaveTry, Hit, Note
<1>1. ASSUME NEW r \in Requests, Replay(r) PROVE Replayed'
  BY <1>1 DEF Replay
<1>2. ASSUME NEW r \in Requests, Receive(r) PROVE Replayed'
  <2>1. ASSUME NEW q \in Requests, q # r PROVE seen'[q] = seen[q] /\ pc'[q] = pc[q]
    BY <1>2, <2>1 DEF Receive
  <2>2. ASSUME NEW s \in seen'[r], reply[s] = "confirmed", booking[r] \in Keyed,
               intact'[booking[r]]
        PROVE  FALSE
    <3>1. s \in Requests /\ pc[s] = "done" /\ booking[s] = booking[r]
      BY <1>2, <2>2 DEF Receive
    <3>2. intact[booking[r]] /\ result[booking[r]] = Nobody
      BY <1>2, <2>2 DEF Receive, Keyed
    <3> QED  BY <2>2, <3>1, <3>2 DEF Stored
  <2> QED  BY <1>2, <2>1, <2>2 DEF Receive
<1>3. ASSUME NEW r \in Requests, AcquireLock(r) \/ LockTaken(r) \/ LockFails(r) \/ GiveUp(r)
      PROVE  Replayed'
  BY <1>3 DEF AcquireLock, LockTaken, LockFails, GiveUp
<1>4. ASSUME NEW r \in Requests, RejectVehicle(r) \/ CallSupplier(r) PROVE Replayed'
  BY <1>4 DEF RejectVehicle, CallSupplier
<1>5. ASSUME NEW r \in Requests, Confirm(r) \/ CallFails(r) \/ CallTimesOut(r) PROVE Replayed'
  BY <1>5 DEF Confirm, CallFails, CallTimesOut
<1>6. ASSUME NEW r \in Requests, StoreResult(r) \/ ReleaseLock(r) PROVE Replayed'
  BY <1>6 DEF StoreResult, ReleaseLock
<1>7. ASSUME NEW r \in Requests, SupplierDecides(r) \/ CancelBooking(r) PROVE Replayed'
  BY <1>7 DEF SupplierDecides, CancelBooking
<1>8. ASSUME NEW b \in Bookings, EvictResult(b) \/ EvictLock(b) PROVE Replayed'
  BY <1>8 DEF EvictResult, EvictLock
<1>9. ASSUME Tick \/ UNCHANGED vars PROVE Replayed'
  BY <1>9 DEF Tick, vars
<1>10. ASSUME Crash PROVE Replayed'
  BY <1>10 DEF Crash, Underway
<1> QED
  BY <1>1, <1>2, <1>3, <1>4, <1>5, <1>6, <1>7, <1>8, <1>9, <1>10 DEF Next, Step, Gateway

\* Once a confirmed reply is out and Redis keeps the result, no later request of
\* the booking reaches the supplier, with crashes, lock errors, transport errors
\* and any number of overlapping requests, and even with a lock that expires.
THEOREM RetriesAreReplayed == Spec => []RetryIsReplayed
<1>1. Init => Stored /\ Replayed
  BY DEF Init, Stored, Replayed
<1>2. Replayed => RetryIsReplayed
  BY DEF Replayed, RetryIsReplayed
<1> QED
  BY <1>1, <1>2, NextStored, NextReplayed, StagesInv, TypeCorrect, PTL DEF Spec

=============================================================================

------------------------ MODULE SearchService_proofs ------------------------
(***************************************************************************)
(* Proofs about SearchService for any searches, entries, suppliers and     *)
(* times, over a Redis that may fail or not.                               *)
(*                                                                         *)
(* An answer comes from the suppliers or from the cache, so what is to     *)
(* hold of answers is shown of every response there is, also of the one in *)
(* the cache, and of the tasks of the search that made it, which by then   *)
(* is done with them.                                                      *)
(***************************************************************************)
EXTENDS SearchService, TLAPS

-----------------------------------------------------------------------------
(* Types.                                                                  *)

\* The methods of a breaker give breakers, and let a task through in a state
\* that has a name.
LEMMA BreakersStay ==
  ASSUME NEW b \in Breaker
  PROVE  /\ Checked(b) \in Breaker
         /\ IsAvailable(b) => Checked(b).state \in LetThrough
         /\ Aged(b) \in Breaker
  BY RecoveryTimeoutAssumption
  DEF Breaker, CircuitState, Checked, IsAvailable, Rested, LetThrough, Aged

LEMMA OutcomesStay ==
  ASSUME NEW b \in Breaker
  PROVE  RecordSuccess(b) \in Breaker /\ RecordFailure(b) \in Breaker
<1>1. /\ b.state \in CircuitState
      /\ b.failures \in 0 .. FailureCap /\ b.quiet \in 0 .. RecoveryTimeout
  BY DEF Breaker
<1>2. OneMore(b.failures) \in 0 .. FailureCap
  BY <1>1, FailureCapAssumption DEF OneMore
<1> QED
  BY <1>1, <1>2, FailureCapAssumption, RecoveryTimeoutAssumption
  DEF RecordSuccess, RecordFailure, Breaker, CircuitState

\* The first state has the types.
LEMMA TypeInit == Init => TypeOK
  BY FailureCapAssumption, RecoveryTimeoutAssumption, TTLAssumption
  DEF Init, TypeOK, NewBreaker, Breaker, CircuitState, TaskStates, Running

\* Each response the code builds is one.
LEMMA IsResponse ==
  ASSUME NEW q \in Searches, NEW ok \in SUBSET Entries, NEW status \in SUBSET Entries,
         NEW timedOut \in BOOLEAN
  PROVE  [search |-> q, ok |-> ok, status |-> status, timedOut |-> timedOut] \in Response
  BY DEF Response

\* The entries in given states are entries.
LEMMA InIsEntries == ASSUME NEW q, NEW states PROVE In(q, states) \in SUBSET Entries
  BY DEF In

\* Every step keeps the types.
LEMMA TypeNext == TypeOK /\ [Next]_vars => TypeOK'
<1> SUFFICES ASSUME TypeOK, [Next]_vars PROVE TypeOK'  OBVIOUS
<1> USE DEF TypeOK
<1>1. ASSUME NEW q \in Searches, Reject(q) PROVE TypeOK'
  BY <1>1 DEF Reject, Goto, redis
<1>2. ASSUME NEW q \in Searches, Hit(q) PROVE TypeOK'
  BY <1>2 DEF Hit, Goto, redis
<1>3. ASSUME NEW q \in Searches, Dispatch(q) PROVE TypeOK'
  <2> PICK queried \in SUBSET Entries, unmapped \in SUBSET Entries :
        /\ task' = [task EXCEPT ![q] = [e \in Entries |->
             IF e \in queried THEN "pending" ELSE IF e \in unmapped THEN "unmapped" ELSE "none"]]
        /\ IF queried # {}
           THEN Goto(q, "gather") /\ UNCHANGED response
           ELSE /\ Goto(q, "done")
                /\ response' = [response EXCEPT ![q] =
                      [search |-> q, ok |-> {}, status |-> unmapped, timedOut |-> FALSE]]
    BY <1>3 DEF Dispatch
  <2>1. task' \in [Searches -> [Entries -> TaskStates]]
    BY DEF TaskStates, Running
  <2>2. [search |-> q, ok |-> {}, status |-> unmapped, timedOut |-> FALSE] \in Response
    BY IsResponse
  <2>3. /\ pc' \in [Searches -> {"new", "gather", "cancelling", "store", "done"}]
        /\ response' \in [Searches -> Response \cup {NoResponse}]
    BY <2>2 DEF Goto
  <2> QED  BY <1>3, <2>1, <2>3 DEF Dispatch, redis
<1>4. ASSUME NEW q \in Searches, NEW e \in Entries, Start(q, e) PROVE TypeOK'
  <2>1. Supplier[e] \in Suppliers  BY SupplierAssumption
  <2>2. breakers' \in [Suppliers -> Breaker]
    BY <1>4, <2>1, BreakersStay DEF Start, SetBreaker
  <2>3. (IF IsAvailable(breakers[Supplier[e]]) THEN Checked(breakers[Supplier[e]]).state ELSE "refused")
          \in TaskStates
    BY <2>1, BreakersStay DEF TaskStates, Running
  <2>4. task' \in [Searches -> [Entries -> TaskStates]]
    BY <1>4, <2>3 DEF Start, Becomes
  <2> QED  BY <1>4, <2>2, <2>4 DEF Start, redis
<1>5. ASSUME NEW q \in Searches, NEW e \in Entries, Succeed(q, e) PROVE TypeOK'
  <2>1. Supplier[e] \in Suppliers  BY SupplierAssumption
  <2>2. breakers' \in [Suppliers -> Breaker]
    BY <1>5, <2>1, OutcomesStay DEF Succeed, SetBreaker
  <2>3. task' \in [Searches -> [Entries -> TaskStates]]
    BY <1>5 DEF Succeed, Becomes, TaskStates
  <2> QED  BY <1>5, <2>2, <2>3 DEF Succeed, redis
<1>6. ASSUME NEW q \in Searches, NEW e \in Entries, Fail(q, e) PROVE TypeOK'
  <2>1. Supplier[e] \in Suppliers  BY SupplierAssumption
  <2>2. breakers' \in [Suppliers -> Breaker]
    BY <1>6, <2>1, OutcomesStay DEF Fail, SetBreaker
  <2>3. PICK state \in {"failed", "mute"} : task' = [task EXCEPT ![q][e] = state]
    BY <1>6 DEF Fail, Becomes
  <2>4. task' \in [Searches -> [Entries -> TaskStates]]
    BY <2>3 DEF TaskStates
  <2> QED  BY <1>6, <2>2, <2>4 DEF Fail, redis
<1>7. ASSUME NEW q \in Searches, NEW e \in Entries, Cancel(q, e) PROVE TypeOK'
  <2>1. task' \in [Searches -> [Entries -> TaskStates]]
    BY <1>7 DEF Cancel, Becomes, TaskStates
  <2> QED  BY <1>7, <2>1 DEF Cancel, redis
<1>8. ASSUME NEW q \in Searches, TimeOut(q) PROVE TypeOK'
  BY <1>8, TTLAssumption DEF TimeOut, Goto, redis
<1>9. ASSUME NEW q \in Searches, Merge(q) PROVE TypeOK'
  <2>1. [search |-> q, ok |-> In(q, {"ok"}), status |-> In(q, {"unmapped", "failed", "refused"}),
         timedOut |-> FALSE] \in Response
    BY IsResponse, InIsEntries
  <2> QED  BY <1>9, <2>1, TTLAssumption DEF Merge, Goto, redis
<1>10. ASSUME NEW q \in Searches, MergeNothing(q) PROVE TypeOK'
  <2>1. [search |-> q, ok |-> {}, status |-> In(q, {"unmapped"}), timedOut |-> TRUE] \in Response
    BY IsResponse, InIsEntries
  <2> QED  BY <1>10, <2>1 DEF MergeNothing, Goto, redis
<1>11. ASSUME NEW q \in Searches, NEW e \in Entries, StoreVehicles(q, e) PROVE TypeOK'
  <2>1. <<q, e>> \in Bundles  BY DEF Bundles
  <2>s. PICK v : v = <<q, e>>  OBVIOUS
  <2>v. vehicles' = [vehicles EXCEPT ![v] = VehicleTTL] \/ vehicles' = vehicles
    BY <1>11, <2>s DEF StoreVehicles
  <2>2. vehicles' \in [Bundles -> 0 .. VehicleTTL]
    BY <2>v, TTLAssumption
  <2>3. lost' \subseteq Bundles
    BY <1>11, <2>1 DEF StoreVehicles
  <2> QED  BY <1>11, <2>2, <2>3 DEF StoreVehicles
<1>12. ASSUME NEW q \in Searches, StoreResponse(q) PROVE TypeOK'
  <2>1. cached' \in [ttl : 0 .. SearchTTL, body : Response \cup {NoResponse}]
    BY <1>12, TTLAssumption DEF StoreResponse
  <2> QED  BY <1>12, <2>1 DEF StoreResponse, Goto
<1>13. CASE Tick
  <2>1. breakers' \in [Suppliers -> Breaker]
    BY <1>13, BreakersStay DEF Tick
  <2>2. age' \in [Searches -> 0 .. GlobalTimeout]
    BY <1>13, TTLAssumption DEF Tick
  <2>3. cached' \in [ttl : 0 .. SearchTTL, body : Response \cup {NoResponse}]
    BY <1>13, TTLAssumption DEF Tick, Down
  <2>4. vehicles' \in [Bundles -> 0 .. VehicleTTL]
    BY <1>13, TTLAssumption DEF Tick, Down
  <2> QED  BY <1>13, <2>1, <2>2, <2>3, <2>4 DEF Tick
<1>14. CASE Evict
  BY <1>14, TTLAssumption DEF Evict
<1>15. CASE UNCHANGED vars
  BY <1>15 DEF vars, redis
<1> QED
  BY <1>1, <1>2, <1>3, <1>4, <1>5, <1>6, <1>7, <1>8, <1>9, <1>10, <1>11, <1>12, <1>13, <1>14, <1>15
  DEF Next, Gateway

\* Every variable keeps its type, whatever suppliers, Redis and the clock do.
THEOREM TypeCorrect == Spec => []TypeOK
<1> QED  BY TypeInit, TypeNext, PTL DEF Spec

-----------------------------------------------------------------------------
(* Every response accounts for the entries its search looked at.           *)

Over == {"store", "done"}

\* What OnlyMuteIsSilent says of an answer, of any response r, given where the
\* searches are and what became of their tasks; and that its search is done
\* with them.
Sound(r, at, tasks) ==
    r # NoResponse =>
        /\ r \in Response
        /\ at[r.search] \in Over
        /\ ~r.timedOut =>
              LET t == tasks[r.search] IN
              /\ {e \in Entries : t[e] # "none"} \ (r.ok \cup r.status)
                    = {e \in Entries : t[e] \in {"mute"}}
              /\ r.ok \cap r.status = {}

\* Only a timeout cancels tasks.
NotYetCancelled(q, at, tasks) ==
    at[q] = "gather" => \A e \in Entries : tasks[q][e] # "cancelled"

IInv ==
    /\ TypeOK
    /\ \A q \in Searches : Sound(response[q], pc, task) /\ NotYetCancelled(q, pc, task)
    /\ Sound(cached.body, pc, task)

\* A response stays sound as long as searches that are over stay so and keep
\* their tasks.
LEMMA SoundStays ==
  ASSUME NEW r, NEW at1, NEW at2, NEW tasks1, NEW tasks2, Sound(r, at1, tasks1),
         \A q \in Searches : at1[q] \in Over => at2[q] \in Over /\ tasks2[q] = tasks1[q]
  PROVE  Sound(r, at2, tasks2)
<1> SUFFICES ASSUME r # NoResponse PROVE Sound(r, at2, tasks2)  BY DEF Sound
<1>1. r \in Response /\ at1[r.search] \in Over  BY DEF Sound
<1>2. r.search \in Searches  BY <1>1 DEF Response
<1> QED  BY <1>1, <1>2 DEF Sound

\* At first there is no response.
LEMMA IInvInit == Init => IInv
  BY TypeInit DEF Init, IInv, Sound, NotYetCancelled

\* A step that makes no response keeps the invariant, if it leaves the searches
\* that are over alone and cancels nothing of one that gathers.
LEMMA OldResponses ==
  ASSUME IInv, TypeOK',
         \A q \in Searches : pc[q] \in Over => pc'[q] \in Over /\ task'[q] = task[q],
         \A q \in Searches : NotYetCancelled(q, pc', task'),
         \A q \in Searches : response'[q] \in {response[q], cached.body},
         \/ cached'.body = cached.body
         \/ cached'.body = NoResponse
         \/ \E q \in Searches : cached'.body = response[q]
  PROVE  IInv'
<1>1. \A q \in Searches : Sound(response[q], pc', task')  BY SoundStays DEF IInv
<1>2. Sound(cached.body, pc', task')  BY SoundStays DEF IInv
<1>3. Sound(NoResponse, pc', task')  BY DEF Sound
<1>4. \A q \in Searches : Sound(response'[q], pc', task')  BY <1>1, <1>2
<1>5. Sound(cached'.body, pc', task')  BY <1>1, <1>2, <1>3
<1> QED  BY <1>4, <1>5 DEF IInv

\* So does one that gives the search q a sound response.
LEMMA NewResponse ==
  ASSUME IInv, TypeOK', NEW q \in Searches, NEW r, Sound(r, pc', task'),
         response' = [response EXCEPT ![q] = r], cached' = cached,
         \A p \in Searches : pc[p] \in Over => pc'[p] \in Over /\ task'[p] = task[p],
         \A p \in Searches : NotYetCancelled(p, pc', task')
  PROVE  IInv'
<1>1. \A p \in Searches : Sound(response[p], pc', task')  BY SoundStays DEF IInv
<1>2. Sound(cached.body, pc', task')  BY SoundStays DEF IInv
<1>3. \A p \in Searches : Sound(response'[p], pc', task')  BY <1>1 DEF IInv, TypeOK
<1> QED  BY <1>2, <1>3 DEF IInv

\* Taking a task on, or its outcome, while the search gathers.
LEMMA TaskStep ==
  ASSUME IInv, TypeOK', NEW q \in Searches, NEW e \in Entries, NEW state, state # "cancelled",
         pc[q] = "gather", Becomes(q, e, state), UNCHANGED <<pc, response, cached>>
  PROVE  IInv'
<1>1. \A p \in Searches : pc[p] \in Over => pc'[p] \in Over /\ task'[p] = task[p]
  BY DEF Becomes, IInv, TypeOK, Over
<1>2. \A p \in Searches : NotYetCancelled(p, pc', task')
  BY DEF Becomes, IInv, TypeOK, NotYetCancelled
<1> QED  BY <1>1, <1>2, OldResponses

\* Dispatch answers at once when nothing is to be asked.
LEMMA DispatchStep ==
  ASSUME IInv, TypeOK', NEW q \in Searches, Dispatch(q)
  PROVE  IInv'
<1> PICK queried \in SUBSET Entries, unmapped \in SUBSET Entries :
      /\ task' = [task EXCEPT ![q] = [e \in Entries |->
           IF e \in queried THEN "pending" ELSE IF e \in unmapped THEN "unmapped" ELSE "none"]]
      /\ IF queried # {}
         THEN Goto(q, "gather") /\ UNCHANGED response
         ELSE /\ Goto(q, "done")
              /\ response' = [response EXCEPT ![q] =
                    [search |-> q, ok |-> {}, status |-> unmapped, timedOut |-> FALSE]]
  BY DEF Dispatch
<1>0. pc[q] = "new" /\ cached' = cached /\ task \in [Searches -> [Entries -> TaskStates]]
      /\ pc \in [Searches -> {"new", "gather", "cancelling", "store", "done"}]
  BY DEF Dispatch, redis, IInv, TypeOK
<1>1. \A p \in Searches : pc[p] \in Over => pc'[p] \in Over /\ task'[p] = task[p]
  BY <1>0 DEF Goto, Over
<1>2. \A p \in Searches : NotYetCancelled(p, pc', task')
  BY <1>0 DEF Goto, NotYetCancelled, IInv
<1>3. CASE queried # {}
  BY <1>0, <1>1, <1>2, <1>3, OldResponses
<1>4. CASE queried = {}
  <2> DEFINE r == [search |-> q, ok |-> {}, status |-> unmapped, timedOut |-> FALSE]
  <2>1. r \in Response  BY IsResponse
  <2>2. pc'[q] \in Over  BY <1>0, <1>4 DEF Goto, Over
  <2>3. \A e \in Entries : task'[q][e] = IF e \in unmapped THEN "unmapped" ELSE "none"
    BY <1>0, <1>4
  <2>4. Sound(r, pc', task')  BY <2>1, <2>2, <2>3 DEF Sound
  <2>5. response' = [response EXCEPT ![q] = r]  BY <1>4
  <2> HIDE DEF r
  <2> QED  BY <1>0, <1>1, <1>2, <2>4, <2>5, NewResponse
<1> QED  BY <1>3, <1>4

\* Merge puts every entry in vehicles or in provider_status, or it is mute.
LEMMA MergeStep ==
  ASSUME IInv, TypeOK', NEW q \in Searches, Merge(q)
  PROVE  IInv'
<1> DEFINE ok == In(q, {"ok"})
           status == In(q, {"unmapped", "failed", "refused"})
           r == [search |-> q, ok |-> ok, status |-> status, timedOut |-> FALSE]
<1>0. /\ pc[q] = "gather" /\ task' = task /\ cached' = cached
      /\ response' = [response EXCEPT ![q] = r]
      /\ pc' = [pc EXCEPT ![q] = "store"]
      /\ pc \in [Searches -> {"new", "gather", "cancelling", "store", "done"}]
      /\ task \in [Searches -> [Entries -> TaskStates]]
  BY DEF Merge, Goto, redis, IInv, TypeOK
<1>1. \A p \in Searches : pc[p] \in Over => pc'[p] \in Over /\ task'[p] = task[p]
  BY <1>0 DEF Over
<1>2. \A p \in Searches : NotYetCancelled(p, pc', task')
  BY <1>0 DEF NotYetCancelled, IInv
<1>3. \A e \in Entries :
        task[q][e] \in {"none", "mute", "ok", "unmapped", "failed", "refused"}
  <2>1. \A e \in Entries : task[q][e] \in TaskStates /\ task[q][e] # "cancelled"
    BY <1>0 DEF NotYetCancelled, IInv
  <2>2. \A e \in Entries : task[q][e] \notin Running
    BY DEF Merge, In
  <2> QED  BY <2>1, <2>2 DEF TaskStates
<1>4. r \in Response  BY IsResponse, InIsEntries
<1>5. Sound(r, pc', task')
  <2>1. pc'[q] \in Over  BY <1>0 DEF Over
  <2>2. {e \in Entries : task[q][e] # "none"} \ (ok \cup status)
          = {e \in Entries : task[q][e] \in {"mute"}}
    BY <1>3 DEF In
  <2>3. ok \cap status = {}  BY DEF In
  <2>4. r.search = q /\ r.ok = ok /\ r.status = status  OBVIOUS
  <2> HIDE DEF r, ok, status
  <2> QED  BY <1>0, <1>4, <2>1, <2>2, <2>3, <2>4 DEF Sound
<1> HIDE DEF r
<1> QED  BY <1>0, <1>1, <1>2, <1>5, NewResponse

\* The response after a timeout only says so.
LEMMA MergeNothingStep ==
  ASSUME IInv, TypeOK', NEW q \in Searches, MergeNothing(q)
  PROVE  IInv'
<1> DEFINE r == [search |-> q, ok |-> {}, status |-> In(q, {"unmapped"}), timedOut |-> TRUE]
<1>0. /\ pc[q] = "cancelling" /\ task' = task /\ cached' = cached
      /\ response' = [response EXCEPT ![q] = r]
      /\ pc' = [pc EXCEPT ![q] = "store"]
      /\ pc \in [Searches -> {"new", "gather", "cancelling", "store", "done"}]
  BY DEF MergeNothing, Goto, redis, IInv, TypeOK
<1>1. \A p \in Searches : pc[p] \in Over => pc'[p] \in Over /\ task'[p] = task[p]
  BY <1>0 DEF Over
<1>2. \A p \in Searches : NotYetCancelled(p, pc', task')
  BY <1>0 DEF NotYetCancelled, IInv
<1>3. r \in Response  BY IsResponse, InIsEntries
<1>4. r.search = q /\ r.timedOut  OBVIOUS
<1> HIDE DEF r
<1>5. Sound(r, pc', task')  BY <1>0, <1>3, <1>4 DEF Sound, Over
<1> QED  BY <1>0, <1>1, <1>2, <1>5, NewResponse

\* Every step keeps the invariant.
LEMMA IInvNext == IInv /\ [Next]_vars => IInv'
<1> SUFFICES ASSUME IInv, [Next]_vars PROVE IInv'  OBVIOUS
<1>t. TypeOK'  BY TypeNext DEF IInv
<1>p. /\ pc \in [Searches -> {"new", "gather", "cancelling", "store", "done"}]
      /\ task \in [Searches -> [Entries -> TaskStates]]
      /\ response \in [Searches -> Response \cup {NoResponse}]
  BY DEF IInv, TypeOK
<1>c. \A q \in Searches : NotYetCancelled(q, pc, task)  BY DEF IInv
<1> DEFINE Same == UNCHANGED <<pc, task, response>> /\ cached'.body \in {cached.body, NoResponse}
<1>s. Same => IInv'
  BY <1>t, <1>c, OldResponses
<1>1. ASSUME NEW q \in Searches, Reject(q) PROVE IInv'
  <2>1. UNCHANGED <<task, response, cached>> /\ pc' = [pc EXCEPT ![q] = "done"]
    BY <1>1 DEF Reject, Goto, redis
  <2> QED  BY <1>t, <1>p, <1>c, <2>1, OldResponses DEF Over, NotYetCancelled
<1>2. ASSUME NEW q \in Searches, Hit(q) PROVE IInv'
  <2>1. /\ UNCHANGED <<task, cached>> /\ pc' = [pc EXCEPT ![q] = "done"]
        /\ response' = [response EXCEPT ![q] = cached.body]
    BY <1>2 DEF Hit, Goto, redis
  <2> QED  BY <1>t, <1>p, <1>c, <2>1, OldResponses DEF Over, NotYetCancelled
<1>3. ASSUME NEW q \in Searches, Dispatch(q) PROVE IInv'
  BY <1>t, <1>3, DispatchStep
<1>4. ASSUME NEW q \in Searches, NEW e \in Entries, Start(q, e) PROVE IInv'
  <2> DEFINE b == breakers[Supplier[e]]
             state == IF IsAvailable(b) THEN Checked(b).state ELSE "refused"
  <2>1. b \in Breaker  BY SupplierAssumption DEF IInv, TypeOK
  <2>2. state # "cancelled"  BY <2>1, BreakersStay DEF LetThrough
  <2>3. pc[q] = "gather" /\ Becomes(q, e, state) /\ UNCHANGED <<pc, response, cached>>
    BY <1>4 DEF Start, redis
  <2> HIDE DEF state
  <2> QED  BY <1>t, <2>2, <2>3, TaskStep
<1>5. ASSUME NEW q \in Searches, NEW e \in Entries, Succeed(q, e) PROVE IInv'
  <2>1. pc[q] = "gather" /\ Becomes(q, e, "ok") /\ UNCHANGED <<pc, response, cached>>
    BY <1>5 DEF Succeed, redis
  <2> QED  BY <1>t, <2>1, TaskStep
<1>6. ASSUME NEW q \in Searches, NEW e \in Entries, Fail(q, e) PROVE IInv'
  <2>1. /\ pc[q] = "gather" /\ UNCHANGED <<pc, response, cached>>
        /\ Becomes(q, e, "failed") \/ Becomes(q, e, "mute")
    BY <1>6 DEF Fail, redis
  <2>2. CASE Becomes(q, e, "failed")  BY <1>t, <2>1, <2>2, TaskStep
  <2>3. CASE Becomes(q, e, "mute")  BY <1>t, <2>1, <2>3, TaskStep
  <2> QED  BY <2>1, <2>2, <2>3
<1>7. ASSUME NEW q \in Searches, NEW e \in Entries, Cancel(q, e) PROVE IInv'
  <2>1. pc[q] = "cancelling" /\ Becomes(q, e, "cancelled") /\ UNCHANGED <<pc, response, cached>>
    BY <1>7 DEF Cancel, redis
  <2>2. \A p \in Searches : p # q => task'[p] = task[p]
    BY <1>p, <2>1 DEF Becomes
  <2> QED  BY <1>t, <1>c, <2>1, <2>2, OldResponses DEF Over, NotYetCancelled
<1>8. ASSUME NEW q \in Searches, TimeOut(q) PROVE IInv'
  <2>1. /\ UNCHANGED <<task, response, cached>> /\ pc' = [pc EXCEPT ![q] = "cancelling"]
        /\ pc[q] = "gather"
    BY <1>8 DEF TimeOut, Goto, redis
  <2> QED  BY <1>t, <1>p, <1>c, <2>1, OldResponses DEF Over, NotYetCancelled
<1>9. ASSUME NEW q \in Searches, Merge(q) PROVE IInv'
  BY <1>t, <1>9, MergeStep
<1>10. ASSUME NEW q \in Searches, MergeNothing(q) PROVE IInv'
  BY <1>t, <1>10, MergeNothingStep
<1>11. ASSUME NEW q \in Searches, NEW e \in Entries, StoreVehicles(q, e) PROVE IInv'
  <2>1. Same  BY <1>11 DEF StoreVehicles
  <2> QED  BY <1>s, <2>1
<1>12. ASSUME NEW q \in Searches, StoreResponse(q) PROVE IInv'
  <2>1. /\ UNCHANGED <<task, response>> /\ pc' = [pc EXCEPT ![q] = "done"]
        /\ cached'.body = cached.body \/ cached'.body = response[q]
    BY <1>12 DEF StoreResponse, Goto
  <2> QED  BY <1>t, <1>p, <1>c, <2>1, OldResponses DEF Over, NotYetCancelled
<1>13. CASE Tick
  <2>1. Same  BY <1>13 DEF Tick
  <2> QED  BY <1>s, <2>1
<1>14. CASE Evict
  <2>1. Same  BY <1>14 DEF Evict
  <2> QED  BY <1>s, <2>1
<1>15. CASE UNCHANGED vars
  <2>1. Same  BY <1>15 DEF vars, redis
  <2> QED  BY <1>s, <2>1
<1> QED
  BY <1>1, <1>2, <1>3, <1>4, <1>5, <1>6, <1>7, <1>8, <1>9, <1>10, <1>11, <1>12, <1>13, <1>14, <1>15
  DEF Next, Gateway

\* Every answer, from the suppliers or from the cache, accounts for every entry
\* its search looked at; only a failure without text is left out.
THEOREM OnlyMuteAreSilent == Spec => []OnlyMuteIsSilent
<1>1. IInv => OnlyMuteIsSilent
  <2> SUFFICES ASSUME IInv, NEW q \in Searches, Answered(q)
               PROVE  LET r == response[q] IN
                      /\ Looked(r) \ (r.ok \cup r.status) = In(r.search, {"mute"})
                      /\ r.ok \cap r.status = {}
    BY DEF OnlyMuteIsSilent
  <2>1. Sound(response[q], pc, task) /\ response[q] # NoResponse /\ ~response[q].timedOut
    BY DEF IInv, Answered
  <2> QED  BY <2>1 DEF Sound, Looked, In
<1> QED  BY <1>1, IInvInit, IInvNext, PTL DEF Spec

-----------------------------------------------------------------------------
(* The vehicles of every answer can be booked.                             *)

\* The vehicles of a response r that Redis has not lost will be there for
\* longer than left.
StayFor(r, left) ==
    \A e \in r.ok : <<r.search, e>> \notin lost => vehicles[<<r.search, e>>] >= left

\* No time passes while a search stores, so its vehicles are then as old as they
\* were when it wrote them; before it stores it has none.
Shelved(q) ==
    /\ pc[q] = "new" => response[q] = NoResponse
    /\ pc[q] \in {"new", "gather", "cancelling"} =>
          \A e \in Entries : vehicles[<<q, e>>] = 0
    /\ pc[q] = "store" =>
          /\ response[q] \in Response /\ response[q].search = q
          /\ \A e \in Entries : vehicles[<<q, e>>] \in {0, VehicleTTL}

\* The vehicles outlive the response in the cache.
BInv ==
    /\ TypeOK
    /\ \A q \in Searches : Shelved(q)
    /\ StayFor(cached.body, VehicleTTL - SearchTTL + cached.ttl)

\* At first Redis is empty.
LEMMA BInvInit == Init => BInv
  BY TypeInit DEF Init, BInv, Shelved, StayFor, NoResponse, Bundles

\* The entries of the cached response, and its search, are among those there are.
LEMMA CachedBundles ==
  ASSUME TypeOK, NEW e \in cached.body.ok
  PROVE  /\ cached.body \in Response /\ cached.body.search \in Searches
         /\ e \in Entries /\ <<cached.body.search, e>> \in Bundles
         /\ vehicles[<<cached.body.search, e>>] \in Nat
         /\ cached.ttl \in 0 .. SearchTTL
<1>1. cached.body \in Response \cup {NoResponse} /\ cached.ttl \in 0 .. SearchTTL
  BY DEF TypeOK
<1>2. cached.body # NoResponse  BY DEF NoResponse
<1>3. cached.body \in Response  BY <1>1, <1>2
<1>4. cached.body.search \in Searches /\ e \in Entries  BY <1>3 DEF Response
<1>5. <<cached.body.search, e>> \in Bundles  BY <1>4 DEF Bundles
<1> QED  BY <1>1, <1>3, <1>4, <1>5, TTLAssumption DEF TypeOK

\* A step of one search that leaves Redis alone.
LEMMA OffShelf ==
  ASSUME BInv, TypeOK', UNCHANGED <<cached, vehicles, lost>>, \A q \in Searches : Shelved(q)'
  PROVE  BInv'
  BY DEF BInv, StayFor

\* When all vehicles of a search are stored, they stay for VehicleTTL.
LEMMA AllStored ==
  ASSUME BInv, NEW q \in Searches, pc[q] = "store", Unstored(q) = {}
  PROVE  response[q].search = q /\ StayFor(response[q], VehicleTTL)
<1>1. /\ response[q] \in Response /\ response[q].search = q
      /\ \A e \in Entries : vehicles[<<q, e>>] \in {0, VehicleTTL}
  BY DEF BInv, Shelved
<1>2. response[q].ok \subseteq Entries  BY <1>1 DEF Response
<1>3. ASSUME NEW e \in response[q].ok, <<q, e>> \notin lost
      PROVE  vehicles[<<q, e>>] >= VehicleTTL
  <2>1. vehicles[<<q, e>>] # 0  BY <1>3 DEF Unstored
  <2> QED  BY <1>1, <1>2, <2>1, TTLAssumption
<1> QED  BY <1>1, <1>3 DEF StayFor

\* Storing vehicles: they are new, and others stay as they are.
LEMMA StoreVehiclesStep ==
  ASSUME BInv, TypeOK', NEW q \in Searches, NEW e \in Entries, StoreVehicles(q, e)
  PROVE  BInv'
<1> PICK v : v = <<q, e>>  OBVIOUS
<1>0. /\ pc[q] = "store" /\ UNCHANGED <<pc, response, cached>> /\ v \in Bundles
      /\ vehicles \in [Bundles -> 0 .. VehicleTTL]
      /\ vehicles' = [vehicles EXCEPT ![v] = VehicleTTL] \/ vehicles' = vehicles
      /\ lost \subseteq lost'
  BY DEF StoreVehicles, BInv, TypeOK, Bundles
<1>1. \A w \in Bundles : vehicles'[w] = vehicles[w] \/ (w = v /\ vehicles'[w] = VehicleTTL)
  BY <1>0
<1>2. ASSUME NEW p \in Searches PROVE Shelved(p)'
  <2>1. \A f \in Entries : <<p, f>> \in Bundles  BY DEF Bundles
  <2>2. p # q => \A f \in Entries : vehicles'[<<p, f>>] = vehicles[<<p, f>>]
    BY <1>1, <2>1
  <2>3. \A f \in Entries :
          vehicles'[<<p, f>>] = vehicles[<<p, f>>] \/ vehicles'[<<p, f>>] = VehicleTTL
    BY <1>1, <2>1
  <2>4. Shelved(p)  BY DEF BInv
  <2> QED  BY <1>0, <2>2, <2>3, <2>4 DEF Shelved
<1>3. ASSUME NEW f \in cached.body.ok, <<cached.body.search, f>> \notin lost'
      PROVE  vehicles'[<<cached.body.search, f>>] >= VehicleTTL - SearchTTL + cached.ttl
  <2> DEFINE w == <<cached.body.search, f>>
  <2>1. w \in Bundles /\ vehicles[w] \in Nat /\ cached.ttl \in 0 .. SearchTTL
    BY CachedBundles DEF BInv
  <2>2. vehicles[w] >= VehicleTTL - SearchTTL + cached.ttl
    BY <1>0, <1>3 DEF BInv, StayFor
  <2> HIDE DEF w
  <2>3. vehicles'[w] = vehicles[w] \/ vehicles'[w] = VehicleTTL  BY <1>1, <2>1
  <2>4. vehicles'[w] >= VehicleTTL - SearchTTL + cached.ttl
    BY <2>1, <2>2, <2>3, TTLAssumption
  <2> QED  BY <2>4 DEF w
<1> QED  BY <1>0, <1>2, <1>3 DEF BInv, StayFor

\* Caching the response, when everything in it is stored.
LEMMA StoreResponseStep ==
  ASSUME BInv, TypeOK', NEW q \in Searches, StoreResponse(q)
  PROVE  BInv'
<1>0. /\ pc[q] = "store" /\ Unstored(q) = {} /\ pc' = [pc EXCEPT ![q] = "done"]
      /\ UNCHANGED <<response, vehicles, lost>>
      /\ cached' = [ttl |-> SearchTTL, body |-> response[q]] \/ cached' = cached
      /\ pc \in [Searches -> {"new", "gather", "cancelling", "store", "done"}]
  BY DEF StoreResponse, Goto, BInv, TypeOK
<1>1. ASSUME NEW p \in Searches PROVE Shelved(p)'
  BY <1>0 DEF Shelved, BInv
<1>2. CASE cached' = cached
  BY <1>0, <1>1, <1>2, OffShelf
<1>3. CASE cached' = [ttl |-> SearchTTL, body |-> response[q]]
  <2>1. StayFor(response[q], VehicleTTL)  BY <1>0, AllStored
  <2>2. cached'.body = response[q] /\ VehicleTTL - SearchTTL + cached'.ttl = VehicleTTL
    BY <1>3, TTLAssumption
  <2> QED  BY <1>0, <1>1, <2>1, <2>2 DEF BInv, StayFor
<1> QED  BY <1>0, <1>2, <1>3

\* Time takes as much from the vehicles as from the response.
LEMMA TickStep ==
  ASSUME BInv, TypeOK', Tick
  PROVE  BInv'
<1>0. /\ UNCHANGED <<pc, response, lost>>
      /\ \A q \in Searches : pc[q] # "store"
      /\ cached' = [ttl |-> Down(cached.ttl),
                    body |-> IF cached.ttl > 1 THEN cached.body ELSE NoResponse]
      /\ vehicles' = [v \in Bundles |-> Down(vehicles[v])]
  BY DEF Tick
<1>1. ASSUME NEW p \in Searches PROVE Shelved(p)'
  <2>1. \A e \in Entries : <<p, e>> \in Bundles  BY DEF Bundles
  <2>2. \A e \in Entries : vehicles'[<<p, e>>] = Down(vehicles[<<p, e>>])  BY <1>0, <2>1
  <2>3. Shelved(p)  BY DEF BInv
  <2> QED  BY <1>0, <2>2, <2>3 DEF Shelved, Down
<1>2. ASSUME NEW e \in cached'.body.ok, <<cached'.body.search, e>> \notin lost'
      PROVE  vehicles'[<<cached'.body.search, e>>] >= VehicleTTL - SearchTTL + cached'.ttl
  <2>1. cached.ttl > 1  BY <1>0, <1>2 DEF NoResponse
  <2>2. cached'.body = cached.body  BY <1>0, <2>1
  <2>3. e \in cached.body.ok  BY <1>2, <2>2
  <2> DEFINE w == <<cached.body.search, e>>
  <2>4. w \in Bundles /\ vehicles[w] \in Nat /\ cached.ttl \in 0 .. SearchTTL
    BY <2>3, CachedBundles DEF BInv
  <2>5. vehicles[w] >= VehicleTTL - SearchTTL + cached.ttl
    BY <1>0, <1>2, <2>2, <2>3 DEF BInv, StayFor
  <2> HIDE DEF w
  <2>6. vehicles'[w] = vehicles[w] - 1
    <3>1. vehicles[w] > 0  BY <2>1, <2>4, <2>5, TTLAssumption
    <3> QED  BY <1>0, <2>4, <3>1 DEF Down
  <2>7. cached'.ttl = cached.ttl - 1  BY <1>0, <2>1, <2>4 DEF Down
  <2>8. vehicles'[w] >= VehicleTTL - SearchTTL + cached'.ttl
    BY <2>4, <2>5, <2>6, <2>7, TTLAssumption
  <2> QED  BY <2>2, <2>8 DEF w
<1> QED  BY <1>1, <1>2 DEF BInv, StayFor

\* What Redis throws out is lost, or is the response itself.
LEMMA EvictStep ==
  ASSUME BInv, TypeOK', Evict
  PROVE  BInv'
<1>0. UNCHANGED <<pc, response>>  BY DEF Evict
<1>1. CASE cached' = [ttl |-> 0, body |-> NoResponse] /\ UNCHANGED <<vehicles, lost>>
  <2>1. \A p \in Searches : Shelved(p)'  BY <1>0, <1>1 DEF BInv, Shelved
  <2> QED  BY <1>1, <2>1 DEF BInv, StayFor, NoResponse
<1>2. ASSUME NEW v \in Bundles, vehicles' = [vehicles EXCEPT ![v] = 0],
             lost' = lost \cup {v}, UNCHANGED cached
      PROVE  BInv'
  <2>1. \A w \in Bundles : vehicles'[w] = IF w = v THEN 0 ELSE vehicles[w]
    BY <1>2 DEF BInv, TypeOK
  <2>2. ASSUME NEW p \in Searches PROVE Shelved(p)'
    <3>1. \A e \in Entries : <<p, e>> \in Bundles  BY DEF Bundles
    <3>2. \A e \in Entries : vehicles'[<<p, e>>] \in {0, vehicles[<<p, e>>]}  BY <2>1, <3>1
    <3>3. Shelved(p)  BY DEF BInv
    <3> QED  BY <1>0, <3>2, <3>3 DEF Shelved
  <2>3. ASSUME NEW e \in cached.body.ok, <<cached.body.search, e>> \notin lost'
        PROVE  vehicles'[<<cached.body.search, e>>] >= VehicleTTL - SearchTTL + cached.ttl
    <3> DEFINE w == <<cached.body.search, e>>
    <3>1. w \in Bundles  BY CachedBundles DEF BInv
    <3>2. w # v /\ w \notin lost  BY <1>2, <2>3
    <3>3. vehicles[w] >= VehicleTTL - SearchTTL + cached.ttl
      BY <2>3, <3>2 DEF BInv, StayFor
    <3> HIDE DEF w
    <3>4. vehicles'[w] >= VehicleTTL - SearchTTL + cached.ttl  BY <2>1, <3>1, <3>2, <3>3
    <3> QED  BY <3>4 DEF w
  <2> QED  BY <1>2, <2>2, <2>3 DEF BInv, StayFor
<1> QED  BY <1>1, <1>2 DEF Evict

\* Every step keeps the invariant.
LEMMA BInvNext == BInv /\ [Next]_vars => BInv'
<1> SUFFICES ASSUME BInv, [Next]_vars PROVE BInv'  OBVIOUS
<1>t. TypeOK'  BY TypeNext DEF BInv
<1>p. /\ pc \in [Searches -> {"new", "gather", "cancelling", "store", "done"}]
      /\ response \in [Searches -> Response \cup {NoResponse}]
  BY DEF BInv, TypeOK
<1>s. \A q \in Searches : Shelved(q)  BY DEF BInv
<1>1. ASSUME NEW q \in Searches, Reject(q) PROVE BInv'
  <2>1. UNCHANGED <<response, cached, vehicles, lost>> /\ pc' = [pc EXCEPT ![q] = "done"]
    BY <1>1 DEF Reject, Goto, redis
  <2>2. \A p \in Searches : Shelved(p)'  BY <1>p, <1>s, <2>1 DEF Shelved
  <2> QED  BY <1>t, <2>1, <2>2, OffShelf
<1>2. ASSUME NEW q \in Searches, Hit(q) PROVE BInv'
  <2>1. /\ UNCHANGED <<cached, vehicles, lost>> /\ pc' = [pc EXCEPT ![q] = "done"]
        /\ response' = [response EXCEPT ![q] = cached.body]
    BY <1>2 DEF Hit, Goto, redis
  <2>2. \A p \in Searches : Shelved(p)'  BY <1>p, <1>s, <2>1 DEF Shelved
  <2> QED  BY <1>t, <2>1, <2>2, OffShelf
<1>3. ASSUME NEW q \in Searches, Dispatch(q) PROVE BInv'
  <2>1. /\ UNCHANGED <<cached, vehicles, lost>> /\ pc[q] = "new"
        /\ pc' = [pc EXCEPT ![q] = "gather"] \/ pc' = [pc EXCEPT ![q] = "done"]
        /\ \A p \in Searches : p # q => response'[p] = response[p]
    BY <1>3, <1>p DEF Dispatch, Goto, redis
  <2>2. \A p \in Searches : Shelved(p)'
    <3> SUFFICES ASSUME NEW p \in Searches PROVE Shelved(p)'  OBVIOUS
    <3>1. CASE p = q  BY <1>p, <1>s, <2>1, <3>1 DEF Shelved
    <3>2. CASE p # q  BY <1>p, <1>s, <2>1, <3>2 DEF Shelved
    <3> QED  BY <3>1, <3>2
  <2> QED  BY <1>t, <2>1, <2>2, OffShelf
<1>4. ASSUME UNCHANGED <<pc, response, cached, vehicles, lost>> PROVE BInv'
  <2>1. \A p \in Searches : Shelved(p)'  BY <1>4, <1>s DEF Shelved
  <2> QED  BY <1>t, <1>4, <2>1, OffShelf
<1>5. ASSUME NEW q \in Searches, NEW e \in Entries,
             Start(q, e) \/ Succeed(q, e) \/ Fail(q, e) \/ Cancel(q, e)
      PROVE  BInv'
  <2>1. UNCHANGED <<pc, response, cached, vehicles, lost>>
    BY <1>5 DEF Start, Succeed, Fail, Cancel, redis
  <2> QED  BY <1>4, <2>1
<1>6. ASSUME UNCHANGED vars PROVE BInv'
  BY <1>4, <1>6 DEF vars, redis
<1>7. ASSUME NEW q \in Searches, TimeOut(q) PROVE BInv'
  <2>1. /\ UNCHANGED <<response, cached, vehicles, lost>> /\ pc[q] = "gather"
        /\ pc' = [pc EXCEPT ![q] = "cancelling"]
    BY <1>7 DEF TimeOut, Goto, redis
  <2>2. \A p \in Searches : Shelved(p)'  BY <1>p, <1>s, <2>1 DEF Shelved
  <2> QED  BY <1>t, <2>1, <2>2, OffShelf
<1>8. ASSUME NEW q \in Searches, NEW r \in Response, r.search = q,
             pc[q] \in {"gather", "cancelling"}, pc' = [pc EXCEPT ![q] = "store"],
             response' = [response EXCEPT ![q] = r], UNCHANGED <<cached, vehicles, lost>>
      PROVE  BInv'
  <2>1. \A p \in Searches : Shelved(p)'
    <3> SUFFICES ASSUME NEW p \in Searches PROVE Shelved(p)'  OBVIOUS
    <3>1. CASE p = q  BY <1>p, <1>s, <1>8, <3>1 DEF Shelved
    <3>2. CASE p # q  BY <1>p, <1>s, <1>8, <3>2 DEF Shelved
    <3> QED  BY <3>1, <3>2
  <2> QED  BY <1>t, <1>8, <2>1, OffShelf
<1>9. ASSUME NEW q \in Searches, Merge(q) PROVE BInv'
  <2> DEFINE r == [search |-> q, ok |-> In(q, {"ok"}),
                   status |-> In(q, {"unmapped", "failed", "refused"}), timedOut |-> FALSE]
  <2>1. r \in Response /\ r.search = q  BY IsResponse, InIsEntries
  <2>2. /\ pc[q] \in {"gather", "cancelling"} /\ pc' = [pc EXCEPT ![q] = "store"]
        /\ response' = [response EXCEPT ![q] = r] /\ UNCHANGED <<cached, vehicles, lost>>
    BY <1>9 DEF Merge, Goto, redis
  <2> HIDE DEF r
  <2> QED  BY <1>8, <2>1, <2>2
<1>10. ASSUME NEW q \in Searches, MergeNothing(q) PROVE BInv'
  <2> DEFINE r == [search |-> q, ok |-> {}, status |-> In(q, {"unmapped"}), timedOut |-> TRUE]
  <2>1. r \in Response /\ r.search = q  BY IsResponse, InIsEntries
  <2>2. /\ pc[q] \in {"gather", "cancelling"} /\ pc' = [pc EXCEPT ![q] = "store"]
        /\ response' = [response EXCEPT ![q] = r] /\ UNCHANGED <<cached, vehicles, lost>>
    BY <1>10 DEF MergeNothing, Goto, redis
  <2> HIDE DEF r
  <2> QED  BY <1>8, <2>1, <2>2
<1> QED
  BY <1>t, <1>1, <1>2, <1>3, <1>5, <1>6, <1>7, <1>9, <1>10, StoreVehiclesStep,
     StoreResponseStep, TickStep, EvictStep
  DEF Next, Gateway

\* The vehicles of an answer are in Redis for VehicleTTL - SearchTTL more,
\* unless Redis has lost them.
BookableStep ==
    \A q \in Searches : pc[q] # "done" /\ pc'[q] = "done" =>
        \A e \in response'[q].ok :
            LET v == <<response'[q].search, e>> IN
            v \notin lost' => vehicles'[v] > VehicleTTL - SearchTTL

LEMMA StepIsBookable == BInv /\ [Next]_vars => BookableStep
<1> SUFFICES ASSUME BInv, [Next]_vars, NEW q \in Searches, pc[q] # "done", pc'[q] = "done",
                    NEW e \in response'[q].ok, <<response'[q].search, e>> \notin lost'
             PROVE  vehicles'[<<response'[q].search, e>>] > VehicleTTL - SearchTTL
  BY DEF BookableStep
<1>p. /\ pc \in [Searches -> {"new", "gather", "cancelling", "store", "done"}]
      /\ response \in [Searches -> Response \cup {NoResponse}]
  BY DEF BInv, TypeOK
<1>1. Reject(q) \/ Hit(q) \/ Dispatch(q) \/ StoreResponse(q)
  <2>1. pc # pc'  OBVIOUS
  <2>2. ASSUME NEW p \in Searches, Gateway(p)
        PROVE  Reject(p) \/ Hit(p) \/ Dispatch(p) \/ TimeOut(p) \/ Merge(p)
                 \/ MergeNothing(p) \/ StoreResponse(p)
    BY <2>1, <2>2 DEF Gateway, Start, Cancel, StoreVehicles
  <2>3. \E p \in Searches : Gateway(p)
    BY <2>1 DEF Next, Succeed, Fail, Tick, Evict, vars
  <2>4. PICK p \in Searches : Gateway(p)  BY <2>3
  <2>5. ASSUME NEW where, Goto(p, where)  PROVE p = q /\ where = "done"
    BY <1>p, <2>5 DEF Goto
  <2>6. ~TimeOut(p)  BY <2>5 DEF TimeOut
  <2>7. ~Merge(p) /\ ~MergeNothing(p)  BY <2>5 DEF Merge, MergeNothing
  <2>8. CASE Reject(p)  BY <2>5, <2>8 DEF Reject
  <2>9. CASE Hit(p)  BY <2>5, <2>9 DEF Hit
  <2>10. CASE Dispatch(p)
    <3>1. p = q  BY <2>5, <2>10 DEF Dispatch
    <3> QED  BY <2>10, <3>1
  <2>11. CASE StoreResponse(p)  BY <2>5, <2>11 DEF StoreResponse
  <2> QED  BY <2>2, <2>4, <2>6, <2>7, <2>8, <2>9, <2>10, <2>11
<1>2. CASE Reject(q)
  <2>1. response'[q] = NoResponse  BY <1>2 DEF Reject, BInv, Shelved
  <2> QED  BY <2>1 DEF NoResponse
<1>3. CASE Hit(q)
  <2>1. response'[q] = cached.body /\ cached.ttl > 0 /\ UNCHANGED <<vehicles, lost>>
    BY <1>3, <1>p DEF Hit, redis
  <2>2. e \in cached.body.ok  BY <2>1
  <2> DEFINE v == <<cached.body.search, e>>
  <2>3. v \in Bundles /\ vehicles[v] \in Nat /\ cached.ttl \in 0 .. SearchTTL
    BY <2>2, CachedBundles DEF BInv
  <2>4. vehicles[v] >= VehicleTTL - SearchTTL + cached.ttl
    BY <2>1, <2>2 DEF BInv, StayFor
  <2> HIDE DEF v
  <2>5. vehicles[v] > VehicleTTL - SearchTTL  BY <2>1, <2>3, <2>4, TTLAssumption
  <2> QED  BY <2>1, <2>5 DEF v
<1>4. CASE Dispatch(q)
  <2>1. response'[q].ok = {}
    BY <1>4, <1>p DEF Dispatch, Goto, BInv, Shelved, NoResponse
  <2> QED  BY <2>1
<1>5. CASE StoreResponse(q)
  <2>1. pc[q] = "store" /\ Unstored(q) = {} /\ UNCHANGED <<response, vehicles, lost>>
    BY <1>5 DEF StoreResponse
  <2>2. StayFor(response[q], VehicleTTL) /\ response[q].search = q  BY <2>1, AllStored
  <2>3. response[q].ok \subseteq Entries
    BY <2>1 DEF BInv, Shelved, Response
  <2>4. vehicles[<<q, e>>] >= VehicleTTL /\ <<q, e>> \in Bundles
    BY <2>1, <2>2, <2>3 DEF StayFor, Bundles
  <2>5. \A v \in Bundles : vehicles[v] \in Nat  BY TTLAssumption DEF BInv, TypeOK
  <2>6. \A n \in Nat : n >= VehicleTTL => n > VehicleTTL - SearchTTL  BY TTLAssumption
  <2>7. vehicles[<<q, e>>] > VehicleTTL - SearchTTL  BY <2>4, <2>5, <2>6
  <2> QED  BY <2>1, <2>2, <2>7
<1> QED  BY <1>1, <1>2, <1>3, <1>4, <1>5

\* Whenever a search is answered, what it offers can be booked under the
\* answer's search id for VehicleTTL - SearchTTL more, Redis permitting.
THEOREM Bookable == Spec => AnswersAreBookable
<1>1. BInv /\ [Next]_vars => BookableStep  BY StepIsBookable
<1>2. BInv /\ UNCHANGED vars => BookableStep  BY <1>1
<1> QED  BY <1>1, <1>2, BInvInit, BInvNext, PTL DEF Spec, AnswersAreBookable, BookableStep

-----------------------------------------------------------------------------
(* The breakers of the suppliers.                                          *)

\* The calls of a supplier, as its breaker sees them.
CallOf(s) == [v \in TasksOf(s) |-> CallState(task[v[1]][v[2]])]

\* A search that has not begun has no tasks.
Untouched == \A q \in Searches : pc[q] = "new" => \A e \in Entries : task[q][e] = "none"

LEMMA UntouchedNext == TypeOK /\ Untouched /\ [Next]_vars => Untouched'
<1> SUFFICES ASSUME TypeOK, Untouched, [Next]_vars PROVE Untouched'  OBVIOUS
<1>t. /\ pc \in [Searches -> {"new", "gather", "cancelling", "store", "done"}]
      /\ task \in [Searches -> [Entries -> TaskStates]]
  BY DEF TypeOK
<1> USE DEF Untouched, Goto, Becomes
<1>1. ASSUME NEW q \in Searches, Reject(q) PROVE Untouched'  BY <1>t, <1>1 DEF Reject
<1>2. ASSUME NEW q \in Searches, Hit(q) PROVE Untouched'  BY <1>t, <1>2 DEF Hit
<1>3. ASSUME NEW q \in Searches, Dispatch(q) PROVE Untouched'
  <2>1. pc' = [pc EXCEPT ![q] = "gather"] \/ pc' = [pc EXCEPT ![q] = "done"]
    BY <1>3 DEF Dispatch
  <2>2. \A p \in Searches \ {q} : task'[p] = task[p]  BY <1>t, <1>3 DEF Dispatch
  <2> QED  BY <1>t, <2>1, <2>2
<1>4. ASSUME NEW q \in Searches, TimeOut(q) PROVE Untouched'  BY <1>t, <1>4 DEF TimeOut
<1>5. ASSUME NEW q \in Searches, Merge(q) PROVE Untouched'  BY <1>t, <1>5 DEF Merge
<1>6. ASSUME NEW q \in Searches, MergeNothing(q) PROVE Untouched'  BY <1>t, <1>6 DEF MergeNothing
<1>7. ASSUME NEW q \in Searches, StoreResponse(q) PROVE Untouched'  BY <1>t, <1>7 DEF StoreResponse
<1>8. ASSUME NEW q \in Searches, NEW e \in Entries, Start(q, e) PROVE Untouched'
  BY <1>t, <1>8 DEF Start
<1>9. ASSUME NEW q \in Searches, NEW e \in Entries, Cancel(q, e) PROVE Untouched'
  BY <1>t, <1>9 DEF Cancel
<1>10. ASSUME NEW q \in Searches, NEW e \in Entries, StoreVehicles(q, e) PROVE Untouched'
  BY <1>10 DEF StoreVehicles
<1>11. ASSUME NEW q \in Searches, NEW e \in Entries, Succeed(q, e) PROVE Untouched'
  BY <1>t, <1>11 DEF Succeed
<1>12. ASSUME NEW q \in Searches, NEW e \in Entries, Fail(q, e) PROVE Untouched'
  BY <1>t, <1>12 DEF Fail
<1>13. CASE Tick  BY <1>13 DEF Tick
<1>14. CASE Evict  BY <1>14 DEF Evict
<1>15. CASE UNCHANGED vars  BY <1>15 DEF vars
<1> QED
  BY <1>1, <1>2, <1>3, <1>4, <1>5, <1>6, <1>7, <1>8, <1>9, <1>10, <1>11, <1>12, <1>13, <1>14, <1>15
  DEF Next, Gateway

\* A step of a breaker, or of none of its callers.
BreakerStep(s) == BreakerOf(s)!Next \/ UNCHANGED BreakerOf(s)!vars

\* Nothing that the breaker of s sees.
LEMMA Unseen ==
  ASSUME NEW s \in Suppliers, breakers'[s] = breakers[s], CallOf(s)' = CallOf(s)
  PROVE  BreakerStep(s)
  BY DEF BreakerStep, BreakerOf!vars, CallOf

\* The actions of SupplierCalls on the breaker of s.
LEMMA Seen ==
  ASSUME NEW s \in Suppliers, NEW c \in TasksOf(s)
  PROVE  /\ /\ CallOf(s)[c] = "none" /\ IsAvailable(breakers[s])
            /\ breakers'[s] = Checked(breakers[s])
            /\ CallOf(s)' = [CallOf(s) EXCEPT ![c] = Checked(breakers[s]).state]
            => BreakerStep(s)
         /\ /\ CallOf(s)[c] = "none" /\ ~IsAvailable(breakers[s])
            /\ breakers'[s] = breakers[s]
            /\ CallOf(s)' = [CallOf(s) EXCEPT ![c] = "refused"]
            => BreakerStep(s)
         /\ /\ CallOf(s)[c] \in LetThrough
            /\ breakers'[s] \in {RecordSuccess(breakers[s]), RecordFailure(breakers[s]), breakers[s]}
            /\ CallOf(s)' = [CallOf(s) EXCEPT ![c] = "none"]
            => BreakerStep(s)
<1>1. ASSUME CallOf(s)[c] = "none", IsAvailable(breakers[s]),
             breakers'[s] = Checked(breakers[s]),
             CallOf(s)' = [CallOf(s) EXCEPT ![c] = Checked(breakers[s]).state]
      PROVE  BreakerStep(s)
  <2>1. BreakerOf(s)!Admit(c)
    BY <1>1 DEF BreakerOf!Admit, BreakerOf!IsAvailable, BreakerOf!Checked, BreakerOf!Rested,
                IsAvailable, Checked, Rested, CallOf
  <2> QED  BY <2>1 DEF BreakerStep, BreakerOf!Next
<1>2. ASSUME CallOf(s)[c] = "none", ~IsAvailable(breakers[s]),
             breakers'[s] = breakers[s],
             CallOf(s)' = [CallOf(s) EXCEPT ![c] = "refused"]
      PROVE  BreakerStep(s)
  <2>1. BreakerOf(s)!Refuse(c)
    BY <1>2 DEF BreakerOf!Refuse, BreakerOf!IsAvailable, BreakerOf!Rested, IsAvailable, Rested, CallOf
  <2> QED  BY <2>1 DEF BreakerStep, BreakerOf!Next
<1>3. ASSUME CallOf(s)[c] \in LetThrough,
             breakers'[s] \in {RecordSuccess(breakers[s]), RecordFailure(breakers[s]), breakers[s]},
             CallOf(s)' = [CallOf(s) EXCEPT ![c] = "none"]
      PROVE  BreakerStep(s)
  <2>1. BreakerOf(s)!InFlight(c)
    BY <1>3 DEF BreakerOf!InFlight, BreakerOf!LetThrough, LetThrough, CallOf
  <2>2. CASE breakers'[s] = RecordSuccess(breakers[s])
    <3>1. BreakerOf(s)!Succeed(c)
      BY <1>3, <2>1, <2>2 DEF BreakerOf!Succeed, BreakerOf!RecordSuccess, RecordSuccess, CallOf
    <3> QED  BY <3>1 DEF BreakerStep, BreakerOf!Next
  <2>3. CASE breakers'[s] = RecordFailure(breakers[s])
    <3>1. BreakerOf(s)!Fail(c)
      BY <1>3, <2>1, <2>3 DEF BreakerOf!Fail, BreakerOf!RecordFailure, BreakerOf!OneMore,
                              RecordFailure, OneMore, CallOf
    <3> QED  BY <3>1 DEF BreakerStep, BreakerOf!Next
  <2>4. CASE breakers'[s] = breakers[s]
    <3>1. BreakerOf(s)!Cancel(c)
      BY <1>3, <2>1, <2>4 DEF BreakerOf!Cancel, CallOf
    <3> QED  BY <3>1 DEF BreakerStep, BreakerOf!Next
  <2> QED  BY <1>3, <2>2, <2>3, <2>4
<1> QED  BY <1>1, <1>2, <1>3

\* Time passes for the breaker of s.
LEMMA SeenTick ==
  ASSUME NEW s \in Suppliers, breakers[s] \in Breaker,
         breakers'[s] = Aged(breakers[s]), CallOf(s)' = CallOf(s)
  PROVE  BreakerStep(s)
<1>1. CASE Rested(breakers[s])
  <2>1. Aged(breakers[s]) = breakers[s]
    BY <1>1, RecoveryTimeoutAssumption DEF Aged, Rested, Breaker
  <2> QED  BY <2>1, Unseen
<1>2. CASE ~Rested(breakers[s])
  <2>1. BreakerOf(s)!Tick
    BY <1>2 DEF BreakerOf!Tick, BreakerOf!Rested, BreakerOf!Aged, Rested, Aged, CallOf
  <2> QED  BY <2>1 DEF BreakerStep, BreakerOf!Next
<1> QED  BY <1>1, <1>2

\* A task that changes its state changes one call of one breaker.
LEMMA OneCall ==
  ASSUME TypeOK, NEW q \in Searches, NEW e \in Entries, NEW state, Becomes(q, e, state)
  PROVE  LET c == <<q, e>> IN
         /\ c \in TasksOf(Supplier[e]) /\ CallOf(Supplier[e])[c] = CallState(task[q][e])
         /\ CallOf(Supplier[e])' = [CallOf(Supplier[e]) EXCEPT ![c] = CallState(state)]
         /\ \A s \in Suppliers \ {Supplier[e]} : CallOf(s)' = CallOf(s)
<1> DEFINE c == <<q, e>>
<1>1. task \in [Searches -> [Entries -> TaskStates]] /\ task' = [task EXCEPT ![q][e] = state]
  BY DEF TypeOK, Becomes
<1>2. c \in TasksOf(Supplier[e])  BY DEF TasksOf, Bundles
<1>3. \A v \in Bundles : task'[v[1]][v[2]] = IF v = c THEN state ELSE task[v[1]][v[2]]
  BY <1>1 DEF Bundles
<1>4. CallOf(Supplier[e])' = [CallOf(Supplier[e]) EXCEPT ![c] = CallState(state)]
  BY <1>2, <1>3 DEF CallOf, TasksOf
<1>5. \A s \in Suppliers \ {Supplier[e]} : CallOf(s)' = CallOf(s)
  BY <1>3 DEF CallOf, TasksOf
<1> QED  BY <1>2, <1>4, <1>5 DEF CallOf

\* The other breakers, and the callers of the others, see nothing of it.
LEMMA OneStep ==
  ASSUME TypeOK, NEW q \in Searches, NEW e \in Entries, NEW state, Becomes(q, e, state),
         NEW b, breakers' = [breakers EXCEPT ![Supplier[e]] = b],
         BreakerStep(Supplier[e])
  PROVE  \A s \in Suppliers : BreakerStep(s)
<1>1. \A s \in Suppliers \ {Supplier[e]} : CallOf(s)' = CallOf(s)
  BY OneCall
<1>2. \A s \in Suppliers \ {Supplier[e]} : breakers'[s] = breakers[s]
  BY SupplierAssumption DEF TypeOK
<1>3. \A s \in Suppliers \ {Supplier[e]} : BreakerStep(s)  BY <1>1, <1>2, Unseen
<1> QED  BY <1>3

\* Every step is one of each breaker, or none of its callers'.
LEMMA EveryBreakerSteps ==
  TypeOK /\ Untouched /\ [Next]_vars => \A s \in Suppliers : BreakerStep(s)
<1> SUFFICES ASSUME TypeOK, Untouched, [Next]_vars PROVE \A s \in Suppliers : BreakerStep(s)
  OBVIOUS
<1>t. /\ \A s \in Suppliers : breakers[s] \in Breaker
      /\ task \in [Searches -> [Entries -> TaskStates]]
  BY DEF TypeOK
<1>s. ASSUME UNCHANGED <<breakers, task>> PROVE \A s \in Suppliers : BreakerStep(s)
  <2>1. \A s \in Suppliers : CallOf(s)' = CallOf(s)  BY <1>s DEF CallOf
  <2> QED  BY <1>s, <2>1, Unseen
<1>1. ASSUME NEW q \in Searches, Dispatch(q) PROVE \A s \in Suppliers : BreakerStep(s)
  <2>1. UNCHANGED breakers /\ pc[q] = "new"  BY <1>1 DEF Dispatch
  <2>2. \A p \in Searches, e \in Entries :
           \/ task'[p][e] = task[p][e]
           \/ (task'[p][e] \in {"pending", "unmapped", "none"} /\ p = q)
    BY <1>t, <1>1 DEF Dispatch
  <2>3. \A p \in Searches, e \in Entries : CallState(task'[p][e]) = CallState(task[p][e])
    BY <2>1, <2>2 DEF CallState, LetThrough, Untouched
  <2>4. \A s \in Suppliers : CallOf(s)' = CallOf(s)
    BY <2>3 DEF CallOf, TasksOf, Bundles
  <2> QED  BY <2>1, <2>4, Unseen
<1>2. ASSUME NEW q \in Searches, NEW e \in Entries, Start(q, e)
      PROVE  \A s \in Suppliers : BreakerStep(s)
  <2> DEFINE b == breakers[Supplier[e]]
             state == IF IsAvailable(b) THEN Checked(b).state ELSE "refused"
  <2>1. /\ task[q][e] = "pending" /\ breakers' = [breakers EXCEPT ![Supplier[e]] = Checked(b)]
        /\ Becomes(q, e, state)
    BY <1>2 DEF Start, SetBreaker
  <2>2. Supplier[e] \in Suppliers /\ <<q, e>> \in TasksOf(Supplier[e]) /\ b \in Breaker
    BY <1>t, SupplierAssumption DEF TasksOf, Bundles
  <2>3. IsAvailable(b) => Checked(b).state \in LetThrough  BY <2>2, BreakersStay
  <2>4. ~IsAvailable(b) => Checked(b) = b  BY DEF IsAvailable, Checked
  <2>5. CallState(state) = state /\ CallState(task[q][e]) = "none"
    BY <2>1, <2>3 DEF CallState, LetThrough
  <2>6. IsAvailable(b) => state = Checked(b).state  OBVIOUS
  <2>7. ~IsAvailable(b) => state = "refused"  OBVIOUS
  <2> HIDE DEF state
  <2>8. /\ breakers'[Supplier[e]] = Checked(b)
        /\ CallOf(Supplier[e])[<<q, e>>] = "none"
        /\ CallOf(Supplier[e])' = [CallOf(Supplier[e]) EXCEPT ![<<q, e>>] = state]
    <3>1. /\ breakers'[Supplier[e]] = Checked(b)
          /\ CallOf(Supplier[e])[<<q, e>>] = CallState(task[q][e])
          /\ CallOf(Supplier[e])' = [CallOf(Supplier[e]) EXCEPT ![<<q, e>>] = CallState(state)]
      <4>1. breakers'[Supplier[e]] = Checked(b)  BY <2>1, <2>2 DEF TypeOK
      <4>2. /\ CallOf(Supplier[e])[<<q, e>>] = CallState(task[q][e])
            /\ CallOf(Supplier[e])' = [CallOf(Supplier[e]) EXCEPT ![<<q, e>>] = CallState(state)]
        BY <2>1, OneCall
      <4> QED  BY <4>1, <4>2
    <3> QED  BY <3>1, <2>5
  <2>9. BreakerStep(Supplier[e])
    <3>1. CASE IsAvailable(b)  BY <2>2, <2>6, <2>8, <3>1, Seen
    <3>2. CASE ~IsAvailable(b)  BY <2>2, <2>4, <2>7, <2>8, <3>2, Seen
    <3> QED  BY <3>1, <3>2
  <2> QED  BY <2>1, <2>9, OneStep
<1>3. ASSUME NEW q \in Searches, NEW e \in Entries, task[q][e] \in LetThrough,
             NEW state \in {"ok", "failed", "mute", "cancelled"}, Becomes(q, e, state),
             NEW b \in {RecordSuccess(breakers[Supplier[e]]), RecordFailure(breakers[Supplier[e]]),
                        breakers[Supplier[e]]},
             breakers' = [breakers EXCEPT ![Supplier[e]] = b]
      PROVE  \A s \in Suppliers : BreakerStep(s)
  <2>1. CallState(task[q][e]) \in LetThrough /\ CallState(state) = "none"
    BY <1>3 DEF CallState, LetThrough
  <2>2. /\ <<q, e>> \in TasksOf(Supplier[e]) /\ Supplier[e] \in Suppliers
        /\ breakers'[Supplier[e]] = b
        /\ CallOf(Supplier[e])[<<q, e>>] \in LetThrough
        /\ CallOf(Supplier[e])' = [CallOf(Supplier[e]) EXCEPT ![<<q, e>>] = "none"]
    <3>1. /\ <<q, e>> \in TasksOf(Supplier[e]) /\ Supplier[e] \in Suppliers
          /\ breakers'[Supplier[e]] = b
          /\ CallOf(Supplier[e])[<<q, e>>] = CallState(task[q][e])
          /\ CallOf(Supplier[e])' = [CallOf(Supplier[e]) EXCEPT ![<<q, e>>] = CallState(state)]
      <4>1. Supplier[e] \in Suppliers /\ breakers'[Supplier[e]] = b
        BY <1>3, SupplierAssumption DEF TypeOK
      <4>2. /\ <<q, e>> \in TasksOf(Supplier[e])
            /\ CallOf(Supplier[e])[<<q, e>>] = CallState(task[q][e])
            /\ CallOf(Supplier[e])' = [CallOf(Supplier[e]) EXCEPT ![<<q, e>>] = CallState(state)]
        BY <1>3, OneCall
      <4> QED  BY <4>1, <4>2
    <3> QED  BY <2>1, <3>1
  <2>3. BreakerStep(Supplier[e])  BY <2>2, Seen
  <2> QED  BY <1>3, <2>3, OneStep
<1>4. ASSUME NEW q \in Searches, NEW e \in Entries, Succeed(q, e)
      PROVE  \A s \in Suppliers : BreakerStep(s)
  BY <1>3, <1>4 DEF Succeed, SetBreaker
<1>5. ASSUME NEW q \in Searches, NEW e \in Entries, Fail(q, e)
      PROVE  \A s \in Suppliers : BreakerStep(s)
  BY <1>3, <1>5 DEF Fail, SetBreaker
<1>6. ASSUME NEW q \in Searches, NEW e \in Entries, Cancel(q, e)
      PROVE  \A s \in Suppliers : BreakerStep(s)
  <2>1. Becomes(q, e, "cancelled") /\ UNCHANGED breakers /\ task[q][e] \in Running
    BY <1>6 DEF Cancel
  <2>2. CASE task[q][e] \in LetThrough
    <3>1. breakers' = [breakers EXCEPT ![Supplier[e]] = breakers[Supplier[e]]]
      BY <2>1, SupplierAssumption DEF TypeOK
    <3> QED  BY <1>3, <2>1, <2>2, <3>1
  <2>3. CASE task[q][e] = "pending"
    <3>1. CallState(task[q][e]) = CallState("cancelled")  BY <2>3 DEF CallState, LetThrough
    <3>2. \A s \in Suppliers : CallOf(s)' = CallOf(s)
      <4>1. \A p \in Searches, f \in Entries : CallState(task'[p][f]) = CallState(task[p][f])
        BY <1>t, <2>1, <3>1 DEF Becomes
      <4> QED  BY <4>1 DEF CallOf, TasksOf, Bundles
    <3> QED  BY <2>1, <3>2, Unseen
  <2> QED  BY <2>1, <2>2, <2>3 DEF Running
<1>7. CASE Tick
  <2>1. /\ \A s \in Suppliers : breakers'[s] = Aged(breakers[s])
        /\ UNCHANGED task
    BY <1>7 DEF Tick
  <2>2. \A s \in Suppliers : CallOf(s)' = CallOf(s)  BY <2>1 DEF CallOf
  <2> QED  BY <1>t, <2>1, <2>2, SeenTick
<1>8. ASSUME NEW q \in Searches, Gateway(q), ~Dispatch(q),
             \A e \in Entries : ~Start(q, e) /\ ~Cancel(q, e)
      PROVE  UNCHANGED <<breakers, task>>
  BY <1>8 DEF Gateway, Reject, Hit, TimeOut, Merge, MergeNothing, StoreResponse, StoreVehicles
<1>9. Evict \/ UNCHANGED vars => UNCHANGED <<breakers, task>>  BY DEF Evict, vars
<1> QED
  BY <1>s, <1>1, <1>2, <1>4, <1>5, <1>6, <1>7, <1>8, <1>9 DEF Next

\* Nothing a search does for one supplier, nor its timeout, disturbs the breaker
\* of another: each one takes the steps of SupplierCalls, whose theorems hold of
\* it, with the tasks of all searches as its callers.
THEOREM BreakersAreSound == Spec => BreakersWork
<1>1. Init => Untouched  BY DEF Init, Untouched
<1>2. Init => \A s \in Suppliers : BreakerOf(s)!Init
  BY DEF Init, BreakerOf!Init, BreakerOf!NewBreaker, NewBreaker, CallState, LetThrough, TasksOf, Bundles
<1>3. TypeOK /\ Untouched /\ [Next]_vars =>
         \A s \in Suppliers : BreakerOf(s)!Next \/ UNCHANGED BreakerOf(s)!vars
  BY EveryBreakerSteps DEF BreakerStep
<1> QED  BY <1>1, <1>2, <1>3, UntouchedNext, TypeCorrect, PTL DEF Spec, BreakersWork
=============================================================================

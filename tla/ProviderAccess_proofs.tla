------------------------ MODULE ProviderAccess_proofs ------------------------
(***************************************************************************)
(* Proofs about ProviderAccess for any keys, requests, limit and lengths   *)
(* of windows and counters.                                                *)
(*                                                                         *)
(* LimitHolds is not inductive.  What carries it is that the counts which  *)
(* one counter answers differ, because each is at most what the counter    *)
(* shows: the admitted of a slot are at most as many as pairs of a maker   *)
(* and a count up to Limit.  And of those counted before the counter of    *)
(* their window may expire, all have one maker, since until then the       *)
(* counter is alive.  For refusals it is the other way round: no counter   *)
(* shows more than have been counted in its slot.                          *)
(***************************************************************************)
EXTENDS ProviderAccess, FiniteSetTheorems, TLAPS

-----------------------------------------------------------------------------
(* Windows and slots.                                                      *)

\* Each time lies in its window.
LEMMA WindowBounds ==
  ASSUME NEW time \in Times
  PROVE  /\ WindowAt(time) \in Windows
         /\ Start(WindowAt(time)) \in Nat
         /\ Start(WindowAt(time)) <= time
         /\ time < Start(WindowAt(time)) + WindowLength
<1>1. time \in Nat  BY WindowAssumption DEF Times
<1>2. /\ (time \div WindowLength) * WindowLength <= time
      /\ time < (time \div WindowLength) * WindowLength + WindowLength
      /\ time \div WindowLength \in Nat
  BY <1>1, WindowAssumption
<1>3. (time \div WindowLength) * WindowLength \in Nat  BY <1>2, WindowAssumption
<1> QED  BY <1>2, <1>3 DEF WindowAt, Start, Windows

\* The start of a window is a time.
LEMMA StartIsNat ==
  ASSUME NEW window \in Windows
  PROVE  Start(window) \in Nat
  BY WindowBounds DEF Windows

\* The window of a fresh request is one.
LEMMA FirstWindow == 0 \in Windows
<1>1. 0 \in Times  BY WindowAssumption DEF Times
<1>2. 0 \div WindowLength = 0  BY WindowAssumption
<1> QED  BY <1>1, <1>2 DEF Windows, WindowAt

-----------------------------------------------------------------------------
(* Types.                                                                  *)

LEMMA FreshIsRequest == Fresh \in Request
  BY FirstWindow DEF Fresh, Request, Waiting, Answered

\* A counter keeps its type when its expiry is set, and when time passes.
LEMMA WithTTLIsCounters ==
  ASSUME TypeOK, NEW s \in Slots
  PROVE  WithTTL(s, CounterTTL) \in [Slots -> Counter]
  BY TTLAssumption DEF TypeOK, WithTTL, Counter

LEMMA AgedIsCounter ==
  ASSUME NEW c \in Counter
  PROVE  Aged(c) \in Counter
<1>1. CASE c.ttl = None  BY <1>1, KeysAssumption DEF Aged
<1>2. CASE c.ttl = 1  BY <1>2, KeysAssumption DEF Aged, NoCounter, Counter
<1>3. CASE c.ttl # None /\ c.ttl # 1
  <2>1. c.ttl \in 1 .. CounterTTL /\ c.ttl - 1 \in 1 .. CounterTTL  BY <1>3, TTLAssumption DEF Counter
  <2>2. Aged(c) = [c EXCEPT !.ttl = c.ttl - 1]  BY <1>3 DEF Aged
  <2> QED  BY <2>1, <2>2 DEF Counter
<1> QED  BY <1>1, <1>2, <1>3

\* What an INCR makes of a counter is one.
LEMMA RaisedIsCounter ==
  ASSUME TypeOK, NEW r \in Requests, Slot(r) \in Slots
  PROVE  /\ Raised(r) \in Counter
         /\ Raised(r).count = counter[Slot(r)].count + 1
         /\ Raised(r).ttl = counter[Slot(r)].ttl
         /\ Raised(r).maker =
               IF counter[Slot(r)].count = 0 THEN r ELSE counter[Slot(r)].maker
<1> DEFINE c == counter[Slot(r)]
           count == c.count + 1
           maker == IF c.count = 0 THEN r ELSE c.maker
<1>1. c \in Counter  BY DEF TypeOK
<1>2. count \in Nat /\ maker \in Requests \cup {None}  BY <1>1 DEF Counter
<1>3. Raised(r) = [c EXCEPT !.count = count, !.maker = maker]  BY <1>1 DEF Raised, Counter
<1> HIDE DEF c, count, maker
<1>4. /\ Raised(r) \in Counter /\ Raised(r).count = count
      /\ Raised(r).ttl = c.ttl /\ Raised(r).maker = maker
  BY <1>1, <1>2, <1>3 DEF Counter
<1> QED  BY <1>4 DEF c, count, maker

LEMMA TypeInit == Init => TypeOK
  BY FreshIsRequest, WindowAssumption, KeysAssumption
  DEF Init, TypeOK, Times, NoCounter, Counter, Fresh, Status

\* Every step keeps the types.
LEMMA TypeNext == TypeOK /\ [Next]_vars => TypeOK'
<1> SUFFICES ASSUME TypeOK, [Next]_vars PROVE TypeOK'  OBVIOUS
<1> USE DEF TypeOK
<1>s. \A r \in Requests : req[r].pc # "idle" => Slot(r) \in Slots
  BY DEF Slot, Slots, Request
<1>g. ASSUME NEW r \in Requests, req[r].pc # "idle", NEW pc \in Waiting \cup Answered, Goes(r, pc)
      PROVE  /\ req' \in [Requests -> Request]
             /\ \A q \in Requests : req'[q].pc # "idle" => req'[q].key \in Keys
  BY <1>g DEF Goes, Request
<1>f. ASSUME NEW r \in Requests, req[r].pc # "idle", Failed(r)
      PROVE  /\ req' \in [Requests -> Request]
             /\ \A q \in Requests : req'[q].pc # "idle" => req'[q].key \in Keys
  <2> DEFINE new == [req[r] EXCEPT !.pc = "passed", !.failed = TRUE, !.count = None]
  <2>1. req' = [req EXCEPT ![r] = new]  BY <1>f DEF Failed
  <2>2. new \in Request /\ new.key \in Keys  BY <1>f DEF Request, Waiting
  <2> QED  BY <2>1, <2>2
<1>1. ASSUME NEW r \in Requests, NEW k \in Keys, Receive(r, k) PROVE TypeOK'
  <2> DEFINE barred == key[k] # "active" \/ Overdue(k)
  <2>1. [Fresh EXCEPT !.pc = "find", !.key = k, !.barred = barred] \in Request
    BY FreshIsRequest DEF Request, Waiting
  <2>2. [Fresh EXCEPT !.pc = "find", !.key = k, !.barred = barred].key = k
    BY DEF Fresh
  <2> HIDE DEF barred
  <2> QED  BY <1>1, <2>1, <2>2 DEF Receive, barred
<1>2. ASSUME NEW r \in Requests, Find(r) PROVE TypeOK'
  <2>1. CASE Goes(r, "expiring")  BY <1>2, <2>1, <1>g DEF Find, Waiting
  <2>2. CASE Goes(r, "refused")  BY <1>2, <2>2, <1>g DEF Find, Answered
  <2>3. CASE req' = [req EXCEPT ![r].pc = "incr", ![r].window = WindowAt(clock)]
    <3> DEFINE new == [req[r] EXCEPT !.pc = "incr", !.window = WindowAt(clock)]
    <3>1. req' = [req EXCEPT ![r] = new]  BY <2>3
    <3>2. WindowAt(clock) \in Windows  BY WindowBounds
    <3>3. new \in Request /\ new.key \in Keys  BY <1>2, <3>2 DEF Find, Request, Waiting
    <3> QED  BY <1>2, <3>1, <3>3 DEF Find
  <2> QED  BY <1>2, <2>1, <2>2, <2>3 DEF Find
<1>3. ASSUME NEW r \in Requests, MarkExpired(r) PROVE TypeOK'
  BY <1>3, <1>g DEF MarkExpired, Answered, Status
<1>c. ASSUME NEW r \in Requests, req[r].pc = "incr"
      PROVE  Slot(r) \in Slots /\ Raised(r) \in Counter /\ TooLate(r) \in BOOLEAN
  BY <1>c, <1>s, RaisedIsCounter DEF TooLate
<1>4. ASSUME NEW r \in Requests, Incr(r) PROVE TypeOK'
  <2> DEFINE raised == Raised(r)
             late == TooLate(r)
             pc == IF NeedsExpiry(raised.count) THEN "expire"
                   ELSE IF Over(raised.count) THEN "429" ELSE "passed"
             new == [req[r] EXCEPT !.maker = raised.maker, !.late = late,
                                   !.count = raised.count, !.pc = pc]
  <2>0. req[r].pc = "incr"  BY <1>4 DEF Incr
  <2>1. Slot(r) \in Slots /\ raised \in Counter /\ late \in BOOLEAN  BY <1>c, <2>0
  <2>2. pc \in Waiting \cup Answered  BY DEF Waiting, Answered
  <2>3. /\ counter' = [counter EXCEPT ![Slot(r)] = raised] /\ UNCHANGED <<clock, key>>
        /\ req' = [req EXCEPT ![r].maker = raised.maker, ![r].late = late,
                     ![r].count = raised.count, ![r].pc = pc]
    BY <1>4 DEF Incr
  <2> HIDE DEF pc, raised, late
  <2>4. counter' \in [Slots -> Counter]  BY <2>1, <2>3
  <2>5. req' = [req EXCEPT ![r] = new]  BY <2>3
  <2>6. raised.count \in Nat /\ raised.maker \in Requests \cup {None}  BY <2>1 DEF Counter
  <2>7. new \in Request /\ new.key \in Keys  BY <2>0, <2>1, <2>2, <2>6, ZenonT(30) DEF Request
  <2> HIDE DEF new
  <2>8. /\ req' \in [Requests -> Request]
        /\ \A q \in Requests : req'[q].pc # "idle" => req'[q].key \in Keys
    <3> HIDE DEF Request
    <3> QED  BY <2>5, <2>7, SMTT(30)
  <2> QED  BY <2>3, <2>4, <2>8
<1>5. ASSUME NEW r \in Requests, IncrFails(r) PROVE TypeOK'
  <2>1. CASE counter' = counter /\ Failed(r)  BY <1>5, <2>1, <1>f DEF IncrFails
  <2>2. CASE /\ counter' = [counter EXCEPT ![Slot(r)] = Raised(r)]
             /\ req' = [req EXCEPT ![r].pc = "passed", ![r].failed = TRUE,
                          ![r].maker = Raised(r).maker, ![r].late = TooLate(r)]
    <3> DEFINE raised == Raised(r)
               late == TooLate(r)
               new == [req[r] EXCEPT !.pc = "passed", !.failed = TRUE,
                                     !.maker = raised.maker, !.late = late]
    <3>0. req[r].pc = "incr" /\ UNCHANGED <<clock, key>>  BY <1>5 DEF IncrFails
    <3>1. Slot(r) \in Slots /\ raised \in Counter /\ late \in BOOLEAN  BY <1>c, <3>0
    <3>2. counter' \in [Slots -> Counter]  BY <2>2, <3>1
    <3> HIDE DEF raised, late
    <3>3. req' = [req EXCEPT ![r] = new]  BY <2>2 DEF raised, late
    <3>4. new \in Request /\ new.key \in Keys
      <4>1. req[r] \in Request /\ req[r].key \in Keys  BY <3>0
      <4>2. "passed" \in {"idle"} \cup Waiting \cup Answered  BY DEF Waiting
      <4> QED  BY <3>1, <4>1, <4>2 DEF Request, Counter
    <3> HIDE DEF new
    <3> QED  BY <3>0, <3>2, <3>3, <3>4
  <2> QED  BY <1>5, <2>1, <2>2 DEF IncrFails
<1>6. ASSUME NEW r \in Requests, Expire(r) PROVE TypeOK'
  BY <1>6, <1>g, <1>s, WithTTLIsCounters DEF Expire, Waiting, Answered
<1>7. ASSUME NEW r \in Requests, ExpireFails(r) PROVE TypeOK'
  BY <1>7, <1>f, <1>s, WithTTLIsCounters DEF ExpireFails
<1>8. ASSUME NEW r \in Requests, Finish(r) PROVE TypeOK'
  BY <1>8, <1>g DEF Finish, Answered
<1>9. ASSUME NEW r \in Requests, DatabaseFails(r) PROVE TypeOK'
  BY <1>9, <1>g DEF DatabaseFails, Answered
<1>10. ASSUME NEW k \in Keys, Generate(k) \/ Revoke(k) \/ \E new \in Keys : Rotate(k, new)
       PROVE  TypeOK'
  BY <1>10 DEF Generate, Revoke, Rotate, Status
<1>11. ASSUME NEW s \in Slots, Evict(s) PROVE TypeOK'
  BY <1>11 DEF Evict, NoCounter, Counter
<1>12. CASE Tick
  <2>1. counter' \in [Slots -> Counter]  BY <1>12, AgedIsCounter DEF Tick
  <2>2. clock' \in Times  BY <1>12, WindowAssumption DEF Tick, Times
  <2> QED  BY <1>12, <2>1, <2>2 DEF Tick
<1>13. CASE UNCHANGED vars  BY <1>13 DEF vars
<1> QED
  BY <1>1, <1>2, <1>3, <1>4, <1>5, <1>6, <1>7, <1>8, <1>9, <1>10, <1>11, <1>12, <1>13
  DEF Next, Step

\* The variables keep their types, for any constants.
THEOREM TypeCorrect == Spec => []TypeOK
<1> QED  BY TypeInit, TypeNext, PTL DEF Spec

-----------------------------------------------------------------------------
(* The inductive invariant.                                                *)

Guarded(r) == req[r].key \notin Volatile

\* When the counter of a window may be gone.
Expiry(window) == Start(window) + CounterTTL

\* Of one request: it is counted after its window began, and let through only
\* with a count within the limit or by a failure.
InOrder(q, now) ==
    /\ q.pc \in {"idle", "find", "expiring", "incr"} =>
          q.count = None /\ q.maker = None /\ ~q.failed
    /\ q.pc \in {"incr", "expire"} => Start(q.window) <= now
    /\ q.pc = "expire" => q.count # None
    /\ q.pc \in {"passed", "admitted"} => q.failed \/ (q.count # None /\ q.count <= Limit)
    /\ q.count # None => q.count >= 1 /\ q.maker # None

AllInOrder == \A r \in Requests : InOrder(req[r], clock)

\* A counter with an expiry outlives its window.
LivesLongEnough ==
    \A s \in Slots : counter[s].ttl # None =>
        clock + counter[s].ttl >= Expiry(s[2])

\* Who counted on whose counter: on that of a request which made one in the same
\* slot, and not later.
RequestMakers ==
    \A r, m \in Requests : req[r].maker = m =>
        /\ req[m].maker = m /\ Slot(m) = Slot(r)
        /\ req[m].late => req[r].late

CounterMakers ==
    \A s \in Slots :
        /\ counter[s].count = 0 <=> counter[s].maker = None
        /\ \A m \in Requests : counter[s].maker = m =>
              /\ req[m].maker = m /\ Slot(m) = s
              /\ req[m].late => clock >= Expiry(s[2])

\* A counter shows at least what it has answered.
CountsAreBelow ==
    \A r \in Requests :
        req[r].count # None /\ counter[Slot(r)].maker = req[r].maker =>
            req[r].count <= counter[Slot(r)].count

CountsDiffer ==
    \A q, r \in Requests :
        q # r /\ req[q].maker = req[r].maker /\ req[q].count # None /\ req[r].count # None
        => req[q].count # req[r].count

\* Before its expiry no counter is gone, so that only one is made.
StillAlive ==
    \A r \in Requests :
        Guarded(r) /\ req[r].maker # None /\ clock < Expiry(req[r].window) =>
            counter[Slot(r)].count > 0

OneOnTime ==
    \A q, r \in Requests :
        /\ Guarded(r) /\ Slot(q) = Slot(r)
        /\ req[q].maker = q /\ req[r].maker = r /\ ~req[q].late /\ ~req[r].late
        => q = r

IInv ==
    /\ TypeOK /\ AllInOrder /\ LivesLongEnough
    /\ RequestMakers /\ CounterMakers /\ CountsAreBelow /\ CountsDiffer
    /\ StillAlive /\ OneOnTime

LEMMA IInvInit == Init => IInv
<1> SUFFICES ASSUME Init PROVE IInv  OBVIOUS
<1>1. TypeOK  BY TypeInit
<1>2. \A r \in Requests : req[r] = Fresh  BY DEF Init
<1>3. \A s \in Slots : counter[s] = NoCounter  BY DEF Init
<1>4. /\ Fresh.pc = "idle" /\ Fresh.count = None /\ Fresh.maker = None /\ ~Fresh.failed
  BY DEF Fresh
<1>5. NoCounter.ttl = None /\ NoCounter.maker = None /\ NoCounter.count = 0
  BY DEF NoCounter
<1>6. AllInOrder  BY <1>2, <1>4 DEF AllInOrder, InOrder
<1>7. LivesLongEnough /\ CounterMakers  BY <1>3, <1>5, NoneAssumption DEF LivesLongEnough, CounterMakers
<1>8. RequestMakers /\ CountsAreBelow /\ CountsDiffer /\ StillAlive
  BY <1>2, <1>4, NoneAssumption DEF RequestMakers, CountsAreBelow, CountsDiffer, StillAlive
<1>9. OneOnTime  BY <1>2, <1>4, NoneAssumption DEF OneOnTime
<1> QED  BY <1>1, <1>6, <1>7, <1>8, <1>9 DEF IInv

\* Facts of the invariant that most steps need.
LEMMA IInvFacts ==
  ASSUME IInv
  PROVE  /\ req \in [Requests -> Request] /\ counter \in [Slots -> Counter] /\ clock \in Nat
         /\ \A r \in Requests : req[r].maker \in Requests \cup {None}
         /\ \A r \in Requests : req[r].count # None => req[r].maker # None
         /\ \A r \in Requests : req[r].maker # None => req[r].pc # "idle"
         /\ \A r \in Requests : req[r].pc # "idle" =>
               Slot(r) \in Slots /\ Start(req[r].window) \in Nat
         /\ \A s \in Slots : counter[s].maker \in Requests \cup {None}
<1>1. /\ req \in [Requests -> Request] /\ counter \in [Slots -> Counter] /\ clock \in Nat
  BY WindowAssumption DEF IInv, TypeOK, Times
<1>2. \A r \in Requests : req[r].maker \in Requests \cup {None}  BY <1>1 DEF Request
<1>3. \A s \in Slots : counter[s].maker \in Requests \cup {None}  BY <1>1 DEF Counter
<1>4. \A r \in Requests : /\ req[r].count # None => req[r].maker # None
                          /\ req[r].maker # None => req[r].pc # "idle"
  BY DEF IInv, AllInOrder, InOrder
<1>5. \A r \in Requests : req[r].pc # "idle" => Slot(r) \in Slots /\ req[r].window \in Windows
  BY <1>1 DEF IInv, TypeOK, Slot, Slots, Request
<1> QED  BY <1>1, <1>2, <1>3, <1>4, <1>5, StartIsNat

\* A step of one request that is not counted anew keeps the invariant, if no
\* counter changes but in its expiry.
LEMMA QuietStep ==
  ASSUME IInv, TypeOK', clock' = clock, LivesLongEnough',
         \A s \in Slots : /\ counter'[s].count = counter[s].count
                          /\ counter'[s].maker = counter[s].maker,
         NEW r \in Requests, NEW new \in Request,
         req' = [req EXCEPT ![r] = new],
         InOrder(new, clock),
         new.maker = req[r].maker, new.count \in {None, req[r].count},
         new.maker # None => /\ new.late = req[r].late
                             /\ new.key = req[r].key /\ new.window = req[r].window
  PROVE  IInv'
<1>0. /\ req'[r] = new
      /\ \A q \in Requests \ {r} : req'[q] = req[q]
  BY IInvFacts
<1>1. AllInOrder'
  <2>1. \A q \in Requests : InOrder(req'[q], clock')
    BY <1>0 DEF IInv, AllInOrder
  <2> QED  BY <2>1 DEF AllInOrder
<1>2. \A q \in Requests : req'[q].maker = req[q].maker
  BY <1>0
<1>3. \A q \in Requests : req[q].maker # None =>
        /\ req'[q].late = req[q].late /\ req'[q].key = req[q].key
        /\ req'[q].window = req[q].window
  BY <1>0
<1>4. \A q \in Requests : req[q].maker # None =>
        /\ Slot(q)' = Slot(q) /\ (Guarded(q)' <=> Guarded(q)) /\ Slot(q) \in Slots
  BY <1>3, IInvFacts DEF Slot, Guarded
<1>5. \A q \in Requests : req'[q].count # None =>
        req'[q].count = req[q].count /\ req[q].maker # None
  BY <1>0, IInvFacts
<1>6. RequestMakers'
  <2> SUFFICES ASSUME NEW q \in Requests, NEW m \in Requests, req'[q].maker = m
               PROVE  /\ req'[m].maker = m /\ Slot(m)' = Slot(q)'
                      /\ req'[m].late => req'[q].late
    BY DEF RequestMakers
  <2>1. req[q].maker = m /\ m # None  BY <1>2, NoneAssumption
  <2>2. /\ req[m].maker = m /\ Slot(m) = Slot(q)
        /\ req[m].late => req[q].late
    BY <2>1 DEF IInv, RequestMakers
  <2>3. req'[m].late = req[m].late /\ req'[q].late = req[q].late
    BY <1>3, <2>1, <2>2
  <2>4. Slot(m)' = Slot(m) /\ Slot(q)' = Slot(q)  BY <1>4, <2>1, <2>2
  <2> QED  BY <1>2, <2>2, <2>3, <2>4
<1>7. CounterMakers'
  <2>1. ASSUME NEW s \in Slots, NEW m \in Requests, counter[s].maker = m
        PROVE  /\ req'[m].maker = m /\ Slot(m)' = s
               /\ req'[m].late => clock >= Expiry(s[2])
    <3>1. /\ req[m].maker = m /\ Slot(m) = s /\ m # None
          /\ req[m].late => clock >= Expiry(s[2])
      BY <2>1, NoneAssumption DEF IInv, CounterMakers
    <3>2. req'[m].late = req[m].late /\ Slot(m)' = Slot(m) /\ req'[m].maker = m
      BY <1>2, <1>3, <1>4, <3>1
    <3> QED  BY <3>1, <3>2
  <2>2. \A s \in Slots : counter[s].count = 0 <=> counter[s].maker = None
    BY DEF IInv, CounterMakers
  <2> QED  BY <2>1, <2>2 DEF CounterMakers, Expiry
<1>8. CountsAreBelow'
  BY <1>2, <1>4, <1>5 DEF IInv, CountsAreBelow
<1>9. CountsDiffer'
  BY <1>2, <1>5 DEF IInv, CountsDiffer
<1>10. StillAlive'
  BY <1>2, <1>3, <1>4 DEF IInv, StillAlive, Expiry
<1>11. OneOnTime'
  <2> SUFFICES ASSUME NEW p \in Requests, NEW q \in Requests, Guarded(q)', Slot(p)' = Slot(q)',
                      req'[p].maker = p, req'[q].maker = q, ~req'[p].late, ~req'[q].late
               PROVE  p = q
    BY DEF OneOnTime
  <2>1. req[p].maker = p /\ req[q].maker = q /\ p # None /\ q # None
    BY <1>2, NoneAssumption
  <2>2. ~req[p].late /\ ~req[q].late /\ Guarded(q) /\ Slot(p) = Slot(q)
    BY <1>3, <1>4, <2>1
  <2> QED  BY <2>1, <2>2 DEF IInv, OneOnTime
<1> QED  BY <1>1, <1>6, <1>7, <1>8, <1>9, <1>10, <1>11 DEF IInv

\* Steps that leave counters alone and count nothing.
LEMMA PlainStep ==
  ASSUME IInv, TypeOK', UNCHANGED <<clock, counter>>,
         NEW r \in Requests, NEW new \in Request,
         req' = [req EXCEPT ![r] = new],
         InOrder(new, clock),
         new.maker = req[r].maker, new.count \in {None, req[r].count},
         new.maker # None => /\ new.late = req[r].late
                             /\ new.key = req[r].key /\ new.window = req[r].window
  PROVE  IInv'
<1>1. LivesLongEnough'  BY DEF IInv, LivesLongEnough, Expiry
<1> QED  BY <1>1, QuietStep

\* Coming and looking up.
LEMMA ReceiveStep ==
  ASSUME IInv, TypeOK', NEW r \in Requests, NEW k \in Keys, Receive(r, k)
  PROVE  IInv'
<1> DEFINE barred == key[k] # "active" \/ Overdue(k)
           new == [Fresh EXCEPT !.pc = "find", !.key = k, !.barred = barred]
<1>1. new \in Request  BY FreshIsRequest DEF Request, Waiting
<1>2. new.pc = "find" /\ new.count = None /\ new.maker = None /\ new.failed = FALSE
  BY DEF Fresh
<1>3. req' = [req EXCEPT ![r] = new] /\ UNCHANGED <<clock, counter>>  BY DEF Receive
<1> HIDE DEF new
<1>4. InOrder(new, clock)  BY <1>2 DEF InOrder
<1>5. req[r].maker = None  BY DEF Receive, IInv, AllInOrder, InOrder
<1> QED  BY <1>1, <1>2, <1>3, <1>4, <1>5, PlainStep

LEMMA FindStep ==
  ASSUME IInv, TypeOK', NEW r \in Requests, Find(r)
  PROVE  IInv'
<1>0. /\ req[r] \in Request /\ req[r].pc = "find"
      /\ req[r].count = None /\ req[r].maker = None /\ ~req[r].failed
  BY DEF Find, IInv, TypeOK, AllInOrder, InOrder
<1>1. ASSUME NEW pc \in {"expiring", "refused"}, Goes(r, pc) PROVE IInv'
  <2> DEFINE new == [req[r] EXCEPT !.pc = pc]
  <2>1. new \in Request  BY <1>0 DEF Request, Waiting, Answered
  <2>2. new.pc = pc /\ new.count = None /\ new.maker = None /\ new.failed = FALSE
    BY <1>0 DEF Request
  <2>3. req' = [req EXCEPT ![r] = new] /\ UNCHANGED <<clock, counter>>  BY <1>1 DEF Find, Goes
  <2> HIDE DEF new
  <2>4. InOrder(new, clock)  BY <2>2 DEF InOrder
  <2> QED  BY <1>0, <2>1, <2>2, <2>3, <2>4, PlainStep
<1>2. ASSUME req' = [req EXCEPT ![r].pc = "incr", ![r].window = WindowAt(clock)] PROVE IInv'
  <2> DEFINE w == WindowAt(clock)
             new == [req[r] EXCEPT !.pc = "incr", !.window = w]
  <2>1. w \in Windows /\ Start(w) <= clock  BY WindowBounds DEF IInv, TypeOK
  <2> HIDE DEF w
  <2>2. new \in Request  BY <1>0, <2>1 DEF Request, Waiting
  <2>3. /\ new.pc = "incr" /\ new.window = w
        /\ new.count = None /\ new.maker = None /\ new.failed = FALSE
    BY <1>0 DEF Request
  <2>4. req' = [req EXCEPT ![r] = new] /\ UNCHANGED <<clock, counter>>  BY <1>2 DEF Find, w
  <2> HIDE DEF new
  <2>5. InOrder(new, clock)  BY <2>1, <2>3 DEF InOrder
  <2> QED  BY <1>0, <2>2, <2>3, <2>4, <2>5, PlainStep
<1> QED  BY <1>1, <1>2 DEF Find

\* Ending.
LEMMA EndStep ==
  ASSUME IInv, TypeOK', NEW r \in Requests, req[r].pc # "idle",
         NEW pc \in Answered, Goes(r, pc), UNCHANGED <<clock, counter>>,
         pc = "admitted" => req[r].pc = "passed"
  PROVE  IInv'
<1> DEFINE new == [req[r] EXCEPT !.pc = pc]
<1>0. req[r] \in Request /\ InOrder(req[r], clock)  BY DEF IInv, TypeOK, AllInOrder
<1>1. new \in Request  BY <1>0 DEF Request
<1>2. /\ new.pc = pc /\ new.count = req[r].count /\ new.failed = req[r].failed
      /\ new.key = req[r].key /\ new.window = req[r].window
      /\ new.maker = req[r].maker /\ new.late = req[r].late
  BY <1>0 DEF Request
<1>3. req' = [req EXCEPT ![r] = new]  BY DEF Goes
<1> HIDE DEF new
<1>4. InOrder(new, clock)  BY <1>0, <1>2 DEF InOrder, Answered
<1> QED  BY <1>1, <1>2, <1>3, <1>4, PlainStep

-----------------------------------------------------------------------------
(* Counting.                                                               *)

\* EXPIRE gives the counter of a window that has begun its full life.
LEMMA WithTTLLivesLong ==
  ASSUME IInv, clock' = clock, NEW r \in Requests, req[r].pc = "expire",
         counter' = WithTTL(Slot(r), CounterTTL)
  PROVE  /\ LivesLongEnough'
         /\ \A s \in Slots : /\ counter'[s].count = counter[s].count
                             /\ counter'[s].maker = counter[s].maker
<1> DEFINE t == Slot(r)
<1>1. /\ t \in Slots /\ t[2] \in Windows /\ t[2] = req[r].window
      /\ counter \in [Slots -> Counter] /\ clock \in Nat
  BY WindowAssumption DEF IInv, TypeOK, Slot, Slots, Request, Times
<1>2. Start(t[2]) <= clock /\ Start(t[2]) \in Nat
  BY <1>1, StartIsNat DEF IInv, AllInOrder, InOrder
<1> HIDE DEF t
<1>3. CASE counter' = counter
  BY <1>1, <1>3 DEF IInv, LivesLongEnough, Expiry
<1>4. CASE counter' = [counter EXCEPT ![t].ttl = CounterTTL]
  <2>1. ASSUME NEW s \in Slots
        PROVE  counter'[s].count = counter[s].count /\ counter'[s].maker = counter[s].maker
    BY <1>1, <1>4 DEF Counter
  <2>2. ASSUME NEW s \in Slots, s # t PROVE counter'[s].ttl = counter[s].ttl
    BY <1>1, <1>4, <2>2 DEF Counter
  <2>3. counter'[t].ttl = CounterTTL  BY <1>1, <1>4 DEF Counter
  <2>4. clock + CounterTTL >= Expiry(t[2])  BY <1>1, <1>2, TTLAssumption DEF Expiry
  <2>5. LivesLongEnough'
    BY <2>2, <2>3, <2>4 DEF IInv, LivesLongEnough, Expiry
  <2> QED  BY <2>1, <2>5
<1> QED  BY <1>3, <1>4 DEF WithTTL, t

LEMMA ExpireStep ==
  ASSUME IInv, TypeOK', NEW r \in Requests, Expire(r)
  PROVE  IInv'
<1>0. /\ req[r] \in Request /\ InOrder(req[r], clock) /\ req[r].pc = "expire" /\ clock' = clock
      /\ req[r].count \in Nat
  BY DEF IInv, TypeOK, AllInOrder, Expire, InOrder, Request
<1>1. /\ LivesLongEnough'
      /\ \A s \in Slots : /\ counter'[s].count = counter[s].count
                          /\ counter'[s].maker = counter[s].maker
  BY <1>0, WithTTLLivesLong DEF Expire
<1>2. PICK pc \in {"429", "passed"} : Goes(r, pc) /\ (pc = "passed" => ~Over(req[r].count))
  BY DEF Expire
<1> DEFINE new == [req[r] EXCEPT !.pc = pc]
<1>3. new \in Request  BY <1>0 DEF Request, Waiting, Answered
<1>4. /\ new.pc = pc /\ new.count = req[r].count /\ new.failed = req[r].failed
      /\ new.key = req[r].key /\ new.window = req[r].window
      /\ new.maker = req[r].maker /\ new.late = req[r].late
  BY <1>0 DEF Request
<1>5. req' = [req EXCEPT ![r] = new]  BY <1>2 DEF Goes
<1> HIDE DEF new
<1>6. pc = "passed" => new.count <= Limit  BY <1>0, <1>2, <1>4, LimitAssumption DEF Over
<1>7. InOrder(new, clock)  BY <1>0, <1>2, <1>4, <1>6, KeysAssumption DEF InOrder
<1> QED  BY <1>0, <1>1, <1>3, <1>4, <1>5, <1>7, QuietStep

LEMMA ExpireFailsStep ==
  ASSUME IInv, TypeOK', NEW r \in Requests, ExpireFails(r)
  PROVE  IInv'
<1> DEFINE new == [req[r] EXCEPT !.pc = "passed", !.failed = TRUE, !.count = None]
<1>0. req[r] \in Request /\ req[r].pc = "expire" /\ clock' = clock
  BY DEF IInv, TypeOK, ExpireFails
<1>1. /\ LivesLongEnough'
      /\ \A s \in Slots : /\ counter'[s].count = counter[s].count
                          /\ counter'[s].maker = counter[s].maker
  <2>1. CASE counter' = counter  BY <1>0, <2>1 DEF IInv, LivesLongEnough, Expiry
  <2>2. CASE counter' = WithTTL(Slot(r), CounterTTL)  BY <1>0, <2>2, WithTTLLivesLong
  <2> QED  BY <2>1, <2>2 DEF ExpireFails
<1>2. new \in Request  BY <1>0 DEF Request, Waiting
<1>3. /\ new.pc = "passed" /\ new.failed = TRUE /\ new.count = None
      /\ new.key = req[r].key /\ new.window = req[r].window
      /\ new.maker = req[r].maker /\ new.late = req[r].late
  BY <1>0 DEF Request
<1>4. req' = [req EXCEPT ![r] = new]  BY DEF ExpireFails, Failed
<1> HIDE DEF new
<1>5. InOrder(new, clock)  BY <1>3 DEF InOrder
<1> QED  BY <1>0, <1>1, <1>2, <1>3, <1>4, <1>5, QuietStep

\* An INCR that took effect: its count is above all that the counter has
\* answered, and it makes a counter only if there is none.
LEMMA CountStep ==
  ASSUME IInv, TypeOK', clock' = clock, NEW r \in Requests, req[r].pc = "incr",
         counter' = [counter EXCEPT ![Slot(r)] = Raised(r)],
         NEW new \in Request, req' = [req EXCEPT ![r] = new],
         InOrder(new, clock),
         new.maker = Raised(r).maker, new.late <=> TooLate(r),
         new.key = req[r].key, new.window = req[r].window,
         new.count \in {None, Raised(r).count}
  PROVE  IInv'
<1> DEFINE t == Slot(r)
           c == counter[t]
           m == new.maker
           count == c.count + 1
<1>1. /\ req \in [Requests -> Request] /\ counter \in [Slots -> Counter] /\ clock \in Nat
      /\ t \in Slots /\ t[2] = req[r].window /\ Start(t[2]) \in Nat
      /\ c.count \in Nat /\ count \in Nat /\ req[r].maker = None
  <2>1. req \in [Requests -> Request] /\ counter \in [Slots -> Counter] /\ clock \in Nat
    BY IInvFacts
  <2>2. t \in Slots /\ t[2] = req[r].window /\ Start(t[2]) \in Nat
    BY IInvFacts DEF Slot
  <2>3. c.count \in Nat  BY <2>1, <2>2 DEF Counter
  <2>4. req[r].maker = None  BY DEF IInv, AllInOrder, InOrder
  <2> QED  BY <2>1, <2>2, <2>3, <2>4
<1>2. /\ counter'[t].count = count /\ counter'[t].ttl = c.ttl /\ counter'[t].maker = m
      /\ m = IF c.count = 0 THEN r ELSE c.maker
      /\ new.count \in {None, count}
      /\ \A s \in Slots \ {t} : counter'[s] = counter[s]
  <2>1. TypeOK  BY DEF IInv
  <2>2. /\ Raised(r).count = count /\ Raised(r).ttl = c.ttl
        /\ Raised(r).maker = IF c.count = 0 THEN r ELSE c.maker
    BY <1>1, <2>1, RaisedIsCounter
  <2>3. /\ counter'[t] = Raised(r)
        /\ \A s \in Slots \ {t} : counter'[s] = counter[s]
    BY <1>1
  <2> QED  BY <2>2, <2>3
<1>3. /\ req'[r] = new
      /\ \A q \in Requests \ {r} : req'[q] = req[q]
  BY <1>1
<1>4. /\ \A q \in Requests : Slot(q)' = Slot(q) /\ (Guarded(q)' <=> Guarded(q))
      /\ \A q \in Requests : req'[q].window = req[q].window
  BY <1>3 DEF Slot, Guarded
<1>5. c.count = 0 <=> c.maker = None
  BY <1>1 DEF IInv, CounterMakers
<1>6. c.count # 0 => /\ c.maker \in Requests /\ c.maker # r
                     /\ req[c.maker].maker = c.maker /\ Slot(c.maker) = t
                     /\ req[c.maker].late => clock >= Expiry(t[2])
  <2>1. c.maker \in Requests \cup {None}  BY <1>1, IInvFacts
  <2> QED  BY <1>1, <1>5, <2>1, NoneAssumption DEF IInv, CounterMakers
\* Nobody has been counted on a counter of its own.
<1>7. \A q \in Requests : req[q].maker # r
  BY <1>1, NoneAssumption DEF IInv, RequestMakers
<1>8. m \in Requests /\ m # None /\ req'[m].maker = m /\ Slot(m) = t
  BY <1>2, <1>3, <1>6, NoneAssumption
<1>9. new.late <=> clock >= Expiry(t[2])
  BY <1>1 DEF TooLate, Expiry
<1>10. AllInOrder'
  <2>1. \A q \in Requests : InOrder(req'[q], clock')
    BY <1>3 DEF IInv, AllInOrder
  <2> QED  BY <2>1 DEF AllInOrder
<1> HIDE DEF t, c, m, count
<1>11. LivesLongEnough'
  <2> SUFFICES ASSUME NEW s \in Slots, counter'[s].ttl # None
               PROVE  clock + counter'[s].ttl >= Expiry(s[2])
    BY DEF LivesLongEnough, Expiry
  <2>1. counter'[s].ttl = counter[s].ttl  BY <1>2 DEF c
  <2> QED  BY <2>1 DEF IInv, LivesLongEnough
<1>12. req'[m].late => clock >= Expiry(t[2])
  <2>1. CASE m = r  BY <1>3, <1>9, <2>1
  <2>2. CASE m # r  BY <1>2, <1>3, <1>6, <1>8, <2>2
  <2> QED  BY <2>1, <2>2
<1>13. RequestMakers'
  <2> SUFFICES ASSUME NEW q \in Requests, NEW n \in Requests, req'[q].maker = n
               PROVE  /\ req'[n].maker = n /\ Slot(n)' = Slot(q)'
                      /\ req'[n].late => req'[q].late
    BY DEF RequestMakers
  <2>1. CASE q = r
    <3>1. n = m /\ Slot(m)' = Slot(q)'  BY <1>3, <1>4, <1>8, <2>1 DEF m, t
    <3>2. req'[m].late => req'[q].late  BY <1>3, <1>9, <1>12, <2>1
    <3> QED  BY <1>8, <3>1, <3>2
  <2>2. CASE q # r
    <3>1. req'[q] = req[q] /\ req[q].maker = n /\ n # r
      BY <1>3, <1>7, <2>2
    <3>2. req'[n] = req[n]  BY <1>3, <3>1
    <3>3. /\ req[n].maker = n /\ Slot(n) = Slot(q)
          /\ req[n].late => req[q].late
      BY <3>1 DEF IInv, RequestMakers
    <3>4. Slot(n)' = Slot(q)'  BY <1>4, <3>3
    <3> QED  BY <3>1, <3>2, <3>3, <3>4
  <2> QED  BY <2>1, <2>2
<1>14. CounterMakers'
  <2>1. ASSUME NEW s \in Slots, NEW n \in Requests, counter'[s].maker = n
        PROVE  /\ req'[n].maker = n /\ Slot(n)' = s
               /\ req'[n].late => clock >= Expiry(s[2])
    <3>1. CASE s = t
      <4>1. n = m  BY <1>2, <2>1, <3>1
      <4>2. Slot(m)' = s  BY <1>4, <1>8, <3>1
      <4> QED  BY <1>8, <1>12, <3>1, <4>1, <4>2
    <3>2. CASE s # t
      <4>1. counter[s].maker = n  BY <1>2, <2>1, <3>2
      <4>2. /\ req[n].maker = n /\ Slot(n) = s
            /\ req[n].late => clock >= Expiry(s[2])
        BY <4>1 DEF IInv, CounterMakers
      <4>3. n # r  BY <1>7, <4>2
      <4>4. req'[n] = req[n] /\ Slot(n)' = Slot(n)  BY <1>3, <1>4, <4>3
      <4> QED  BY <4>2, <4>4
    <3> QED  BY <3>1, <3>2
  <2>2. ASSUME NEW s \in Slots
        PROVE  counter'[s].count = 0 <=> counter'[s].maker = None
    <3>1. CASE s = t  BY <1>1, <1>2, <1>8, <3>1 DEF count
    <3>2. CASE s # t  BY <1>2, <3>2 DEF IInv, CounterMakers
    <3> QED  BY <3>1, <3>2
  <2> QED  BY <2>1, <2>2 DEF CounterMakers, Expiry
\* Whoever has the same maker has a lower count.
<1>15. ASSUME NEW q \in Requests, q # r, req[q].maker = m, req[q].count # None
       PROVE  req[q].count \in Nat /\ req[q].count < count
  <2>1. m # r  BY <1>7, <1>15
  <2>2. m = c.maker /\ c.count # 0  BY <1>2, <2>1
  <2>3. Slot(q) = t  BY <1>6, <1>8, <1>15, <2>2 DEF IInv, RequestMakers
  <2>4. req[q].count <= c.count  BY <1>15, <2>2, <2>3 DEF IInv, CountsAreBelow, c
  <2>5. req[q].count \in Nat  BY <1>1, <1>15 DEF Request
  <2> QED  BY <1>1, <2>4, <2>5 DEF count
<1>16. CountsAreBelow'
  <2> SUFFICES ASSUME NEW q \in Requests, req'[q].count # None,
                      counter'[Slot(q)'].maker = req'[q].maker
               PROVE  req'[q].count <= counter'[Slot(q)'].count
    BY DEF CountsAreBelow
  <2>1. CASE q = r
    <3>1. req'[q].count = count  BY <1>2, <1>3, <2>1
    <3>2. Slot(q)' = t  BY <1>4, <2>1 DEF t
    <3> QED  BY <1>1, <1>2, <3>1, <3>2
  <2>2. CASE q # r
    <3>1. req'[q] = req[q] /\ Slot(q)' = Slot(q)  BY <1>3, <1>4, <2>2
    <3>2. Slot(q) \in Slots  BY <3>1, IInvFacts
    <3>3. CASE Slot(q) = t
      <4>1. req[q].maker = m  BY <1>2, <3>1, <3>3
      <4>2. req[q].count \in Nat /\ req[q].count < count  BY <1>15, <2>2, <3>1, <4>1
      <4> QED  BY <1>1, <1>2, <3>1, <3>3, <4>2
    <3>4. CASE Slot(q) # t
      BY <1>2, <3>1, <3>2, <3>4 DEF IInv, CountsAreBelow
    <3> QED  BY <3>3, <3>4
  <2> QED  BY <2>1, <2>2
<1>17. CountsDiffer'
  <2> SUFFICES ASSUME NEW p \in Requests, NEW q \in Requests, p # q,
                      req'[p].maker = req'[q].maker,
                      req'[p].count # None, req'[q].count # None
               PROVE  req'[p].count # req'[q].count
    BY DEF CountsDiffer
  <2>1. CASE q = r
    <3>1. req[p].count \in Nat /\ req[p].count < count  BY <1>3, <1>15, <2>1 DEF m
    <3>2. req'[q].count = count /\ req'[p].count = req[p].count  BY <1>2, <1>3, <2>1
    <3> QED  BY <1>1, <3>1, <3>2
  <2>2. CASE p = r
    <3>1. req[q].count \in Nat /\ req[q].count < count  BY <1>3, <1>15, <2>2 DEF m
    <3>2. req'[p].count = count /\ req'[q].count = req[q].count  BY <1>2, <1>3, <2>2
    <3> QED  BY <1>1, <3>1, <3>2
  <2>3. CASE p # r /\ q # r
    BY <1>3, <2>3 DEF IInv, CountsDiffer
  <2> QED  BY <2>1, <2>2, <2>3
<1>18. StillAlive'
  <2> SUFFICES ASSUME NEW q \in Requests, Guarded(q), req'[q].maker # None,
                      clock < Expiry(req[q].window)
               PROVE  counter'[Slot(q)].count > 0
    BY <1>4 DEF StillAlive, Expiry
  <2>1. CASE Slot(q) = t  BY <1>1, <1>2, <2>1 DEF count
  <2>2. CASE Slot(q) # t
    <3>1. q # r  BY <2>2 DEF t
    <3>2. req'[q] = req[q]  BY <1>3, <3>1
    <3>3. Slot(q) \in Slots  BY <3>2, IInvFacts
    <3> QED  BY <1>2, <2>2, <3>2, <3>3 DEF IInv, StillAlive
  <2> QED  BY <2>1, <2>2
\* Who makes a counter on time is alone.
<1>19. ASSUME NEW q \in Requests, Guarded(q), Slot(q) = t, req[q].maker = q,
              m = r, ~new.late
       PROVE  FALSE
  <2>1. c.count = 0  BY <1>2, <1>6, <1>19
  <2>2. q # None  BY NoneAssumption
  <2>3. req[q].window = t[2]  BY <1>19 DEF Slot
  <2>4. clock < Expiry(t[2])  BY <1>1, <1>9, <1>19, TTLAssumption DEF Expiry
  <2>5. counter[Slot(q)].count > 0  BY <1>19, <2>2, <2>3, <2>4 DEF IInv, StillAlive
  <2> QED  BY <1>19, <2>1, <2>5 DEF c
<1>20. OneOnTime'
  <2> SUFFICES ASSUME NEW p \in Requests, NEW q \in Requests, Guarded(q), Slot(p) = Slot(q),
                      req'[p].maker = p, req'[q].maker = q, ~req'[p].late, ~req'[q].late,
                      p # q
               PROVE  FALSE
    BY <1>4 DEF OneOnTime
  <2>0. Guarded(p)  BY DEF Slot, Guarded
  <2>1. CASE q = r
    <3>1. Slot(p) = t /\ req[p].maker = p /\ m = r /\ ~new.late  BY <1>3, <2>1 DEF m, t
    <3> QED  BY <1>19, <2>0, <3>1
  <2>2. CASE p = r
    <3>1. Slot(q) = t /\ req[q].maker = q /\ m = r /\ ~new.late  BY <1>3, <2>2 DEF m, t
    <3> QED  BY <1>19, <3>1
  <2>3. CASE p # r /\ q # r
    BY <1>3, <2>3 DEF IInv, OneOnTime
  <2> QED  BY <2>1, <2>2, <2>3
<1> QED  BY <1>10, <1>11, <1>13, <1>14, <1>16, <1>17, <1>18, <1>20 DEF IInv

LEMMA IncrStep ==
  ASSUME IInv, TypeOK', NEW r \in Requests, Incr(r)
  PROVE  IInv'
<1> DEFINE raised == Raised(r)
           late == TooLate(r)
           pc == IF NeedsExpiry(raised.count) THEN "expire"
                 ELSE IF Over(raised.count) THEN "429" ELSE "passed"
           new == [req[r] EXCEPT !.maker = raised.maker, !.late = late,
                                 !.count = raised.count, !.pc = pc]
<1>0. /\ req[r] \in Request /\ req[r].pc = "incr" /\ clock' = clock
      /\ Start(req[r].window) <= clock /\ ~req[r].failed
  BY DEF Incr, IInv, TypeOK, AllInOrder, InOrder
<1>1. /\ counter' = [counter EXCEPT ![Slot(r)] = raised]
      /\ req' = [req EXCEPT ![r] = new]
  BY DEF Incr
<1>2. /\ raised \in Counter /\ raised.count \in Nat /\ raised.count >= 1
      /\ raised.maker \in Requests /\ raised.maker # None
  <2>1. /\ Slot(r) \in Slots /\ TypeOK /\ counter[Slot(r)].count \in Nat
        /\ counter[Slot(r)].maker \in Requests \cup {None}
        /\ counter[Slot(r)].count = 0 <=> counter[Slot(r)].maker = None
    BY <1>0, IInvFacts DEF IInv, TypeOK, Counter, CounterMakers
  <2>2. /\ raised \in Counter /\ raised.count = counter[Slot(r)].count + 1
        /\ raised.maker = IF counter[Slot(r)].count = 0 THEN r ELSE counter[Slot(r)].maker
    BY <2>1, RaisedIsCounter
  <2> QED  BY <2>1, <2>2, NoneAssumption
<1>3. late \in BOOLEAN  BY DEF TooLate
<1>4. /\ pc \in {"expire", "429", "passed"}
      /\ pc = "passed" => ~Over(raised.count)
  OBVIOUS
<1> HIDE DEF raised, late, pc
<1>5. /\ new \in Request /\ new.pc = pc /\ new.count = raised.count
      /\ new.maker = raised.maker /\ new.late = late /\ new.failed = req[r].failed
      /\ new.key = req[r].key /\ new.window = req[r].window
  BY <1>0, <1>2, <1>3, <1>4 DEF Request, Waiting, Answered
<1> HIDE DEF new
<1>6. InOrder(new, clock)
  <2>1. pc = "passed" => raised.count <= Limit
    BY <1>2, <1>4, LimitAssumption DEF Over
  <2>2. raised.count # None  BY <1>2, KeysAssumption
  <2> QED  BY <1>0, <1>2, <1>4, <1>5, <2>1, <2>2 DEF InOrder
<1>7. new.late <=> TooLate(r)  BY <1>5 DEF late
<1>8. /\ counter' = [counter EXCEPT ![Slot(r)] = Raised(r)]
      /\ new.maker = Raised(r).maker /\ new.count \in {None, Raised(r).count}
  BY <1>1, <1>5 DEF raised
<1> QED  BY <1>0, <1>1, <1>5, <1>6, <1>7, <1>8, CountStep

LEMMA IncrFailsStep ==
  ASSUME IInv, TypeOK', NEW r \in Requests, IncrFails(r)
  PROVE  IInv'
<1>0. /\ req[r] \in Request /\ req[r].pc = "incr" /\ clock' = clock
      /\ req[r].count = None /\ req[r].maker = None
  BY DEF IncrFails, IInv, TypeOK, AllInOrder, InOrder
<1>1. CASE counter' = counter /\ Failed(r)
  <2> DEFINE new == [req[r] EXCEPT !.pc = "passed", !.failed = TRUE, !.count = None]
  <2>1. new \in Request  BY <1>0 DEF Request, Waiting
  <2>2. new.pc = "passed" /\ new.failed = TRUE /\ new.count = None /\ new.maker = None
    BY <1>0 DEF Request
  <2>3. req' = [req EXCEPT ![r] = new]  BY <1>1 DEF Failed
  <2> HIDE DEF new
  <2>4. InOrder(new, clock)  BY <2>2 DEF InOrder
  <2> QED  BY <1>0, <1>1, <2>1, <2>2, <2>3, <2>4, PlainStep
<1>2. CASE /\ counter' = [counter EXCEPT ![Slot(r)] = Raised(r)]
           /\ req' = [req EXCEPT ![r].pc = "passed", ![r].failed = TRUE,
                        ![r].maker = Raised(r).maker, ![r].late = TooLate(r)]
  <2> DEFINE raised == Raised(r)
             late == TooLate(r)
             new == [req[r] EXCEPT !.pc = "passed", !.failed = TRUE,
                                   !.maker = raised.maker, !.late = late]
  <2>1. Slot(r) \in Slots /\ TypeOK  BY <1>0, IInvFacts DEF IInv
  <2>2. raised \in Counter  BY <2>1, RaisedIsCounter
  <2>3. late \in BOOLEAN  BY DEF TooLate
  <2>4. req' = [req EXCEPT ![r] = new]  BY <1>2
  <2>5. "passed" \in {"idle"} \cup Waiting \cup Answered  BY DEF Waiting
  <2> HIDE DEF raised, late
  <2>6. /\ new \in Request /\ new.pc = "passed" /\ new.failed = TRUE /\ new.count = None
        /\ new.maker = raised.maker /\ new.late = late
        /\ new.key = req[r].key /\ new.window = req[r].window
    BY <1>0, <2>2, <2>3, <2>5 DEF Request, Counter
  <2> HIDE DEF new
  <2>7. InOrder(new, clock)  BY <2>6 DEF InOrder
  <2>8. new.late <=> TooLate(r)  BY <2>6 DEF late
  <2>9. new.maker = Raised(r).maker  BY <2>6 DEF raised
  <2> QED  BY <1>0, <1>2, <2>4, <2>6, <2>7, <2>8, <2>9, CountStep
<1> QED  BY <1>1, <1>2 DEF IncrFails

-----------------------------------------------------------------------------
(* The other steps.                                                        *)

\* A step that loses counters, time passing or not: a guarded one only once it
\* has expired.
LEMMA LossStep ==
  ASSUME IInv, TypeOK', req' = req, clock' \in Nat, clock' >= clock, LivesLongEnough',
         \A s \in Slots :
            \/ counter'[s].count = counter[s].count /\ counter'[s].maker = counter[s].maker
            \/ /\ counter'[s].count = 0 /\ counter'[s].maker = None
               /\ s[1] \in Volatile \/ clock' >= Expiry(s[2])
  PROVE  IInv'
<1>0. /\ clock \in Nat
      /\ \A r \in Requests : req[r].maker # None => Slot(r) \in Slots
      /\ \A r \in Requests : Start(req[r].window) \in Nat
      /\ \A s \in Slots : Expiry(s[2]) \in Nat
  BY IInvFacts, StartIsNat, TTLAssumption DEF IInv, TypeOK, Request, Slots, Expiry
<1>1. AllInOrder'
  <2>1. \A r \in Requests : InOrder(req[r], clock')
    BY <1>0 DEF IInv, AllInOrder, InOrder
  <2> QED  BY <2>1 DEF AllInOrder
<1>2. RequestMakers' /\ CountsDiffer' /\ OneOnTime'
  BY DEF IInv, RequestMakers, CountsDiffer, OneOnTime, Slot, Guarded
<1>3. CounterMakers'
  <2>1. ASSUME NEW s \in Slots
        PROVE  /\ counter'[s].count = 0 <=> counter'[s].maker = None
               /\ \A m \in Requests : counter'[s].maker = m =>
                     /\ req[m].maker = m /\ Slot(m) = s
                     /\ req[m].late => clock' >= Expiry(s[2])
    <3>1. CASE counter'[s].count = 0 /\ counter'[s].maker = None  BY <3>1, NoneAssumption
    <3>2. CASE counter'[s].count = counter[s].count /\ counter'[s].maker = counter[s].maker
      <4>1. clock >= Expiry(s[2]) => clock' >= Expiry(s[2])  BY <1>0
      <4> QED  BY <3>2, <4>1 DEF IInv, CounterMakers
    <3> QED  BY <3>1, <3>2
  <2> QED  BY <2>1 DEF CounterMakers, Expiry, Slot
<1>4. CountsAreBelow'
  <2> SUFFICES ASSUME NEW r \in Requests, req[r].count # None,
                      counter'[Slot(r)].maker = req[r].maker
               PROVE  req[r].count <= counter'[Slot(r)].count
    BY DEF CountsAreBelow, Slot
  <2>1. req[r].maker # None /\ Slot(r) \in Slots  BY <1>0, IInvFacts
  <2>2. /\ counter'[Slot(r)].count = counter[Slot(r)].count
        /\ counter'[Slot(r)].maker = counter[Slot(r)].maker
    BY <2>1
  <2> QED  BY <2>2 DEF IInv, CountsAreBelow
<1>5. StillAlive'
  <2> SUFFICES ASSUME NEW r \in Requests, Guarded(r), req[r].maker # None,
                      clock' < Expiry(req[r].window)
               PROVE  counter'[Slot(r)].count > 0
    BY DEF StillAlive, Slot, Guarded, Expiry
  <2> DEFINE s == Slot(r)
  <2>1. s \in Slots /\ s[1] \notin Volatile /\ s[2] = req[r].window /\ Expiry(s[2]) \in Nat
    BY <1>0 DEF Slot, Guarded
  <2>2. clock < Expiry(req[r].window) /\ ~(clock' >= Expiry(s[2]))  BY <1>0, <2>1
  <2>3. counter[s].count > 0  BY <2>2 DEF IInv, StillAlive
  <2> HIDE DEF s
  <2>4. counter'[s].count = counter[s].count  BY <2>1, <2>2
  <2> QED  BY <2>3, <2>4 DEF s
<1> QED  BY <1>1, <1>2, <1>3, <1>4, <1>5 DEF IInv

LEMMA EvictStep ==
  ASSUME IInv, TypeOK', NEW s \in Slots, Evict(s)
  PROVE  IInv'
<1>1. /\ req' = req /\ clock' = clock /\ clock \in Nat /\ s[1] \in Volatile
      /\ counter \in [Slots -> Counter]
      /\ counter' = [counter EXCEPT ![s] = NoCounter]
  BY IInvFacts DEF Evict
<1>2. \A v \in Slots : counter'[v] = IF v = s THEN NoCounter ELSE counter[v]
  BY <1>1
<1>3. NoCounter.count = 0 /\ NoCounter.maker = None /\ NoCounter.ttl = None
  BY DEF NoCounter
<1>4. LivesLongEnough'
  BY <1>1, <1>2, <1>3 DEF IInv, LivesLongEnough, Expiry
<1>5. \A v \in Slots :
         \/ counter'[v].count = counter[v].count /\ counter'[v].maker = counter[v].maker
         \/ /\ counter'[v].count = 0 /\ counter'[v].maker = None
            /\ v[1] \in Volatile \/ clock' >= Expiry(v[2])
  BY <1>1, <1>2, <1>3
<1> QED  BY <1>1, <1>4, <1>5, LossStep

\* A counter dies only once it has expired, and does so with its maker.
LEMMA TickStep ==
  ASSUME IInv, TypeOK', Tick
  PROVE  IInv'
<1>0. /\ req' = req /\ clock' = clock + 1 /\ clock \in Nat
      /\ counter \in [Slots -> Counter]
      /\ counter' = [s \in Slots |-> Aged(counter[s])]
  BY IInvFacts DEF Tick
<1>1. ASSUME NEW s \in Slots, counter[s].ttl = None
      PROVE  counter'[s] = counter[s]
  <2>1. Aged(counter[s]) = counter[s]  BY <1>1, KeysAssumption DEF Aged
  <2> QED  BY <1>0, <2>1
<1>2. ASSUME NEW s \in Slots, counter[s].ttl = 1
      PROVE  /\ counter'[s].count = 0 /\ counter'[s].maker = None /\ counter'[s].ttl = None
             /\ clock' >= Expiry(s[2])
  <2>1. counter[s].ttl # None  BY <1>2, KeysAssumption
  <2>2. Aged(counter[s]) = NoCounter  BY <1>2, <2>1 DEF Aged
  <2>3. clock + 1 >= Expiry(s[2])  BY <1>2, <2>1 DEF IInv, LivesLongEnough
  <2> QED  BY <1>0, <2>2, <2>3 DEF NoCounter
<1>3. ASSUME NEW s \in Slots, counter[s].ttl # None, counter[s].ttl # 1
      PROVE  /\ counter'[s].count = counter[s].count /\ counter'[s].maker = counter[s].maker
             /\ counter'[s].ttl = counter[s].ttl - 1 /\ counter[s].ttl \in Nat
             /\ clock' + counter'[s].ttl >= Expiry(s[2])
  <2>1. counter[s] \in Counter /\ counter[s].ttl \in Nat
    BY <1>0, <1>3, TTLAssumption DEF Counter
  <2>2. counter'[s] = [counter[s] EXCEPT !.ttl = counter[s].ttl - 1]
    BY <1>0, <1>3 DEF Aged
  <2>3. /\ counter'[s].ttl = counter[s].ttl - 1
        /\ counter'[s].count = counter[s].count /\ counter'[s].maker = counter[s].maker
    BY <2>1, <2>2 DEF Counter
  <2>4. clock + counter[s].ttl >= Expiry(s[2])  BY <1>3 DEF IInv, LivesLongEnough
  <2>5. clock' + counter'[s].ttl = clock + counter[s].ttl  BY <1>0, <2>1, <2>3
  <2> QED  BY <2>1, <2>3, <2>4, <2>5
<1>4. LivesLongEnough'
  <2> SUFFICES ASSUME NEW s \in Slots, counter'[s].ttl # None
               PROVE  clock' + counter'[s].ttl >= Expiry(s[2])
    BY DEF LivesLongEnough, Expiry
  <2> QED  BY <1>1, <1>2, <1>3
<1>5. \A s \in Slots :
         \/ counter'[s].count = counter[s].count /\ counter'[s].maker = counter[s].maker
         \/ /\ counter'[s].count = 0 /\ counter'[s].maker = None
            /\ s[1] \in Volatile \/ clock' >= Expiry(s[2])
  <2> SUFFICES ASSUME NEW s \in Slots
               PROVE  \/ counter'[s].count = counter[s].count /\ counter'[s].maker = counter[s].maker
                      \/ /\ counter'[s].count = 0 /\ counter'[s].maker = None
                         /\ s[1] \in Volatile \/ clock' >= Expiry(s[2])
    OBVIOUS
  <2> QED  BY <1>1, <1>2, <1>3
<1>6. clock' \in Nat /\ clock' >= clock  BY <1>0
<1> QED  BY <1>0, <1>4, <1>5, <1>6, LossStep

LEMMA IInvNext ==
  ASSUME IInv, [Next]_vars
  PROVE  IInv'
<1>t. TypeOK'  BY TypeNext DEF IInv
<1>1. ASSUME NEW r \in Requests, Step(r) PROVE IInv'
  <2>1. ASSUME NEW k \in Keys, Receive(r, k) PROVE IInv'  BY <1>t, <2>1, ReceiveStep
  <2>2. CASE Find(r)  BY <1>t, <2>2, FindStep
  <2>3. CASE MarkExpired(r)
    BY <1>t, <2>3, EndStep DEF MarkExpired, Answered
  <2>4. CASE Incr(r)  BY <1>t, <2>4, IncrStep
  <2>5. CASE IncrFails(r)  BY <1>t, <2>5, IncrFailsStep
  <2>6. CASE Expire(r)  BY <1>t, <2>6, ExpireStep
  <2>7. CASE ExpireFails(r)  BY <1>t, <2>7, ExpireFailsStep
  <2>8. CASE Finish(r)  BY <1>t, <2>8, EndStep DEF Finish, Answered
  <2>9. CASE DatabaseFails(r)  BY <1>t, <2>9, EndStep DEF DatabaseFails, Answered
  <2> QED  BY <1>1, <2>1, <2>2, <2>3, <2>4, <2>5, <2>6, <2>7, <2>8, <2>9 DEF Step
<1>2. CASE UNCHANGED <<clock, counter, req>>
  <2>1. LivesLongEnough'  BY <1>2 DEF IInv, LivesLongEnough, Expiry
  <2>2. clock' \in Nat /\ clock' >= clock  BY <1>2, IInvFacts
  <2> QED  BY <1>t, <1>2, <2>1, <2>2, LossStep
<1>3. ASSUME NEW s \in Slots, Evict(s) PROVE IInv'  BY <1>t, <1>3, EvictStep
<1>4. CASE Tick  BY <1>t, <1>4, TickStep
<1> QED  BY <1>1, <1>2, <1>3, <1>4 DEF Next, Generate, Rotate, Revoke, vars

\* The admitted of a slot have counts up to Limit, and those with one maker have
\* different ones.
LEMMA AdmittedHaveCounts ==
  ASSUME IInv, NEW s \in Slots, NEW r \in Admitted(s)
  PROVE  /\ r \in Requests /\ Slot(r) = s
         /\ req[r].count \in 1 .. Limit /\ req[r].count # None
         /\ req[r].maker \in Makers(s)
<1>1. /\ r \in Requests /\ Slot(r) = s
      /\ req[r].count # None /\ req[r].count <= Limit /\ req[r].count >= 1
  BY DEF Admitted, IInv, AllInOrder, InOrder
<1>2. req[r].count \in Nat  BY <1>1 DEF IInv, TypeOK, Request
<1>3. req[r].maker # None /\ req[r].maker \in Requests  BY <1>1, IInvFacts
<1>4. req[r].maker \in Makers(s)  BY <1>1, <1>3 DEF IInv, RequestMakers, Makers
<1> QED  BY <1>1, <1>2, <1>4, LimitAssumption

LEMMA IInvLimits == ASSUME IsFiniteSet(Requests) PROVE IInv => LimitHolds
<1> SUFFICES ASSUME IInv, NEW s \in Slots
             PROVE  /\ s[1] \notin Volatile =>
                         Cardinality({r \in Admitted(s) : ~req[r].late}) <= Limit
                    /\ Cardinality(Admitted(s)) <= Limit * Cardinality(Makers(s))
  BY DEF LimitHolds
<1>0. IsFiniteSet(1 .. Limit) /\ Cardinality(1 .. Limit) = Limit
  BY FS_Interval, LimitAssumption
\* Those on time have one maker.
<1>1. ASSUME s[1] \notin Volatile
      PROVE  Cardinality({r \in Admitted(s) : ~req[r].late}) <= Limit
  <2> DEFINE in == {r \in Admitted(s) : ~req[r].late}
             f == [r \in in |-> req[r].count]
  <2>1. f \in [in -> 1 .. Limit]  BY AdmittedHaveCounts
  <2>2. ASSUME NEW q \in in, NEW r \in in PROVE req[q].maker = req[r].maker
    <3>1. /\ q \in Requests /\ r \in Requests /\ Slot(q) = s /\ Slot(r) = s
          /\ req[q].maker \in Makers(s) /\ req[r].maker \in Makers(s)
      BY AdmittedHaveCounts
    <3> DEFINE m == req[q].maker
               n == req[r].maker
    <3>2. /\ m \in Requests /\ n \in Requests /\ req[m].maker = m /\ req[n].maker = n
          /\ Slot(m) = s /\ Slot(n) = s /\ m # None /\ n # None
      BY <3>1, NoneAssumption DEF Makers
    <3>3. ~req[q].late /\ ~req[r].late  OBVIOUS
    <3>4. ~req[m].late /\ ~req[n].late
      BY <3>1, <3>2, <3>3 DEF IInv, RequestMakers
    <3>5. Guarded(n)  BY <1>1, <3>2 DEF Guarded, Slot
    <3> HIDE DEF m, n
    <3>6. m = n  BY <3>2, <3>4, <3>5 DEF IInv, OneOnTime
    <3> QED  BY <3>6 DEF m, n
  <2>3. \A q, r \in in : f[q] = f[r] => q = r
    <3> SUFFICES ASSUME NEW q \in in, NEW r \in in, req[q].count = req[r].count PROVE q = r
      OBVIOUS
    <3>1. /\ q \in Requests /\ r \in Requests /\ req[q].count # None /\ req[r].count # None
      BY AdmittedHaveCounts
    <3> QED  BY <2>2, <3>1 DEF IInv, CountsDiffer
  <2>4. f \in Injection(in, 1 .. Limit)  BY <2>1, <2>3 DEF Injection, IsInjective
  <2> QED  BY <1>0, <2>4, FS_Injection
<1>2. Cardinality(Admitted(s)) <= Limit * Cardinality(Makers(s))
  <2> DEFINE T == Makers(s) \X (1 .. Limit)
             f == [r \in Admitted(s) |-> <<req[r].maker, req[r].count>>]
  <2>1. IsFiniteSet(Makers(s)) /\ Cardinality(Makers(s)) \in Nat
    BY FS_Subset, FS_CardinalityType DEF Makers
  <2>2. IsFiniteSet(T) /\ Cardinality(T) = Cardinality(Makers(s)) * Limit
    BY <1>0, <2>1, FS_Product
  <2>3. f \in [Admitted(s) -> T]  BY AdmittedHaveCounts
  <2>4. \A q, r \in Admitted(s) : f[q] = f[r] => q = r
    <3> SUFFICES ASSUME NEW q \in Admitted(s), NEW r \in Admitted(s), f[q] = f[r] PROVE q = r
      OBVIOUS
    <3>1. req[q].maker = req[r].maker /\ req[q].count = req[r].count  OBVIOUS
    <3>2. /\ q \in Requests /\ r \in Requests /\ req[q].count # None /\ req[r].count # None
      BY AdmittedHaveCounts
    <3> QED  BY <3>1, <3>2 DEF IInv, CountsDiffer
  <2> HIDE DEF T
  <2>5. f \in Injection(Admitted(s), T)  BY <2>3, <2>4 DEF Injection, IsInjective
  <2>6. Cardinality(Admitted(s)) <= Cardinality(T)  BY <2>2, <2>5, FS_Injection
  <2>7. Cardinality(Makers(s)) * Limit = Limit * Cardinality(Makers(s))
    BY <2>1, LimitAssumption
  <2> QED  BY <2>2, <2>6, <2>7
<1> QED  BY <1>1, <1>2

\* A key that Redis does not evict opens the door at most Limit times per window
\* to requests counted before the window's counter may expire, and nobody gets in
\* more than Limit at a time on each counter that is made, however long Redis
\* keeps a request waiting and whatever fails.
THEOREM LimitIsKept ==
  ASSUME IsFiniteSet(Requests)
  PROVE  Spec => []LimitHolds
<1>1. Init => IInv  BY IInvInit
<1>2. IInv /\ [Next]_vars => IInv'  BY IInvNext
<1> QED  BY <1>1, <1>2, IInvLimits, PTL DEF Spec

-----------------------------------------------------------------------------
(* Counters do not live for ever.                                          *)

\* What an INCR does to the request and its counter: nothing but a failure, or
\* it counts, with an answer or without.
LEMMA Counting ==
  ASSUME IInv, NEW r \in Requests, Incr(r) \/ IncrFails(r)
  PROVE  /\ req[r].pc = "incr" /\ Slot(r) \in Slots /\ UNCHANGED <<clock, key>>
         /\ \A q \in Requests \ {r} : req'[q] = req[q]
         /\ \A s \in Slots \ {Slot(r)} : counter'[s] = counter[s]
         /\ req'[r].key = req[r].key /\ req'[r].window = req[r].window
         /\ req'[r].barred = req[r].barred
         /\ \/ /\ counter' = counter /\ req'[r].pc = "passed" /\ req'[r].failed
               /\ req'[r].maker = None /\ req'[r].count = None
            \/ /\ counter'[Slot(r)].count = counter[Slot(r)].count + 1
               /\ counter'[Slot(r)].ttl = counter[Slot(r)].ttl
               /\ req'[r].maker # None
               /\ \/ req'[r].pc = "passed" /\ req'[r].failed /\ req'[r].count = None
                  \/ /\ req'[r].count = counter[Slot(r)].count + 1
                     /\ req'[r].count = 1 => req'[r].pc = "expire"
                     /\ req'[r].pc \in {"expire", "429", "passed"}
                     /\ req'[r].pc = "429" => req'[r].count > Limit
<1> DEFINE raised == Raised(r)
           late == TooLate(r)
           pc == IF NeedsExpiry(raised.count) THEN "expire"
                 ELSE IF Over(raised.count) THEN "429" ELSE "passed"
<1>1. /\ req[r].pc = "incr" /\ UNCHANGED <<clock, key>>
      /\ req[r].maker = None /\ req[r].count = None
  BY DEF Incr, IncrFails, IInv, AllInOrder, InOrder
<1>2. Slot(r) \in Slots /\ req \in [Requests -> Request] /\ counter \in [Slots -> Counter]
  BY <1>1, IInvFacts
<1>3. /\ raised.count = counter[Slot(r)].count + 1 /\ raised.ttl = counter[Slot(r)].ttl
      /\ raised.maker # None
  <2>1. counter[Slot(r)].count = 0 <=> counter[Slot(r)].maker = None
    BY <1>2 DEF IInv, CounterMakers
  <2>2. /\ raised.count = counter[Slot(r)].count + 1 /\ raised.ttl = counter[Slot(r)].ttl
        /\ raised.maker = IF counter[Slot(r)].count = 0 THEN r ELSE counter[Slot(r)].maker
    BY <1>2, RaisedIsCounter DEF IInv
  <2> QED  BY <2>1, <2>2, NoneAssumption
<1>4. /\ pc \in {"expire", "429", "passed"} /\ (raised.count = 1 => pc = "expire")
      /\ pc = "429" => raised.count > Limit
  BY DEF NeedsExpiry, Over
<1>5. \/ counter' = counter /\ Failed(r)
      \/ /\ counter' = [counter EXCEPT ![Slot(r)] = raised]
         /\ \/ req' = [req EXCEPT ![r].pc = "passed", ![r].failed = TRUE,
                                  ![r].maker = raised.maker, ![r].late = late]
            \/ req' = [req EXCEPT ![r].maker = raised.maker, ![r].late = late,
                                  ![r].count = raised.count, ![r].pc = pc]
  BY DEF Incr, IncrFails
<1> HIDE DEF raised, late, pc
<1>6. CASE counter' = counter /\ Failed(r)
  <2>1. /\ req'[r].pc = "passed" /\ req'[r].failed = TRUE /\ req'[r].count = None
        /\ req'[r].key = req[r].key /\ req'[r].window = req[r].window
        /\ req'[r].barred = req[r].barred /\ req'[r].maker = None
        /\ \A q \in Requests \ {r} : req'[q] = req[q]
    BY <1>1, <1>2, <1>6 DEF Failed, Request
  <2> QED  BY <1>1, <1>2, <1>6, <2>1
<1>7. ASSUME counter' = [counter EXCEPT ![Slot(r)] = raised]
      PROVE  /\ counter'[Slot(r)].count = counter[Slot(r)].count + 1
             /\ counter'[Slot(r)].ttl = counter[Slot(r)].ttl
             /\ \A s \in Slots \ {Slot(r)} : counter'[s] = counter[s]
  BY <1>2, <1>3, <1>7
<1>8. CASE /\ counter' = [counter EXCEPT ![Slot(r)] = raised]
           /\ req' = [req EXCEPT ![r].pc = "passed", ![r].failed = TRUE,
                                 ![r].maker = raised.maker, ![r].late = late]
  <2>1. /\ req'[r].pc = "passed" /\ req'[r].failed = TRUE /\ req'[r].count = None
        /\ req'[r].key = req[r].key /\ req'[r].window = req[r].window
        /\ req'[r].barred = req[r].barred /\ req'[r].maker = raised.maker
        /\ \A q \in Requests \ {r} : req'[q] = req[q]
    BY <1>1, <1>2, <1>8 DEF Request
  <2> QED  BY <1>1, <1>2, <1>3, <1>7, <1>8, <2>1
<1>9. CASE /\ counter' = [counter EXCEPT ![Slot(r)] = raised]
           /\ req' = [req EXCEPT ![r].maker = raised.maker, ![r].late = late,
                                 ![r].count = raised.count, ![r].pc = pc]
  <2>1. /\ req'[r].pc = pc /\ req'[r].count = raised.count
        /\ req'[r].key = req[r].key /\ req'[r].window = req[r].window
        /\ req'[r].barred = req[r].barred /\ req'[r].maker = raised.maker
        /\ \A q \in Requests \ {r} : req'[q] = req[q]
    BY <1>1, <1>2, <1>9 DEF Request
  <2> QED  BY <1>1, <1>2, <1>3, <1>4, <1>7, <1>9, <2>1
<1> QED  BY <1>5, <1>6, <1>8, <1>9

MInv == IInv /\ CountersExpire

\* Who keeps a counter without expiry.
Keeper(r) == Took(r) /\ (req[r].pc = "expire" \/ req[r].failed)

LEMMA MInvNext == MInv /\ [Next]_vars => MInv'
<1> SUFFICES ASSUME MInv, [Next]_vars PROVE MInv'  OBVIOUS
<1>t. IInv'  BY IInvNext DEF MInv
<1>s. /\ req \in [Requests -> Request] /\ counter \in [Slots -> Counter]
      /\ \A r \in Requests : req[r].pc # "idle" => Slot(r) \in Slots
  BY IInvFacts DEF MInv
\* A request that has not come to Redis has done nothing there.
<1>e. \A r \in Requests : req[r].pc \in {"idle", "find", "expiring", "incr"} => ~Keeper(r)
  BY DEF MInv, IInv, AllInOrder, InOrder, Keeper, Took
<1>m. \A s \in Slots : counter[s].count > 0 /\ counter[s].ttl = None =>
        \E r \in Requests : Keeper(r) /\ Slot(r) = s
  BY DEF MInv, CountersExpire, Keeper
\* A step that leaves every keeper as it is, and makes no counter immortal.
<1>k. ASSUME \A r \in Requests : Keeper(r) => Keeper(r)' /\ Slot(r)' = Slot(r),
             \A s \in Slots : counter'[s].count > 0 /\ counter'[s].ttl = None =>
                \/ counter[s].count > 0 /\ counter[s].ttl = None
                \/ \E r \in Requests : Keeper(r)' /\ Slot(r)' = s
      PROVE  MInv'
  BY <1>t, <1>m, <1>k DEF MInv, CountersExpire, Keeper
\* Of those that are no keepers nothing has to be kept.
<1>1. ASSUME NEW r \in Requests, ~Keeper(r), counter' = counter,
             \A q \in Requests \ {r} : req'[q] = req[q]
      PROVE  MInv'
  <2>1. \A q \in Requests : Keeper(q) => Keeper(q)' /\ Slot(q)' = Slot(q)
    BY <1>1 DEF Keeper, Took, Slot
  <2> QED  BY <1>k, <1>1, <2>1
<1>2. ASSUME NEW r \in Requests, NEW k \in Keys, Receive(r, k) PROVE MInv'
  <2>1. counter' = counter /\ req[r].pc = "idle" /\ \A q \in Requests \ {r} : req'[q] = req[q]
    BY <1>2, <1>s DEF Receive
  <2> QED  BY <1>1, <1>e, <2>1
<1>3. ASSUME NEW r \in Requests, Find(r) \/ MarkExpired(r) \/ DatabaseFails(r) PROVE MInv'
  <2>1. /\ counter' = counter /\ req[r].pc \in {"find", "expiring"}
        /\ \A q \in Requests \ {r} : req'[q] = req[q]
    BY <1>3, <1>s DEF Find, MarkExpired, DatabaseFails, Goes
  <2> QED  BY <1>1, <1>e, <2>1
<1>4. ASSUME NEW r \in Requests, Incr(r) \/ IncrFails(r) PROVE MInv'
  <2> DEFINE t == Slot(r)
  <2>0. IInv  BY DEF MInv
  <2>1. /\ req[r].pc = "incr" /\ t \in Slots /\ Slot(r)' = t
        /\ \A q \in Requests \ {r} : req'[q] = req[q]
        /\ \A s \in Slots \ {t} : counter'[s] = counter[s]
    BY <1>4, <2>0, Counting DEF Slot
  <2>2. \A q \in Requests : Keeper(q) => Keeper(q)' /\ Slot(q)' = Slot(q)
    BY <1>e, <2>1 DEF Keeper, Took, Slot
  <2>3. \/ counter' = counter
        \/ Keeper(r)'
        \/ /\ counter'[t].count = counter[t].count + 1 /\ counter'[t].ttl = counter[t].ttl
           /\ counter[t].count + 1 # 1
    BY <1>4, <2>0, Counting DEF Keeper, Took
  <2>4. counter[t].count \in Nat  BY <1>s, <2>1 DEF Counter
  <2>5. ASSUME NEW s \in Slots, counter'[s].count > 0, counter'[s].ttl = None
        PROVE  \/ counter[s].count > 0 /\ counter[s].ttl = None
               \/ \E q \in Requests : Keeper(q)' /\ Slot(q)' = s
    <3>1. CASE s # t  BY <2>1, <2>5, <3>1
    <3>2. CASE s = t /\ Keeper(r)'  BY <2>1, <3>2
    <3>3. CASE s = t /\ ~Keeper(r)'  BY <2>3, <2>4, <2>5, <3>3
    <3> QED  BY <3>1, <3>2, <3>3
  <2> QED  BY <1>k, <2>2, <2>5
<1>5. ASSUME NEW r \in Requests, Expire(r) PROVE MInv'
  <2>1. /\ req[r].pc = "expire" /\ Slot(r) \in Slots
        /\ \A q \in Requests \ {r} : req'[q] = req[q]
    BY <1>5, <1>s DEF Expire, Goes
  <2>2. \A s \in Slots : counter'[s].count > 0 /\ counter'[s].ttl = None =>
          s # Slot(r) /\ counter[s].count > 0 /\ counter[s].ttl = None
    <3>1. CounterTTL # None  BY TTLAssumption, KeysAssumption
    <3>2. counter' = WithTTL(Slot(r), CounterTTL)  BY <1>5 DEF Expire
    <3>3. CASE counter[Slot(r)].count = 0
      BY <1>s, <2>1, <3>2, <3>3 DEF WithTTL
    <3>4. CASE counter' = [counter EXCEPT ![Slot(r)].ttl = CounterTTL]
      BY <1>s, <2>1, <3>1, <3>4 DEF Counter
    <3> QED  BY <3>2, <3>3, <3>4 DEF WithTTL
  <2>3. ASSUME NEW s \in Slots, counter'[s].count > 0, counter'[s].ttl = None
        PROVE  \E q \in Requests : Keeper(q)' /\ Slot(q)' = s
    <3>1. PICK q \in Requests : Keeper(q) /\ Slot(q) = s  BY <1>m, <2>2, <2>3
    <3>2. q # r  BY <2>2, <2>3, <3>1
    <3> QED  BY <2>1, <3>1, <3>2 DEF Keeper, Took, Slot
  <2> QED  BY <1>t, <2>3 DEF MInv, CountersExpire, Keeper
<1>6. ASSUME NEW r \in Requests, ExpireFails(r) PROVE MInv'
  <2>1. /\ req[r].pc = "expire" /\ Slot(r) \in Slots /\ Slot(r)' = Slot(r)
        /\ req'[r].pc = "passed" /\ req'[r].failed = TRUE /\ req'[r].maker = req[r].maker
        /\ \A q \in Requests \ {r} : req'[q] = req[q]
    BY <1>6, <1>s DEF ExpireFails, Failed, Request, Slot
  <2>2. \A q \in Requests : Keeper(q) => Keeper(q)' /\ Slot(q)' = Slot(q)
    BY <2>1 DEF Keeper, Took, Slot
  <2>3. \A s \in Slots : counter'[s].count > 0 /\ counter'[s].ttl = None =>
          counter[s].count > 0 /\ counter[s].ttl = None
    <3>1. CounterTTL # None  BY TTLAssumption, KeysAssumption
    <3>2. CASE counter' = counter  BY <3>2
    <3>3. CASE counter' = [counter EXCEPT ![Slot(r)].ttl = CounterTTL]
      BY <1>s, <2>1, <3>1, <3>3 DEF Counter
    <3> QED  BY <1>6, <3>2, <3>3 DEF ExpireFails, WithTTL
  <2> QED  BY <1>k, <2>2, <2>3
<1>7. ASSUME NEW r \in Requests, Finish(r) PROVE MInv'
  <2>1. /\ req[r].pc = "passed" /\ counter' = counter
        /\ req'[r].maker = req[r].maker /\ req'[r].failed = req[r].failed
        /\ Slot(r)' = Slot(r)
        /\ \A q \in Requests \ {r} : req'[q] = req[q]
    BY <1>7, <1>s DEF Finish, Goes, Request, Slot
  <2>2. \A q \in Requests : Keeper(q) => Keeper(q)' /\ Slot(q)' = Slot(q)
    BY <2>1 DEF Keeper, Took, Slot
  <2> QED  BY <1>k, <2>1, <2>2
<1>8. ASSUME req' = req,
             \A s \in Slots : counter'[s].count > 0 /\ counter'[s].ttl = None =>
                counter[s].count > 0 /\ counter[s].ttl = None
      PROVE  MInv'
  BY <1>k, <1>8 DEF Keeper, Took, Slot
<1>9. ASSUME NEW s \in Slots, Evict(s) PROVE MInv'
  <2>1. \A v \in Slots : counter'[v].count > 0 => counter'[v] = counter[v]
    BY <1>9, <1>s DEF Evict, NoCounter
  <2> QED  BY <1>8, <1>9, <2>1 DEF Evict
<1>10. CASE Tick
  <2>1. \A c \in Counter : Aged(c).count > 0 /\ Aged(c).ttl = None => c.count > 0 /\ c.ttl = None
    <3> SUFFICES ASSUME NEW c \in Counter, c.ttl # None, Aged(c).count > 0 PROVE Aged(c).ttl # None
      BY KeysAssumption DEF Aged
    <3>1. c.ttl # 1  BY DEF Aged, NoCounter
    <3>2. Aged(c).ttl = c.ttl - 1  BY <3>1 DEF Aged, Counter
    <3> QED  BY <3>2, TTLAssumption, KeysAssumption DEF Counter
  <2> QED  BY <1>8, <1>10, <1>s, <2>1 DEF Tick
<1>11. ASSUME req' = req, counter' = counter PROVE MInv'
  BY <1>8, <1>11
<1> QED
  BY <1>2, <1>3, <1>4, <1>5, <1>6, <1>7, <1>9, <1>10, <1>11
  DEF Next, Step, Generate, Rotate, Revoke, vars

\* A counter without expiry is about to get one, or Redis failed whoever made
\* it or counted in it, for any constants.
THEOREM CountersAreMortal == Spec => []CountersExpire
<1>1. Init => MInv
  BY IInvInit DEF Init, MInv, CountersExpire, NoCounter
<1> QED  BY <1>1, MInvNext, PTL DEF Spec, MInv

-----------------------------------------------------------------------------
(* Nobody is refused without cause.                                        *)

\* The requests counted in a slot, those aside whose key was no good when they came.
Counted(s) ==
    {q \in Requests : Took(q) /\ ~req[q].barred /\ Slot(q) = s}

Lapsed(k) == key[k] # "active" \/ Overdue(k)

\* Of one request: a key that was no good when it came is none now and does not
\* get it as far as Redis; it has a count only once it was counted, and is
\* refused for one over the limit only.
Due(r) ==
    LET q == req[r] IN
    /\ q.pc # "idle" => key[q.key] # "unissued"
    /\ q.barred => q.pc \notin {"incr", "expire", "passed", "admitted", "429"}
    /\ q.barred /\ q.pc = "find" => Lapsed(q.key)
    /\ q.pc \in {"idle", "find", "expiring", "incr"} => q.maker = None /\ q.count = None
    /\ q.pc = "expire" => q.count # None
    /\ q.pc = "429" => q.count # None /\ q.count > Limit
    /\ q.count # None => q.maker # None

\* Redis shows no more than were counted, in the counters and in its answers.
CountersAreTaken == \A s \in Slots : counter[s].count <= Cardinality(Counted(s))
AnswersAreTaken ==
    \A r \in Requests : req[r].count # None => req[r].count <= Cardinality(Counted(Slot(r)))

RInv == IInv /\ (\A r \in Requests : Due(r)) /\ CountersAreTaken /\ AnswersAreTaken

LEMMA CountedIsFinite ==
  ASSUME IsFiniteSet(Requests), NEW s
  PROVE  IsFiniteSet(Counted(s)) /\ Cardinality(Counted(s)) \in Nat
  BY FS_Subset, FS_CardinalityType DEF Counted

\* History is kept: what was counted stays so, where it was.
LEMMA CountedGrows ==
  ASSUME IsFiniteSet(Requests), NEW s,
         \A q \in Requests : req[q].maker # None =>
            /\ req'[q].maker # None /\ req'[q].barred = req[q].barred
            /\ req'[q].key = req[q].key /\ req'[q].window = req[q].window
  PROVE  /\ Cardinality(Counted(s)) \in Nat /\ Cardinality(Counted(s)') \in Nat
         /\ Cardinality(Counted(s)) <= Cardinality(Counted(s)')
<1>1. Counted(s) \subseteq Counted(s)'  BY DEF Counted, Took, Slot
<1>2. IsFiniteSet(Counted(s)')  BY FS_Subset DEF Counted
<1> QED  BY <1>1, <1>2, FS_Subset, FS_CardinalityType

\* A step that counts nobody keeps the invariant.
LEMMA NobodyCounted ==
  ASSUME IsFiniteSet(Requests), RInv, IInv', \A r \in Requests : Due(r)',
         \A q \in Requests : req[q].maker # None =>
            /\ req'[q].maker # None /\ req'[q].barred = req[q].barred
            /\ req'[q].key = req[q].key /\ req'[q].window = req[q].window,
         \A s \in Slots : counter'[s].count <= counter[s].count,
         \A q \in Requests : req'[q].count # None => req'[q].count = req[q].count
  PROVE  RInv'
<1>1. CountersAreTaken'
  <2> SUFFICES ASSUME NEW s \in Slots
               PROVE  counter'[s].count <= Cardinality(Counted(s)')
    BY DEF CountersAreTaken
  <2>1. counter[s].count <= Cardinality(Counted(s))  BY DEF RInv, CountersAreTaken
  <2>2. counter[s].count \in Nat /\ counter'[s].count \in Nat  BY DEF RInv, IInv, TypeOK, Counter
  <2>3. /\ Cardinality(Counted(s)) \in Nat /\ Cardinality(Counted(s)') \in Nat
        /\ Cardinality(Counted(s)) <= Cardinality(Counted(s)')
    BY CountedGrows
  <2>4. counter'[s].count <= counter[s].count  OBVIOUS
  <2> QED  BY <2>1, <2>2, <2>3, <2>4
<1>2. AnswersAreTaken'
  <2> SUFFICES ASSUME NEW r \in Requests, req'[r].count # None
               PROVE  req'[r].count <= Cardinality(Counted(Slot(r))')
    BY DEF AnswersAreTaken
  <2>1. req[r].count # None /\ req'[r].count = req[r].count  OBVIOUS
  <2>2. req[r].maker # None  BY <2>1 DEF RInv, Due
  <2>3. Slot(r)' = Slot(r)  BY <2>2 DEF Slot
  <2>4. req[r].count <= Cardinality(Counted(Slot(r)))  BY <2>1 DEF RInv, AnswersAreTaken
  <2>5. req[r].count \in Nat  BY <2>1 DEF RInv, IInv, TypeOK, Request
  <2>6. PICK s : s = Slot(r)  OBVIOUS
  <2>7. /\ Cardinality(Counted(s)) \in Nat /\ Cardinality(Counted(s)') \in Nat
        /\ Cardinality(Counted(s)) <= Cardinality(Counted(s)')
    BY CountedGrows DEF RInv
  <2>8. Counted(Slot(r))' = Counted(s)' /\ Counted(Slot(r)) = Counted(s)
    BY <2>3, <2>6 DEF Counted
  <2> QED  BY <2>1, <2>4, <2>5, <2>7, <2>8
<1> QED  BY <1>1, <1>2 DEF RInv

\* An INCR that took effect keeps it: slot and counter have one more.
LEMMA SomebodyCounted ==
  ASSUME IsFiniteSet(Requests), RInv, IInv', \A q \in Requests : Due(q)',
         NEW r \in Requests, req[r].pc = "incr", req[r].maker = None,
         \A q \in Requests \ {r} : req'[q] = req[q],
         req'[r].maker # None, ~req'[r].barred,
         req'[r].key = req[r].key, req'[r].window = req[r].window,
         counter'[Slot(r)].count = counter[Slot(r)].count + 1,
         \A s \in Slots \ {Slot(r)} : counter'[s] = counter[s],
         req'[r].count \in {None, counter[Slot(r)].count + 1}
  PROVE  RInv'
<1>1. PICK t : t = Slot(r)  OBVIOUS
<1>2. /\ t \in Slots /\ t = <<req[r].key, req[r].window>> /\ Slot(r)' = t
      /\ counter \in [Slots -> Counter] /\ counter[t].count \in Nat
  BY <1>1 DEF RInv, IInv, TypeOK, Slot, Slots, Request, Counter
<1>3. /\ counter'[t].count = counter[t].count + 1
      /\ \A s \in Slots \ {t} : counter'[s].count = counter[s].count
  BY <1>1, <1>2 DEF Counter
<1>4. Counted(t)' = Counted(t) \cup {r} /\ r \notin Counted(t)
  BY <1>2 DEF Counted, Took, Slot
<1>5. Cardinality(Counted(t)') = Cardinality(Counted(t)) + 1 /\ Cardinality(Counted(t)) \in Nat
  BY <1>4, CountedIsFinite, FS_AddElement
<1>6. ASSUME NEW s
      PROVE  /\ Cardinality(Counted(s)) \in Nat /\ Cardinality(Counted(s)') \in Nat
             /\ Cardinality(Counted(s)) <= Cardinality(Counted(s)')
  BY CountedGrows
<1>7. CountersAreTaken'
  <2> SUFFICES ASSUME NEW s \in Slots
               PROVE  counter'[s].count <= Cardinality(Counted(s)')
    BY DEF CountersAreTaken
  <2>1. counter[s].count <= Cardinality(Counted(s)) /\ counter[s].count \in Nat
    BY DEF RInv, IInv, CountersAreTaken, TypeOK, Counter
  <2>2. CASE s = t  BY <1>3, <1>5, <2>1, <2>2
  <2>3. CASE s # t  BY <1>3, <1>6, <2>1, <2>3
  <2> QED  BY <2>2, <2>3
<1>8. AnswersAreTaken'
  <2> SUFFICES ASSUME NEW q \in Requests, req'[q].count # None
               PROVE  req'[q].count <= Cardinality(Counted(Slot(q))')
    BY DEF AnswersAreTaken
  <2>1. CASE q = r
    <3>1. req'[q].count = counter[t].count + 1  BY <1>1, <2>1
    <3>2. counter[t].count <= Cardinality(Counted(t))
      BY <1>2 DEF RInv, CountersAreTaken
    <3>3. Counted(Slot(q))' = Counted(t)'  BY <1>2, <2>1 DEF Counted
    <3> QED  BY <1>2, <1>5, <3>1, <3>2, <3>3
  <2>2. CASE q # r
    <3>1. req'[q] = req[q]  BY <2>2
    <3>2. req[q].count <= Cardinality(Counted(Slot(q))) /\ req[q].count \in Nat
      BY <3>1 DEF RInv, IInv, AnswersAreTaken, TypeOK, Request
    <3>3. PICK s : s = Slot(q)  OBVIOUS
    <3>4. Counted(Slot(q))' = Counted(s)' /\ Counted(Slot(q)) = Counted(s)
      BY <3>1, <3>3 DEF Counted, Slot
    <3> QED  BY <1>6, <3>1, <3>2, <3>4
  <2> QED  BY <2>1, <2>2
<1> QED  BY <1>7, <1>8 DEF RInv

\* Keys never become good again, and are issued once.
Ages ==
    \A k \in Keys : key[k] # "unissued" =>
        key'[k] # "unissued" /\ (Lapsed(k) => Lapsed(k)')

LEMMA NextAges == TypeOK /\ [Next]_vars => Ages
<1> SUFFICES ASSUME TypeOK, [Next]_vars, NEW k \in Keys, key[k] # "unissued"
             PROVE  key'[k] # "unissued" /\ (Lapsed(k) => Lapsed(k)')
  BY DEF Ages
<1> USE DEF TypeOK, Lapsed, Overdue
<1>1. CASE UNCHANGED <<clock, key>>  BY <1>1
<1>2. ASSUME NEW r \in Requests, MarkExpired(r)
      PROVE  key'[k] # "unissued" /\ (Lapsed(k) => Lapsed(k)')
  BY <1>2 DEF MarkExpired
<1>3. ASSUME NEW x \in Keys, Generate(x) \/ Revoke(x) \/ \E new \in Keys : Rotate(x, new)
      PROVE  key'[k] # "unissued" /\ (Lapsed(k) => Lapsed(k)')
  BY <1>3 DEF Generate, Revoke, Rotate
<1>5. CASE Tick
  <2>1. clock \in Nat /\ (ExpiresAt[k] # None => ExpiresAt[k] \in Nat)
    BY WindowAssumption, KeysAssumption DEF Times
  <2> QED  BY <1>5, <2>1 DEF Tick
<1>6. ASSUME NEW r \in Requests, Step(r), ~MarkExpired(r)
      PROVE  UNCHANGED <<clock, key>>
  BY <1>6 DEF Step, Receive, Find, Incr, IncrFails, Expire, ExpireFails, Finish, DatabaseFails
<1>7. ASSUME NEW s \in Slots, Evict(s) PROVE UNCHANGED <<clock, key>>
  BY <1>7 DEF Evict
<1> QED  BY <1>1, <1>2, <1>3, <1>5, <1>6, <1>7 DEF Next, vars

\* Who does not move stays as it should be.
LEMMA OthersStayDue ==
  ASSUME RInv, Ages, NEW q \in Requests, req'[q] = req[q]
  PROVE  Due(q)'
<1>1. Due(q) /\ (req[q].pc # "idle" => req[q].key \in Keys)  BY DEF RInv, IInv, TypeOK
<1> QED  BY <1>1 DEF Due, Ages

\* A step of one request that is not an INCR.
LEMMA OneMoves ==
  ASSUME IsFiniteSet(Requests), RInv, IInv', Ages, NEW r \in Requests, Due(r)',
         \A q \in Requests \ {r} : req'[q] = req[q],
         req[r].maker # None => /\ req'[r].maker # None /\ req'[r].barred = req[r].barred
                        /\ req'[r].key = req[r].key /\ req'[r].window = req[r].window,
         req'[r].count # None => req'[r].count = req[r].count,
         \A s \in Slots : counter'[s].count = counter[s].count
  PROVE  RInv'
<1>1. \A q \in Requests : Due(q)'  BY OthersStayDue
<1>2. \A s \in Slots : counter'[s].count <= counter[s].count
  BY DEF RInv, IInv, TypeOK, Counter
<1>3. \A q \in Requests : req[q].maker # None =>
        /\ req'[q].maker # None /\ req'[q].barred = req[q].barred
        /\ req'[q].key = req[q].key /\ req'[q].window = req[q].window
  OBVIOUS
<1>4. \A q \in Requests : req'[q].count # None => req'[q].count = req[q].count
  OBVIOUS
<1> QED  BY <1>1, <1>2, <1>3, <1>4, NobodyCounted

\* Setting an expiry leaves the counts alone.
LEMMA WithTTLKeepsCounts ==
  ASSUME TypeOK, NEW t \in Slots, NEW s \in Slots
  PROVE  WithTTL(t, CounterTTL)[s].count = counter[s].count
  BY DEF WithTTL, TypeOK, Counter

LEMMA RInvInit == ASSUME IsFiniteSet(Requests) PROVE Init => RInv
<1> SUFFICES ASSUME Init PROVE RInv  OBVIOUS
<1>1. IInv  BY IInvInit
<1>2. \A r \in Requests : Due(r)  BY DEF Init, Due, Fresh
<1>3. CountersAreTaken
  BY CountedIsFinite DEF Init, CountersAreTaken, NoCounter
<1>4. AnswersAreTaken  BY DEF Init, AnswersAreTaken, Fresh
<1> QED  BY <1>1, <1>2, <1>3, <1>4 DEF RInv

\* Every step keeps the invariant.
LEMMA RInvNext == ASSUME IsFiniteSet(Requests) PROVE RInv /\ [Next]_vars => RInv'
<1> SUFFICES ASSUME RInv, [Next]_vars PROVE RInv'  OBVIOUS
<1>t. IInv'  BY IInvNext DEF RInv
<1>a. Ages  BY NextAges DEF RInv, IInv
<1>s. /\ req \in [Requests -> Request] /\ counter \in [Slots -> Counter]
      /\ \A r \in Requests : Due(r)
      /\ \A r \in Requests : req[r].pc # "idle" => req[r].key \in Keys /\ Slot(r) \in Slots
  BY DEF RInv, IInv, TypeOK, Slot, Slots, Request
<1>1. ASSUME NEW r \in Requests, NEW k \in Keys, Receive(r, k) PROVE RInv'
  <2> DEFINE new == [Fresh EXCEPT !.pc = "find", !.key = k, !.barred = Lapsed(k)]
  <2>1. /\ new.pc = "find" /\ new.key = k /\ new.barred = Lapsed(k)
        /\ new.maker = None /\ new.count = None
    BY DEF Fresh
  <2>2. /\ req' = [req EXCEPT ![r] = new] /\ UNCHANGED <<clock, key, counter>>
        /\ req[r].pc = "idle" /\ key[k] # "unissued"
    BY <1>1 DEF Receive, Lapsed
  <2> HIDE DEF new
  <2>3. req'[r] = new /\ req[r].maker = None  BY <1>s, <2>2 DEF Due
  <2>4. Due(r)'  BY <2>1, <2>2, <2>3 DEF Due, Lapsed, Overdue
  <2>5. \A q \in Requests \ {r} : req'[q] = req[q]  BY <2>2
  <2> QED  BY <1>t, <1>a, <2>1, <2>2, <2>3, <2>4, <2>5, OneMoves
\* One request goes on and gets no count.
<1>2. ASSUME NEW r \in Requests, NEW pc, Goes(r, pc), req[r].pc # "idle",
             \A s \in Slots : counter'[s].count = counter[s].count,
             \/ pc \in {"expiring", "refused"}
             \/ pc \in {"admitted", "passed"} /\ req[r].pc \in {"passed", "expire"}
             \/ pc = "429" /\ req[r].pc = "expire" /\ Over(req[r].count),
             pc = "expiring" => req[r].pc = "find"
      PROVE  RInv'
  <2>1. /\ req'[r].pc = pc /\ req'[r].maker = req[r].maker /\ req'[r].count = req[r].count
        /\ req'[r].key = req[r].key /\ req'[r].window = req[r].window
        /\ req'[r].barred = req[r].barred
        /\ \A q \in Requests \ {r} : req'[q] = req[q]
    BY <1>s, <1>2 DEF Goes, Request
  <2>2. key'[req[r].key] # "unissued"  BY <1>s, <1>a, <1>2 DEF Due, Ages
  <2>3. Due(r)'  BY <1>s, <1>2, <2>1, <2>2 DEF Due, Over
  <2> QED  BY <1>t, <1>a, <1>2, <2>1, <2>3, OneMoves
<1>3. ASSUME NEW r \in Requests, Find(r) PROVE RInv'
  <2>1. CASE Goes(r, "expiring") \/ Goes(r, "refused")
    BY <1>2, <1>3, <2>1 DEF Find
  <2>2. CASE /\ req' = [req EXCEPT ![r].pc = "incr", ![r].window = WindowAt(clock)]
             /\ ~Lapsed(req[r].key)
    <3>1. /\ req'[r].pc = "incr" /\ req'[r].maker = req[r].maker /\ req'[r].count = req[r].count
          /\ req'[r].key = req[r].key /\ req'[r].barred = req[r].barred
          /\ \A q \in Requests \ {r} : req'[q] = req[q]
      BY <1>s, <2>2 DEF Request
    <3>2. req[r].pc = "find" /\ UNCHANGED <<clock, key, counter>>
      BY <1>3 DEF Find
    <3>3. ~req[r].barred /\ req[r].maker = None /\ req[r].count = None /\ key[req[r].key] # "unissued"
      BY <1>s, <2>2, <3>2 DEF Due
    <3>4. Due(r)'  BY <3>1, <3>2, <3>3 DEF Due
    <3> QED  BY <1>t, <1>a, <3>1, <3>2, <3>3, <3>4, OneMoves
  <2> QED  BY <1>3, <2>1, <2>2 DEF Find, Lapsed
<1>4. ASSUME NEW r \in Requests, MarkExpired(r) PROVE RInv'
  BY <1>2, <1>4 DEF MarkExpired
<1>5. ASSUME NEW r \in Requests, Incr(r) \/ IncrFails(r) PROVE RInv'
  <2>0. IInv  BY DEF RInv
  <2>1. /\ req[r].pc = "incr" /\ UNCHANGED <<clock, key>> /\ Slot(r) \in Slots
        /\ \A q \in Requests \ {r} : req'[q] = req[q]
        /\ \A s \in Slots \ {Slot(r)} : counter'[s] = counter[s]
        /\ req'[r].key = req[r].key /\ req'[r].window = req[r].window
        /\ req'[r].barred = req[r].barred
    BY <1>5, <2>0, Counting
  <2>2. req[r].maker = None /\ ~req[r].barred /\ key[req[r].key] # "unissued" /\ req[r].count = None
    BY <1>s, <2>1 DEF Due
  <2>3. CASE counter' = counter /\ req'[r].pc = "passed" /\ req'[r].count = None
    <3>1. Due(r)'  BY <2>1, <2>2, <2>3 DEF Due
    <3> QED  BY <1>t, <1>a, <2>1, <2>2, <2>3, <3>1, OneMoves
  <2>4. CASE /\ counter'[Slot(r)].count = counter[Slot(r)].count + 1 /\ req'[r].maker # None
             /\ \/ req'[r].pc = "passed" /\ req'[r].count = None
                \/ /\ req'[r].count = counter[Slot(r)].count + 1
                   /\ req'[r].pc \in {"expire", "429", "passed"}
                   /\ req'[r].pc = "429" => req'[r].count > Limit
    <3>1. counter[Slot(r)].count + 1 # None  BY <1>s, <2>1, KeysAssumption DEF Counter
    <3>2. Due(r)'  BY <2>1, <2>2, <2>4, <3>1 DEF Due
    <3>3. \A q \in Requests : Due(q)'  BY <1>a, <2>1, <3>2, OthersStayDue
    <3>4. ~req'[r].barred /\ req'[r].count \in {None, counter[Slot(r)].count + 1}
      BY <2>1, <2>2, <2>4
    <3> QED  BY <1>t, <2>1, <2>2, <2>4, <3>3, <3>4, SomebodyCounted
  <2>5. \/ counter' = counter /\ req'[r].pc = "passed" /\ req'[r].count = None
        \/ /\ counter'[Slot(r)].count = counter[Slot(r)].count + 1 /\ req'[r].maker # None
           /\ \/ req'[r].pc = "passed" /\ req'[r].count = None
              \/ /\ req'[r].count = counter[Slot(r)].count + 1
                 /\ req'[r].pc \in {"expire", "429", "passed"}
                 /\ req'[r].pc = "429" => req'[r].count > Limit
    BY <1>5, <2>0, Counting
  <2> QED  BY <2>3, <2>4, <2>5
<1>7. ASSUME NEW r \in Requests, Expire(r) PROVE RInv'
  <2>1. \A s \in Slots : counter'[s].count = counter[s].count
    BY <1>s, <1>7, WithTTLKeepsCounts DEF Expire, RInv, IInv
  <2> QED  BY <1>2, <1>7, <2>1 DEF Expire
<1>8. ASSUME NEW r \in Requests, ExpireFails(r) PROVE RInv'
  <2>1. req[r].pc = "expire" /\ UNCHANGED <<clock, key>>  BY <1>8 DEF ExpireFails
  <2>2. \A s \in Slots : counter'[s].count = counter[s].count
    BY <1>s, <1>8, WithTTLKeepsCounts DEF ExpireFails, RInv, IInv
  <2>3. /\ req'[r].pc = "passed" /\ req'[r].count = None /\ req'[r].maker = req[r].maker
        /\ req'[r].key = req[r].key /\ req'[r].window = req[r].window
        /\ req'[r].barred = req[r].barred
        /\ \A q \in Requests \ {r} : req'[q] = req[q]
    BY <1>s, <1>8 DEF ExpireFails, Failed, Request
  <2>4. Due(r)'  BY <1>s, <2>1, <2>3 DEF Due
  <2> QED  BY <1>t, <1>a, <2>2, <2>3, <2>4, OneMoves
<1>9. ASSUME NEW r \in Requests, Finish(r) PROVE RInv'
  BY <1>2, <1>9 DEF Finish
<1>10. ASSUME NEW r \in Requests, DatabaseFails(r) PROVE RInv'
  BY <1>2, <1>10 DEF DatabaseFails
\* Nobody moves: keys, evictions and time.
<1>11. ASSUME UNCHANGED req, \A s \in Slots : counter'[s].count <= counter[s].count
       PROVE  RInv'
  <2>1. \A q \in Requests : Due(q)'  BY <1>a, <1>11, OthersStayDue
  <2> QED  BY <1>t, <1>11, <2>1, NobodyCounted
<1>12. ASSUME UNCHANGED <<counter, req>> PROVE RInv'
  <2>1. \A s \in Slots : counter'[s].count <= counter[s].count  BY <1>s, <1>12 DEF Counter
  <2> QED  BY <1>11, <1>12, <2>1
<1>13. ASSUME NEW k \in Keys, Generate(k) \/ Revoke(k) \/ \E new \in Keys : Rotate(k, new)
       PROVE  RInv'
  BY <1>12, <1>13 DEF Generate, Revoke, Rotate
<1>15. ASSUME NEW t \in Slots, Evict(t) PROVE RInv'
  <2>1. \A s \in Slots : counter'[s].count <= counter[s].count
    BY <1>s, <1>15 DEF Evict, NoCounter, Counter
  <2> QED  BY <1>11, <1>15, <2>1 DEF Evict
<1>16. CASE Tick
  <2>1. \A s \in Slots : counter'[s].count <= counter[s].count
    BY <1>s, <1>16 DEF Tick, Aged, NoCounter, Counter
  <2> QED  BY <1>11, <1>16, <2>1 DEF Tick
<1>17. CASE UNCHANGED vars  BY <1>12, <1>17 DEF vars
<1> QED
  BY <1>1, <1>3, <1>4, <1>5, <1>7, <1>8, <1>9, <1>10, <1>13, <1>15, <1>16, <1>17
  DEF Next, Step

LEMMA RInvRefuses == ASSUME IsFiniteSet(Requests) PROVE RInv => RefusedIsOverLimit
<1> SUFFICES ASSUME RInv, NEW r \in Requests, req[r].pc = "429"
             PROVE  Cardinality({q \in Requests :
                      /\ Took(q) /\ ~req[q].barred
                      /\ req[q].key = req[r].key /\ req[q].window = req[r].window}) > Limit
  BY DEF RefusedIsOverLimit
<1>1. req[r].count # None /\ req[r].count > Limit /\ req[r].count \in Nat
  BY DEF RInv, IInv, Due, TypeOK, Request
<1>2. req[r].count <= Cardinality(Counted(Slot(r))) /\ Cardinality(Counted(Slot(r))) \in Nat
  BY <1>1, CountedIsFinite DEF RInv, AnswersAreTaken
<1>3. Cardinality(Counted(Slot(r))) > Limit  BY <1>1, <1>2, LimitAssumption
<1>4. Counted(Slot(r)) = {q \in Requests :
         /\ Took(q) /\ ~req[q].barred
         /\ req[q].key = req[r].key /\ req[q].window = req[r].window}
  BY DEF Counted, Slot
<1> QED  BY <1>3, <1>4

\* Whoever is refused for its number was one of more than Limit requests with
\* a good key in that window, whatever expires, fails or is evicted.
THEOREM RefusalsAreDue ==
  ASSUME IsFiniteSet(Requests)
  PROVE  Spec => []RefusedIsOverLimit
<1>1. Init => RInv  BY RInvInit
<1>2. RInv /\ [Next]_vars => RInv'  BY RInvNext
<1> QED  BY <1>1, <1>2, RInvRefuses, PTL DEF Spec

=============================================================================

---------------------------- MODULE RateLimit_proofs ----------------------------
(***************************************************************************)
(* RateInv is an invariant of RateLimit, for any counters, windows and      *)
(* numbers of requests, and a sweep never deletes a window in use.          *)
(***************************************************************************)
EXTENDS RateLimit, TLAPS

(* Time *)

\* An instant lies in its window.
LEMMA WindowHolds ==
  ASSUME NEW t \in Nat, NEW w \in Nat \ {0}
  PROVE  /\ WindowStartFor(t, w) \in 0..t
         /\ t < WindowStartFor(t, w) + w
  BY DEF WindowStartFor

LEMMA RemainderOfASum ==
  ASSUME NEW q \in Nat, NEW w \in Nat \ {0}, NEW k \in 0..(w - 1)
  PROVE  (q * w + k) % w = k
  OBVIOUS

LEMMA Quotient ==
  ASSUME NEW t \in Nat, NEW w \in Nat \ {0}
  PROVE  t \div w \in Nat /\ t = (t \div w) * w + (t % w)
  OBVIOUS

\* The window after the one that holds t holds every instant of its length.
LEMMA NextWindow ==
  ASSUME NEW t \in Nat, NEW w \in Nat \ {0}, NEW u \in Nat,
         u >= WindowStartFor(t, w) + w,
         u < WindowStartFor(t, w) + w + w
  PROVE  WindowStartFor(u, w) = WindowStartFor(t, w) + w
<1> DEFINE q == t \div w
           m == (q + 1) * w
<1>1. t = q * w + (t % w) /\ q \in Nat
  BY Quotient
<1>2. q * w \in Nat /\ m \in Nat /\ m = q * w + w
  BY <1>1
<1>3. WindowStartFor(t, w) = q * w
  <2> HIDE DEF q
  <2> QED BY <1>1, <1>2 DEF WindowStartFor
<1> HIDE DEF q, m
<1>4. PICK k \in 0..(w - 1) : u = m + k
  <2>1. u - m \in 0..(w - 1)
    BY <1>2, <1>3
  <2> QED BY <2>1, <1>2
<1>5. u % w = k
  <2>1. q + 1 \in Nat
    BY <1>1
  <2>2. ((q + 1) * w + k) % w = k
    BY <2>1, RemainderOfASum
  <2> QED BY <2>2, <1>4 DEF m
<1> QED BY <1>2, <1>3, <1>4, <1>5 DEF WindowStartFor

\* Whole seconds, rounded up: enough to reach x, and less than one too many.
LEMMA SecondsRoundedUp ==
  ASSUME NEW x \in Nat, NEW s \in Nat \ {0}
  PROVE  /\ (x + s - 1) \div s \in Nat
         /\ ((x + s - 1) \div s) * s >= x
         /\ ((x + s - 1) \div s) * s < x + s
  OBVIOUS

LEMMA TicksArePositive ==
  ASSUME NEW c \in Counters
  PROVE  /\ Ticks(c) \in Nat \ {0}
         /\ Ticks(c) >= Second
         /\ Ticks(c) <= LongestWindow * Second
         /\ LongestWindow * Second \in Nat
<1>1. WindowOf[c] \in Nat \ {0} /\ Second \in Nat \ {0} /\ LongestWindow \in Nat
  BY CeilingsAreDeclared, TimeIsCounted
<1>2. WindowOf[c] <= LongestWindow
  BY CeilingsAreDeclared
<1> QED BY <1>1, <1>2 DEF Ticks

\* The wait a refusal tells ends in the next window.
LEMMA WaitReachesTheNextWindow ==
  ASSUME NEW c \in Counters, NEW t \in Nat
  PROVE  LET wait == RetryAfterFor(t, Ticks(c))
         IN /\ wait \in Nat
            /\ wait >= 1
            /\ WindowStartFor(t + wait * Second, Ticks(c)) = WindowStartFor(t, Ticks(c)) + Ticks(c)
<1> DEFINE w == Ticks(c)
           start == WindowStartFor(t, w)
           x == start + w - t
           seconds == (x + Second - 1) \div Second
<1>1. w \in Nat \ {0} /\ w >= Second /\ Second \in Nat \ {0}
  BY TicksArePositive, TimeIsCounted
<1> HIDE DEF w
<1>2. start \in 0..t /\ t < start + w
  BY <1>1, WindowHolds
<1> HIDE DEF start
<1>3. x \in Nat \ {0} /\ t + x = start + w
  BY <1>1, <1>2
<1> HIDE DEF x
<1>4. seconds \in Nat /\ seconds * Second >= x /\ seconds * Second < x + Second
  BY <1>1, <1>3, SecondsRoundedUp
<1>5. seconds >= 1
  <2>1. ASSUME seconds = 0 PROVE FALSE
    <3> HIDE DEF seconds
    <3> QED BY <2>1, <1>1, <1>3, <1>4
  <2> HIDE DEF seconds
  <2> QED BY <2>1, <1>4
<1>6. RetryAfterFor(t, w) = seconds
  <2>1. start + w - t + Second - 1 = x + Second - 1
    BY DEF x
  <2>2. RetryAfterFor(t, w) = IF seconds < 1 THEN 1 ELSE seconds
    BY <2>1 DEF RetryAfterFor, start, x
  <2> HIDE DEF seconds
  <2> QED BY <2>2, <1>4, <1>5
<1> HIDE DEF seconds
<1>7. seconds * Second \in Nat
  BY <1>1, <1>4
<1>8. t + seconds * Second >= start + w /\ t + seconds * Second < start + w + w
  BY <1>1, <1>2, <1>3, <1>4, <1>7
<1>9. WindowStartFor(t + seconds * Second, w) = start + w
  BY <1>1, <1>7, <1>8, NextWindow DEF start
<1> QED BY <1>4, <1>5, <1>6, <1>9 DEF w, start

-----------------------------------------------------------------------------
(* The window a request charges *)

LEMMA RetentionIsLong ==
  /\ Retention \in Nat
  /\ \A c \in Counters : MaxDelay + Ticks(c) <= Retention
  /\ MaxDelay \in Nat
<1>1. LongestWindow * Second \in Nat
  BY CeilingsAreDeclared, TimeIsCounted
<1>2. MaxDelay \in Nat /\ MaxDelay <= LongestWindow * Second
  BY <1>1, TimeIsCounted
<1>3. Retention = LongestWindow * Second + LongestWindow * Second
  BY <1>1, CeilingsAreDeclared, TimeIsCounted DEF Retention
<1>4. \A c \in Counters : Ticks(c) \in Nat /\ Ticks(c) <= LongestWindow * Second
  BY TicksArePositive
<1> QED BY <1>1, <1>2, <1>3, <1>4

LEMMA WindowIsOne ==
  ASSUME RateTypeOK, NEW r \in Requests, job[r].left # << >>
  PROVE  /\ Counter(r) \in Counters
         /\ job[r].at \in Times
         /\ job[r].count \in Nat
         /\ Window(r) \in Windows
         /\ Window(r)[1] = Counter(r)
         /\ Window(r)[2] = WindowStartFor(job[r].at, Ticks(Counter(r)))
         /\ Window(r)[2] <= job[r].at
         /\ job[r].at < Window(r)[2] + Ticks(Counter(r))
<1>1. job[r].left \in Seq(Counters) /\ job[r].at \in Times /\ job[r].count \in Nat
  BY DEF RateTypeOK, RateJobs
<1>2. Counter(r) \in Counters
  BY <1>1 DEF Counter
<1>3. job[r].at \in Nat /\ job[r].at <= MaxTime
  BY <1>1, TimeIsCounted DEF Times
<1>4. Ticks(Counter(r)) \in Nat \ {0}
  BY <1>2, TicksArePositive
<1>5. /\ WindowStartFor(job[r].at, Ticks(Counter(r))) \in 0..job[r].at
      /\ job[r].at < WindowStartFor(job[r].at, Ticks(Counter(r))) + Ticks(Counter(r))
  BY <1>3, <1>4, WindowHolds
<1>6. WindowStartFor(job[r].at, Ticks(Counter(r))) \in Times
  BY <1>3, <1>5, TimeIsCounted DEF Times
<1> QED BY <1>1, <1>2, <1>5, <1>6 DEF Window, Windows

\* A window that a charge on its way can reach has not been swept.
LEMMA ReachableIsKept ==
  ASSUME RateInv, NEW r \in Requests, pc[r] \in {"calling", "counted"}
  PROVE  /\ job[r].left # << >>
         /\ Window(r)[2] >= clock - Retention
         /\ rateCounter[Window(r)] = charged[Window(r)]
<1>1. /\ job[r].left # << >> /\ job[r].at <= clock /\ clock <= job[r].at + MaxDelay
      /\ RateTypeOK
  BY DEF RateInv, ChargesAreRecent
<1>2. /\ Counter(r) \in Counters /\ Window(r) \in Windows
      /\ job[r].at < Window(r)[2] + Ticks(Counter(r))
      /\ Window(r)[2] \in Nat /\ job[r].at \in Nat /\ clock \in Nat
  BY <1>1, WindowIsOne, TimeIsCounted DEF RateTypeOK, Windows, Times
<1>3. Ticks(Counter(r)) \in Nat
  BY <1>2, TicksArePositive
<1>4. Window(r)[2] >= clock - Retention
  BY <1>1, <1>2, <1>3, RetentionIsLong
<1> QED BY <1>1, <1>2, <1>4 DEF RateInv, RowsCountCharges

-----------------------------------------------------------------------------
(* Steps *)

LEMMA RateInvInit == Init => RateInv
<1> SUFFICES ASSUME Init PROVE RateInv
  OBVIOUS
<1>1. RateTypeOK
  BY TimeIsCounted DEF Init, RateTypeOK, RatePCs, RateJobs, NoCharge, Times
<1>2. RowsCountCharges /\ ChargesAreRecent /\ CountsWereCharged
  BY DEF Init, RowsCountCharges, ChargesAreRecent, CountsWereCharged, Windows
<1>3. CeilingHolds
  BY CeilingsAreDeclared DEF Init, CeilingHolds, Windows
<1>4. RefusalIsHonest
  BY DEF Init, RefusalIsHonest
<1> QED BY <1>1, <1>2, <1>3, <1>4 DEF RateInv

\* Requests other than r are where they were, and charges are not forgotten.
LEMMA OthersFrame ==
  ASSUME RateInv, RateTypeOK', NEW q \in Requests,
         pc'[q] = pc[q], job'[q] = job[q],
         \A w \in Windows : charged'[w] >= charged[w]
  PROVE  /\ pc[q] = "counted" => job'[q].count <= charged'[Window(q)']
         /\ pc[q] = "refused" =>
              /\ charged'[Window(q)'] > MaxOf[Counter(q)']
              /\ job'[q].retryAfter >= 1
              /\ WindowStartFor(job'[q].at + job'[q].retryAfter * Second, Ticks(Counter(q)'))
                    = Window(q)'[2] + Ticks(Counter(q)')
<1>1. Window(q)' = Window(q) /\ Counter(q)' = Counter(q)
  BY DEF Window, Counter
<1>2. ASSUME pc[q] \in {"counted", "refused"}
      PROVE  Window(q) \in Windows /\ Counter(q) \in Counters /\ job[q].count \in Nat
  BY <1>2, WindowIsOne DEF RateInv, ChargesAreRecent
<1>3. /\ charged \in [Windows -> Nat] /\ charged' \in [Windows -> Nat]
      /\ \A c \in Counters : MaxOf[c] \in Nat
  BY CeilingsAreDeclared DEF RateInv, RateTypeOK
<1>4. CASE pc[q] = "counted"
  <2>1. job[q].count <= charged[Window(q)] /\ charged'[Window(q)] >= charged[Window(q)]
    BY <1>2, <1>4 DEF RateInv, CountsWereCharged
  <2> QED BY <1>1, <1>2, <1>3, <1>4, <2>1
<1>5. CASE pc[q] = "refused"
  <2>1. /\ charged[Window(q)] > MaxOf[Counter(q)] /\ charged'[Window(q)] >= charged[Window(q)]
        /\ job[q].retryAfter >= 1
        /\ WindowStartFor(job[q].at + job[q].retryAfter * Second, Ticks(Counter(q)))
              = Window(q)[2] + Ticks(Counter(q))
    BY <1>2, <1>5 DEF RateInv, RefusalIsHonest
  <2>2. charged'[Window(q)] > MaxOf[Counter(q)]
    BY <1>2, <1>3, <1>5, <2>1
  <2> QED BY <1>1, <1>5, <2>1, <2>2
<1> QED BY <1>4, <1>5

\* What ChargesAreRecent says of one request.
IsRecent(r) ==
  /\ pc[r] \in {"next", "calling", "counted", "refused"} => job[r].left # << >>
  /\ pc[r] \in {"calling", "counted", "refused"} => job[r].at <= clock
  /\ pc[r] \in {"calling", "counted"} => clock <= job[r].at + MaxDelay

\* A step of one request that neither counts a charge nor refuses one.
LEMMA QuietStepKeeps ==
  ASSUME RateInv, RateTypeOK', NEW r \in Requests,
         UNCHANGED <<clock, rateCounter, charged, granted>>,
         \A q \in Requests : q # r => pc'[q] = pc[q] /\ job'[q] = job[q],
         pc'[r] \notin {"counted", "refused"},
         IsRecent(r)'
  PROVE  RateInv'
<1>1. RowsCountCharges' /\ CeilingHolds'
  BY DEF RateInv, RowsCountCharges, CeilingHolds
<1>2. ChargesAreRecent'
  BY DEF RateInv, ChargesAreRecent, IsRecent
<1>3. \A w \in Windows : charged'[w] >= charged[w]
  BY DEF RateInv, RateTypeOK
<1>4. CountsWereCharged'
  BY <1>3, OthersFrame DEF CountsWereCharged
<1>5. RefusalIsHonest'
  BY <1>3, OthersFrame DEF RefusalIsHonest
<1> QED BY <1>1, <1>2, <1>4, <1>5 DEF RateInv

LEMMA TickKeeps == ASSUME RateInv, Tick PROVE RateInv'
<1>1. RateTypeOK'
  BY TimeIsCounted DEF RateInv, RateTypeOK, Tick, Times
<1>2. clock \in Nat /\ clock' = clock + 1 /\ UNCHANGED <<rateCounter, charged, granted, pc, job>>
  BY TimeIsCounted DEF RateInv, RateTypeOK, Tick, Times
<1>3. RowsCountCharges'
  BY <1>2, RetentionIsLong DEF RateInv, RowsCountCharges, Windows, Times
<1>4. ChargesAreRecent'
  <2> SUFFICES ASSUME NEW r \in Requests PROVE IsRecent(r)'
    BY DEF ChargesAreRecent, IsRecent
  <2>1. IsRecent(r) /\ job[r].at \in Nat
    BY TimeIsCounted DEF RateInv, ChargesAreRecent, IsRecent, RateTypeOK, RateJobs, Times
  <2>2. pc[r] \in {"calling", "counted"} => clock < job[r].at + MaxDelay
    BY DEF Tick
  <2> QED BY <1>2, <2>1, <2>2, RetentionIsLong DEF IsRecent
<1>5. CeilingHolds'
  BY <1>2 DEF RateInv, CeilingHolds
<1>6. \A w \in Windows : charged'[w] >= charged[w]
  BY <1>2 DEF RateInv, RateTypeOK
<1>7. CountsWereCharged'
  BY <1>1, <1>2, <1>6, OthersFrame DEF CountsWereCharged
<1>8. RefusalIsHonest'
  BY <1>1, <1>2, <1>6, OthersFrame DEF RefusalIsHonest
<1> QED BY <1>1, <1>3, <1>4, <1>5, <1>7, <1>8 DEF RateInv

LEMMA FinishedIsQuiet ==
  ASSUME RateInv, NEW r \in Requests, Finish(r),
         UNCHANGED <<clock, rateCounter, charged, granted, calls>>
  PROVE  RateInv'
<1>1. RateTypeOK'
  BY TimeIsCounted DEF RateInv, RateTypeOK, Finish, Goto, RatePCs, RateJobs, NoCharge, Times
<1>2. /\ pc'[r] = "idle"
      /\ \A q \in Requests : q # r => pc'[q] = pc[q] /\ job'[q] = job[q]
  BY DEF RateInv, RateTypeOK, Finish, Goto
<1>3. IsRecent(r)'
  BY <1>2 DEF IsRecent
<1> QED BY <1>1, <1>2, <1>3, QuietStepKeeps

LEMMA BeginKeeps ==
  ASSUME RateInv, NEW r \in Requests, NEW counters \in Charges, Begin(r, counters)
  PROVE  RateInv'
<1>1. counters \in Seq(Counters) /\ counters # << >>
  BY CeilingsAreDeclared
<1>2. RateTypeOK'
  BY <1>1 DEF RateInv, RateTypeOK, Begin, Goto, RatePCs, RateJobs
<1>3. /\ pc'[r] = "next" /\ job'[r].left = counters
      /\ \A q \in Requests : q # r => pc'[q] = pc[q] /\ job'[q] = job[q]
  BY DEF RateInv, RateTypeOK, RateJobs, Begin, Goto
<1>4. IsRecent(r)'
  BY <1>1, <1>3 DEF IsRecent
<1> QED BY <1>2, <1>3, <1>4, QuietStepKeeps DEF Begin

LEMMA CallKeeps ==
  ASSUME RateInv, NEW r \in Requests, Call(r)
  PROVE  RateInv'
<1>1. RateTypeOK'
  <2>1. /\ pc' = [pc EXCEPT ![r] = "calling"] /\ job' = [job EXCEPT ![r].at = clock]
        /\ calls' = calls + 1 /\ calls < MaxCalls
        /\ UNCHANGED <<clock, rateCounter, charged, granted>>
    BY DEF Call, Goto
  <2>2. pc' \in [Requests -> RatePCs] /\ clock \in Times
    BY <2>1 DEF RateInv, RateTypeOK, RatePCs
  <2>3. job' \in [Requests -> RateJobs]
    BY <2>1, <2>2 DEF RateInv, RateTypeOK, RateJobs
  <2>4. calls' \in 0..MaxCalls
    BY <2>1, TimeIsCounted DEF RateInv, RateTypeOK
  <2> QED BY <2>1, <2>2, <2>3, <2>4 DEF RateInv, RateTypeOK
<1>2. /\ pc'[r] = "calling" /\ job'[r].at = clock /\ job'[r].left = job[r].left
      /\ \A q \in Requests : q # r => pc'[q] = pc[q] /\ job'[q] = job[q]
  BY DEF RateInv, RateTypeOK, RateJobs, Call, Goto
<1>3. job[r].left # << >> /\ clock' = clock /\ clock \in Nat
  BY TimeIsCounted DEF RateInv, RateTypeOK, ChargesAreRecent, Call, Times
<1>4. IsRecent(r)'
  BY <1>2, <1>3, RetentionIsLong DEF IsRecent
<1> QED BY <1>1, <1>2, <1>4, QuietStepKeeps DEF Call

LEMMA UpsertKeeps ==
  ASSUME RateInv, NEW r \in Requests, Upsert(r)
  PROVE  RateInv'
<1> DEFINE w == Window(r)
           count == rateCounter[w] + 1
<1>1. /\ job[r].left # << >> /\ w \in Windows /\ w[1] = Counter(r) /\ Counter(r) \in Counters
      /\ rateCounter[w] = charged[w] /\ charged[w] \in Nat /\ granted[w] \in Nat
      /\ granted[w] = (IF charged[w] <= MaxOf[w[1]] THEN charged[w] ELSE MaxOf[w[1]])
      /\ MaxOf[w[1]] \in Nat
  <2>1. pc[r] \in {"calling", "counted"} /\ RateTypeOK
    BY DEF Upsert, RateInv
  <2>2. job[r].left # << >> /\ rateCounter[w] = charged[w]
    BY <2>1, ReachableIsKept
  <2>3. w \in Windows /\ w[1] = Counter(r) /\ Counter(r) \in Counters
    BY <2>1, <2>2, WindowIsOne
  <2> HIDE DEF w
  <2>4. MaxOf[w[1]] \in Nat
    BY <2>3, CeilingsAreDeclared
  <2>5. /\ charged[w] \in Nat /\ granted[w] \in Nat
        /\ granted[w] = IF charged[w] <= MaxOf[w[1]] THEN charged[w] ELSE MaxOf[w[1]]
    BY <2>3 DEF RateInv, RateTypeOK, CeilingHolds
  <2> QED BY <2>2, <2>3, <2>4, <2>5
<1> HIDE DEF w
<1>2. /\ pc[r] = "calling"
      /\ rateCounter' = [rateCounter EXCEPT ![w] = count]
      /\ charged' = [charged EXCEPT ![w] = @ + 1]
      /\ granted' = [granted EXCEPT ![w] = @ + (IF Allowed(count, w[1]) THEN 1 ELSE 0)]
      /\ pc' = [pc EXCEPT ![r] = "counted"]
      /\ job' = [job EXCEPT ![r].count = count]
      /\ UNCHANGED <<clock, calls>>
  BY DEF Upsert, Goto, w
<1>3. count \in Nat /\ count = charged[w] + 1
  BY <1>1
<1> HIDE DEF count
<1>4. RateTypeOK'
  <2>1. pc' \in [Requests -> RatePCs]
    BY <1>2 DEF RateInv, RateTypeOK, RatePCs
  <2>2. job' \in [Requests -> RateJobs]
    BY <1>2, <1>3 DEF RateInv, RateTypeOK, RateJobs
  <2>3. rateCounter' \in [Windows -> Nat]
    BY <1>2, <1>3 DEF RateInv, RateTypeOK
  <2>4. charged' \in [Windows -> Nat]
    BY <1>1, <1>2 DEF RateInv, RateTypeOK
  <2>5. granted' \in [Windows -> Nat]
    BY <1>1, <1>2 DEF RateInv, RateTypeOK
  <2> QED BY <1>2, <2>1, <2>2, <2>3, <2>4, <2>5 DEF RateInv, RateTypeOK
<1>5. /\ pc'[r] = "counted" /\ job'[r].count = count
      /\ job'[r].at = job[r].at /\ job'[r].left = job[r].left
      /\ \A q \in Requests : q # r => pc'[q] = pc[q] /\ job'[q] = job[q]
  BY <1>2 DEF RateInv, RateTypeOK, RateJobs
<1>6. /\ charged'[w] = count
      /\ \A v \in Windows : v # w => charged'[v] = charged[v] /\ granted'[v] = granted[v]
                                      /\ rateCounter'[v] = rateCounter[v]
      /\ rateCounter'[w] = count
      /\ \A v \in Windows : charged'[v] >= charged[v]
  BY <1>1, <1>2, <1>3 DEF RateInv, RateTypeOK
<1>7. RowsCountCharges'
  BY <1>2, <1>6 DEF RateInv, RowsCountCharges
<1>8. ChargesAreRecent'
  BY <1>2, <1>5 DEF RateInv, ChargesAreRecent
<1>9. granted'[w] = IF count <= MaxOf[w[1]] THEN count ELSE MaxOf[w[1]]
  <2>1. CASE Allowed(count, w[1])
    <3>1. granted'[w] = granted[w] + 1 /\ count <= MaxOf[w[1]]
      BY <1>1, <1>2, <2>1 DEF RateInv, RateTypeOK, Allowed
    <3> QED BY <1>1, <1>3, <3>1
  <2>2. CASE ~Allowed(count, w[1])
    <3>1. granted'[w] = granted[w] /\ ~(count <= MaxOf[w[1]])
      BY <1>1, <1>2, <2>2 DEF RateInv, RateTypeOK, Allowed
    <3> QED BY <1>1, <1>3, <3>1
  <2> QED BY <2>1, <2>2
<1>10. CeilingHolds'
  BY <1>6, <1>9 DEF RateInv, CeilingHolds
<1>11. CountsWereCharged'
  <2> SUFFICES ASSUME NEW q \in Requests, pc'[q] = "counted"
               PROVE  job'[q].count <= charged'[Window(q)']
    BY DEF CountsWereCharged
  <2>1. CASE q = r
    <3>1. Window(r)' = w
      BY <1>5 DEF Window, Counter, w
    <3> QED BY <1>3, <1>5, <1>6, <2>1, <3>1
  <2>2. CASE q # r
    BY <1>4, <1>5, <1>6, <2>2, OthersFrame
  <2> QED BY <2>1, <2>2
<1>12. RefusalIsHonest'
  BY <1>4, <1>5, <1>6, OthersFrame DEF RefusalIsHonest
<1> QED BY <1>4, <1>7, <1>8, <1>10, <1>11, <1>12 DEF RateInv

LEMMA SweepKeeps ==
  ASSUME RateInv, NEW r \in Requests, Sweep(r)
  PROVE  RateInv'
<1> DEFINE c == Counter(r)
<1>1. /\ pc[r] = "counted" /\ job[r].left # << >> /\ RateTypeOK
      /\ job[r].at <= clock /\ job[r].at \in Nat /\ clock \in Nat
  <2>1. pc[r] = "counted" /\ RateTypeOK
    BY DEF Sweep, RateInv
  <2>2. job[r].left # << >> /\ job[r].at <= clock
    BY <2>1 DEF RateInv, ChargesAreRecent
  <2> QED BY <2>1, <2>2, WindowIsOne, TimeIsCounted DEF RateTypeOK, Times
<1>2. /\ c \in Counters /\ Window(r) \in Windows /\ Window(r)[1] = c
      /\ Window(r)[2] = WindowStartFor(job[r].at, Ticks(c))
      /\ job[r].count \in Nat /\ MaxOf[c] \in Nat /\ Ticks(c) \in Nat \ {0}
  <2>1. c \in Counters
    BY <1>1, WindowIsOne
  <2> QED BY <1>1, <2>1, WindowIsOne, TicksArePositive, CeilingsAreDeclared
<1>3. /\ UNCHANGED <<clock, charged, granted, calls>>
      /\ rateCounter' = SweptBy(r)
  BY DEF Sweep
<1>4. rateCounter' \in [Windows -> Nat]
  BY <1>1, <1>3 DEF SweptBy, RateTypeOK
<1>5. \A w \in Windows : charged'[w] >= charged[w]
  BY <1>3 DEF RateInv, RateTypeOK
<1>6. RowsCountCharges' /\ CeilingHolds'
  <2>1. ASSUME NEW w \in Windows, w[2] >= clock - Retention
        PROVE  rateCounter'[w] = charged[w]
    <3>1. w[2] \in Nat
      BY TimeIsCounted DEF Windows, Times
    <3>2. ~Stale(w[2], job[r].at)
      BY <1>1, <2>1, <3>1, RetentionIsLong DEF Stale
    <3>3. rateCounter'[w] = rateCounter[w]
      BY <1>3, <3>2 DEF SweptBy
    <3> QED BY <2>1, <3>3 DEF RateInv, RowsCountCharges
  <2>2. RowsCountCharges'
    BY <1>3, <2>1 DEF RowsCountCharges
  <2> QED BY <1>3, <2>2 DEF RateInv, CeilingHolds
<1> HIDE DEF c
<1>7. CASE /\ ~Allowed(job[r].count, c)
           /\ pc' = [pc EXCEPT ![r] = "refused"]
           /\ job' = [job EXCEPT ![r].retryAfter = RetryAfterFor(job[r].at, Ticks(c))]
  <2> DEFINE wait == RetryAfterFor(job[r].at, Ticks(c))
  <2>1. /\ wait \in Nat /\ wait >= 1
        /\ WindowStartFor(job[r].at + wait * Second, Ticks(c))
              = WindowStartFor(job[r].at, Ticks(c)) + Ticks(c)
    BY <1>1, <1>2, WaitReachesTheNextWindow
  <2> HIDE DEF wait
  <2>2. job' = [job EXCEPT ![r].retryAfter = wait]
    BY <1>7 DEF wait
  <2>3. /\ pc'[r] = "refused" /\ job'[r].retryAfter = wait
        /\ job'[r].at = job[r].at /\ job'[r].left = job[r].left
        /\ \A q \in Requests : q # r => pc'[q] = pc[q] /\ job'[q] = job[q]
    BY <1>1, <1>7, <2>2 DEF RateTypeOK, RateJobs
  <2>4. RateTypeOK'
    <3>1. job' \in [Requests -> RateJobs]
      BY <1>1, <2>1, <2>2 DEF RateTypeOK, RateJobs
    <3>2. pc' \in [Requests -> RatePCs]
      BY <1>1, <1>7 DEF RateTypeOK, RatePCs
    <3> QED BY <1>1, <1>3, <1>4, <3>1, <3>2 DEF RateTypeOK
  <2>5. ChargesAreRecent'
    BY <1>1, <1>3, <2>3 DEF RateInv, ChargesAreRecent
  <2>6. CountsWereCharged'
    BY <1>5, <2>3, <2>4, OthersFrame DEF CountsWereCharged
  <2>7. RefusalIsHonest'
    <3>1. Window(r)' = Window(r) /\ Counter(r)' = c
      BY <2>3 DEF Window, Counter, c
    <3>2. charged[Window(r)] > MaxOf[c]
      <4>1. job[r].count <= charged[Window(r)] /\ charged[Window(r)] \in Nat
        BY <1>1, <1>2 DEF RateInv, CountsWereCharged, RateTypeOK
      <4>2. job[r].count > MaxOf[c]
        BY <1>2, <1>7 DEF Allowed
      <4> QED BY <1>2, <4>1, <4>2
    <3> SUFFICES ASSUME NEW q \in Requests, pc'[q] = "refused"
                 PROVE  /\ charged'[Window(q)'] > MaxOf[Counter(q)']
                        /\ job'[q].retryAfter >= 1
                        /\ WindowStartFor(job'[q].at + job'[q].retryAfter * Second,
                                           Ticks(Counter(q)'))
                              = Window(q)'[2] + Ticks(Counter(q)')
      BY DEF RefusalIsHonest
    <3>3. CASE q = r
      BY <1>2, <1>3, <2>1, <2>3, <3>1, <3>2, <3>3
    <3>4. CASE q # r
      BY <1>5, <2>3, <2>4, <3>4, OthersFrame
    <3> QED BY <3>3, <3>4
  <2> QED BY <1>6, <2>4, <2>5, <2>6, <2>7 DEF RateInv
<1>8. ASSUME pc'[r] \in {"next", "idle"}, pc' \in [Requests -> RatePCs],
             job' \in [Requests -> RateJobs],
             pc'[r] = "next" => job'[r].left # << >>,
             \A q \in Requests : q # r => pc'[q] = pc[q] /\ job'[q] = job[q]
      PROVE  RateInv'
  <2>1. RateTypeOK'
    BY <1>1, <1>3, <1>4, <1>8 DEF RateTypeOK
  <2>2. ChargesAreRecent'
    BY <1>3, <1>8 DEF RateInv, ChargesAreRecent
  <2>3. CountsWereCharged'
    BY <1>5, <1>8, <2>1, OthersFrame DEF CountsWereCharged
  <2>4. RefusalIsHonest'
    BY <1>5, <1>8, <2>1, OthersFrame DEF RefusalIsHonest
  <2> QED BY <1>6, <2>1, <2>2, <2>3, <2>4 DEF RateInv
<1>9. CASE /\ Tail(job[r].left) # << >>
           /\ pc' = [pc EXCEPT ![r] = "next"]
           /\ job' = [job EXCEPT ![r].left = Tail(@)]
  <2>1. Tail(job[r].left) \in Seq(Counters)
    BY <1>1 DEF RateTypeOK, RateJobs
  <2>2. /\ pc'[r] = "next" /\ job'[r].left = Tail(job[r].left)
        /\ \A q \in Requests : q # r => pc'[q] = pc[q] /\ job'[q] = job[q]
    BY <1>1, <1>9 DEF RateTypeOK, RateJobs
  <2>3. pc' \in [Requests -> RatePCs]
    BY <1>1, <1>9 DEF RateTypeOK, RatePCs
  <2>4. job' \in [Requests -> RateJobs]
    BY <1>1, <1>9, <2>1 DEF RateTypeOK, RateJobs
  <2> QED BY <1>8, <1>9, <2>2, <2>3, <2>4
<1>10. CASE Finish(r)
  <2>1. pc' = [pc EXCEPT ![r] = "idle"] /\ job' = [job EXCEPT ![r] = NoCharge]
    BY <1>10 DEF Finish, Goto
  <2>2. /\ pc'[r] = "idle"
        /\ \A q \in Requests : q # r => pc'[q] = pc[q] /\ job'[q] = job[q]
    BY <1>1, <2>1 DEF RateTypeOK
  <2>3. pc' \in [Requests -> RatePCs]
    BY <1>1, <2>1 DEF RateTypeOK, RatePCs
  <2>4. job' \in [Requests -> RateJobs]
    BY <1>1, <2>1, TimeIsCounted DEF RateTypeOK, RateJobs, NoCharge, Times
  <2> QED BY <1>8, <2>2, <2>3, <2>4
<1> QED BY <1>7, <1>9, <1>10 DEF Sweep, Goto, c

LEMMA RateInvStep == RateInv /\ [Next]_rateVars => RateInv'
<1> SUFFICES ASSUME RateInv, [Next]_rateVars PROVE RateInv'
  OBVIOUS
<1>1. CASE Tick
  BY <1>1, TickKeeps
<1>2. ASSUME NEW r \in Requests, Charge(r) PROVE RateInv'
  <2>1. ASSUME NEW counters \in Charges, Begin(r, counters) PROVE RateInv'
    BY <2>1, BeginKeeps
  <2>2. CASE Call(r)
    BY <2>2, CallKeeps
  <2>3. CASE Upsert(r)
    BY <2>3, UpsertKeeps
  <2>4. CASE Sweep(r)
    BY <2>4, SweepKeeps
  <2>5. CASE Refuse(r)
    BY <2>5, FinishedIsQuiet DEF Refuse
  <2>6. CASE Fail(r)
    BY <2>6, FinishedIsQuiet DEF Fail
  <2> QED BY <1>2, <2>1, <2>2, <2>3, <2>4, <2>5, <2>6 DEF Charge
<1>3. CASE UNCHANGED rateVars
  BY <1>3 DEF rateVars, RateInv, RateTypeOK, RowsCountCharges, ChargesAreRecent,
              CountsWereCharged, CeilingHolds, RefusalIsHonest,
              Window, Counter
<1> QED BY <1>1, <1>2, <1>3 DEF Next

-----------------------------------------------------------------------------
(* Theorems *)

\* The inductive invariant: rows a charge can reach count every charge.
THEOREM RateInvariant == Spec => []RateInv
BY RateInvInit, RateInvStep, PTL DEF Spec

\* Every variable holds a value it may hold.
THEOREM RatesTypeCorrect == Spec => []RateTypeOK
<1>1. RateInv => RateTypeOK
  BY DEF RateInv
<1> QED BY <1>1, RateInvariant, PTL

\* A window lets through its first charges up to its ceiling's number, not one
\* more and not one fewer, however many charge it at once (chargeCeiling).
THEOREM CeilingsHold == Spec => []CeilingHolds
<1>1. RateInv => CeilingHolds
  BY DEF RateInv
<1> QED BY <1>1, RateInvariant, PTL

\* A refusal met a spent window, and its wait ends in the next (retryAfterFor).
THEOREM RefusalsAreHonest == Spec => []RefusalIsHonest
<1>1. RateInv => RefusalIsHonest
  BY DEF RateInv
<1> QED BY <1>1, RateInvariant, PTL

\* A sweep deletes only windows that are over and that no charge can reach
\* (chargeCeiling, RATE_COUNTER_RETENTION_SECONDS).
THEOREM SweptAreOver == Spec => SweptWindowsAreOver
<1> DEFINE Over ==
      \A w \in Windows :
        rateCounter[w] # 0 /\ rateCounter'[w] = 0 =>
          /\ w[2] + Ticks(w[1]) <= clock
          /\ \A r \in Requests : pc[r] = "calling" => Window(r) # w
<1>1. ASSUME RateInv, [Next]_rateVars, NEW w \in Windows,
             rateCounter[w] # 0, rateCounter'[w] = 0
      PROVE  /\ w[2] + Ticks(w[1]) <= clock
             /\ \A r \in Requests : pc[r] = "calling" => Window(r) # w
  <2>1. PICK r \in Requests : Upsert(r) \/ Sweep(r)
    BY <1>1 DEF Next, Charge, Tick, Begin, Call, Refuse, Fail, rateVars
  <2>2. /\ w[2] \in Nat /\ clock \in Nat /\ Ticks(w[1]) \in Nat
        /\ Ticks(w[1]) <= Retention
    <3>1. w[1] \in Counters /\ w[2] \in Nat
      BY TimeIsCounted DEF Windows, Times
    <3>2. Ticks(w[1]) \in Nat
      BY <3>1, TicksArePositive
    <3> QED BY <1>1, <3>1, <3>2, RetentionIsLong, TimeIsCounted DEF RateInv, RateTypeOK, Times
  <2>3. ~Upsert(r)
    <3> SUFFICES ASSUME Upsert(r) PROVE FALSE
      OBVIOUS
    <3>1. rateCounter \in [Windows -> Nat]
      BY <1>1 DEF RateInv, RateTypeOK
    <3>2. rateCounter' = [rateCounter EXCEPT ![Window(r)] = rateCounter[Window(r)] + 1]
      BY DEF Upsert
    <3>3. rateCounter'[w] = rateCounter[w] \/ rateCounter'[w] = rateCounter[w] + 1
      BY <3>1, <3>2
    <3> QED BY <1>1, <3>1, <3>3
  <2>4. Stale(w[2], job[r].at)
    BY <1>1, <2>1, <2>3 DEF Sweep, SweptBy
  <2>5. job[r].at <= clock /\ job[r].at \in Nat
    <3>1. pc[r] = "counted" /\ RateTypeOK
      BY <1>1, <2>1, <2>3 DEF Sweep, RateInv
    <3>2. job[r].left # << >> /\ job[r].at <= clock
      BY <1>1, <3>1 DEF RateInv, ChargesAreRecent
    <3> QED BY <3>1, <3>2, WindowIsOne, TimeIsCounted DEF Times
  <2>6. w[2] < clock - Retention
    BY <2>2, <2>4, <2>5, RetentionIsLong DEF Stale
  <2>7. ASSUME NEW q \in Requests, pc[q] = "calling" PROVE Window(q) # w
    <3>1. Window(q)[2] >= clock - Retention
      BY <1>1, <2>7, ReachableIsKept
    <3> QED BY <2>2, <2>6, <3>1, RetentionIsLong
  <2> QED BY <2>2, <2>6, <2>7, RetentionIsLong
<1>2. RateInv /\ [Next]_rateVars => [Over]_rateVars
  BY <1>1
<1> QED BY <1>2, RateInvariant, PTL DEF Spec, SweptWindowsAreOver

=============================================================================

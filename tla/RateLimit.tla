------------------------------- MODULE RateLimit -------------------------------
(***************************************************************************)
(* The ceilings of packages/domain/src/rate-limit.ts, and the middleware    *)
(* that charges them one after another (apps/web/lib/safe-action.ts and     *)
(* ceilings.ts).                                                            *)
(*                                                                          *)
(* A ceiling is a count of charges in a fixed window aligned to the epoch.  *)
(* One charge captures the time, then runs two statements of its own: the   *)
(* upsert that counts it and the sweep of old windows; others run between.  *)
(* Time is a counter of ticks.  A counter stands for a principal and an     *)
(* action, which together key its rows.                                     *)
(***************************************************************************)
EXTENDS Integers, Sequences

CONSTANTS
  Counters,       \* what a ceiling is charged against, under one action
  MaxOf,          \* Ceiling.max of each counter
  WindowOf,       \* Ceiling.windowSeconds of each counter
  LongestWindow,  \* the longest of them
  Charges,        \* the counters one call charges, in order
  Second,         \* ticks in a second
  Requests,       \* requests that may be in flight at once
  MaxDelay,       \* bound: ticks from the time a charge captured to its statements
  MaxTime,        \* bound: ticks of the clock
  MaxCalls        \* bound: charges ever made

ASSUME CeilingsAreDeclared ==
  /\ MaxOf \in [Counters -> Nat]
  /\ WindowOf \in [Counters -> Nat \ {0}]
  /\ LongestWindow \in Nat
  /\ \A c \in Counters : WindowOf[c] <= LongestWindow
  /\ Charges \subseteq Seq(Counters) \ {<< >>}
ASSUME TimeIsCounted ==
  /\ Second \in Nat \ {0}
  /\ MaxTime \in Nat /\ MaxCalls \in Nat
  /\ MaxDelay \in 0..(LongestWindow * Second)

VARIABLES
  clock,        \* now
  rateCounter,  \* rate_counter.count by counter and window_start, 0 for no row
  charged,      \* history: charges made of a window, whatever was swept
  granted,      \* history: charges of a window that were allowed
  calls,        \* charges begun, bounded by MaxCalls
  pc,           \* where each request is
  job           \* what each request carries in memory

rateVars == <<clock, rateCounter, charged, granted, calls, pc, job>>
-----------------------------------------------------------------------------
Times == 0..MaxTime
Windows == Counters \X Times
RatePCs == {"idle", "next", "calling", "counted", "refused"}

RateJobs == [left : Seq(Counters), at : Times, count : Nat, retryAfter : Nat]
NoCharge == [left |-> << >>, at |-> 0, count |-> 0, retryAfter |-> 0]

Ticks(c) == WindowOf[c] * Second

\* Definitions named ...Instead are mutants: the form a plausible bug would
\* give the definition after them.  Nothing uses them.
WindowStartFor(t, w) == t - (t % w)

\* Whole seconds, rounded up, until the window holding t resets; at least 1.
RoundedDownInstead(t, w) == (WindowStartFor(t, w) + w - t) \div Second
RetryAfterFor(t, w) ==
  LET seconds == (WindowStartFor(t, w) + w - t + Second - 1) \div Second
  IN IF seconds < 1 THEN 1 ELSE seconds

\* Twice the longest window.
Retention == 2 * LongestWindow * Second

\* The counter a request is charging, and the window its charge falls in.
Counter(r) == Head(job[r].left)
Window(r) == <<Counter(r), WindowStartFor(job[r].at, Ticks(Counter(r)))>>

Init ==
  /\ clock = 0
  /\ rateCounter = [w \in Windows |-> 0]
  /\ charged = [w \in Windows |-> 0]
  /\ granted = [w \in Windows |-> 0]
  /\ calls = 0
  /\ pc = [r \in Requests |-> "idle"]
  /\ job = [r \in Requests |-> NoCharge]

Goto(r, to) == pc' = [pc EXCEPT ![r] = to]
Finish(r) == Goto(r, "idle") /\ job' = [job EXCEPT ![r] = NoCharge]
-----------------------------------------------------------------------------
\* Every charge happens within MaxDelay of the time it captured.
Tick ==
  /\ clock < MaxTime
  /\ \A r \in Requests :
       pc[r] \in {"calling", "counted"} => clock < job[r].at + MaxDelay
  /\ clock' = clock + 1
  /\ UNCHANGED <<rateCounter, charged, granted, calls, pc, job>>

\* rateLimit or chargeCeilings: the principals one by one.
Begin(r, counters) ==
  /\ pc[r] = "idle"
  /\ Goto(r, "next")
  /\ job' = [job EXCEPT ![r].left = counters]
  /\ UNCHANGED <<clock, rateCounter, charged, granted, calls>>

\* chargeCeiling is called, and captures the time.
Call(r) ==
  /\ pc[r] = "next"
  /\ calls < MaxCalls
  /\ calls' = calls + 1
  /\ Goto(r, "calling")
  /\ job' = [job EXCEPT ![r].at = clock]
  /\ UNCHANGED <<clock, rateCounter, charged, granted>>

Allowed(count, c) == count <= MaxOf[c]

\* INSERT ... ON CONFLICT DO UPDATE ... RETURNING count: one statement.
Upsert(r) ==
  LET w == Window(r)
      count == rateCounter[w] + 1
  IN
  /\ pc[r] = "calling"
  /\ rateCounter' = [rateCounter EXCEPT ![w] = count]
  /\ charged' = [charged EXCEPT ![w] = @ + 1]
  /\ granted' = [granted EXCEPT ![w] = @ + (IF Allowed(count, w[1]) THEN 1 ELSE 0)]
  /\ Goto(r, "counted")
  /\ job' = [job EXCEPT ![r].count = count]
  /\ UNCHANGED <<clock, calls>>

\* Rows this old are deleted, of every principal and action.
OneWindowInstead(start, now) == start < now - LongestWindow * Second
Stale(start, now) == start < now - Retention

SweptBy(r) ==
  [w \in Windows |-> IF Stale(w[2], job[r].at) THEN 0 ELSE rateCounter[w]]

\* A refusal stops the charges; the last one allowed lets the action run.
Sweep(r) ==
  LET c == Counter(r) IN
  /\ pc[r] = "counted"
  /\ rateCounter' = SweptBy(r)
  /\ \/ /\ ~Allowed(job[r].count, c)
        /\ Goto(r, "refused")
        /\ job' = [job EXCEPT ![r].retryAfter = RetryAfterFor(job[r].at, Ticks(c))]
     \/ /\ Allowed(job[r].count, c)
        /\ Tail(job[r].left) # << >>
        /\ Goto(r, "next")
        /\ job' = [job EXCEPT ![r].left = Tail(@)]
     \/ /\ Allowed(job[r].count, c)
        /\ Tail(job[r].left) = << >>
        /\ Finish(r)
  /\ UNCHANGED <<clock, charged, granted, calls>>

\* The caller has read the refusal.
Refuse(r) ==
  /\ pc[r] = "refused"
  /\ Finish(r)
  /\ UNCHANGED <<clock, rateCounter, charged, granted, calls>>

\* A statement throws, or the process dies: the action does not run, and a
\* charge already counted stays.
Fail(r) ==
  /\ pc[r] \in {"next", "calling", "counted"}
  /\ Finish(r)
  /\ UNCHANGED <<clock, rateCounter, charged, granted, calls>>

Charge(r) ==
  \/ \E counters \in Charges : Begin(r, counters)
  \/ Call(r) \/ Upsert(r) \/ Sweep(r) \/ Refuse(r) \/ Fail(r)

Next == Tick \/ \E r \in Requests : Charge(r)

Spec == Init /\ [][Next]_rateVars
-----------------------------------------------------------------------------
(* Properties *)

\* Every variable holds a value its column, or its request, may hold.
RateTypeOK ==
  /\ clock \in Times
  /\ rateCounter \in [Windows -> Nat]
  /\ charged \in [Windows -> Nat]
  /\ granted \in [Windows -> Nat]
  /\ calls \in 0..MaxCalls
  /\ pc \in [Requests -> RatePCs]
  /\ job \in [Requests -> RateJobs]

\* A window of a ceiling lets through its first charges up to its number and not
\* one more, and refuses nobody earlier, however many requests charge it at once
\* and whoever's sweep runs between (chargeCeiling, rate-limit.ts:748-768).
CeilingHolds ==
  \A w \in Windows :
    granted[w] = IF charged[w] <= MaxOf[w[1]] THEN charged[w] ELSE MaxOf[w[1]]

\* Whoever is refused met a window that was spent, and the wait she is told
\* takes her into the very next one: not into the same one again, not past it
\* (retryAfterFor, rate-limit.ts:427-431).
RefusalIsHonest ==
  \A r \in Requests :
    pc[r] = "refused" =>
      LET length == Ticks(Counter(r))
          start == Window(r)[2]
      IN /\ charged[Window(r)] > MaxOf[Counter(r)]
         /\ job[r].retryAfter >= 1
         /\ WindowStartFor(job[r].at + job[r].retryAfter * Second, length) = start + length

\* A row is deleted only when its window is over and no charge on its way can
\* still reach it (rate-limit.ts:298-300).
SweptWindowsAreOver ==
  [][\A w \in Windows :
       rateCounter[w] # 0 /\ rateCounter'[w] = 0 =>
         /\ w[2] + Ticks(w[1]) <= clock
         /\ \A r \in Requests : pc[r] = "calling" => Window(r) # w]_rateVars
-----------------------------------------------------------------------------
(* The inductive invariant: a window that a charge can still reach has not  *)
(* been swept, so its row has counted every charge made of it.              *)

RowsCountCharges ==
  \A w \in Windows : w[2] >= clock - Retention => rateCounter[w] = charged[w]

ChargesAreRecent ==
  \A r \in Requests :
    /\ pc[r] \in {"next", "calling", "counted", "refused"} => job[r].left # << >>
    /\ pc[r] \in {"calling", "counted", "refused"} => job[r].at <= clock
    /\ pc[r] \in {"calling", "counted"} => clock <= job[r].at + MaxDelay

CountsWereCharged ==
  \A r \in Requests : pc[r] = "counted" => job[r].count <= charged[Window(r)]

RateInv ==
  /\ RateTypeOK
  /\ RowsCountCharges
  /\ ChargesAreRecent
  /\ CountsWereCharged
  /\ CeilingHolds
  /\ RefusalIsHonest

=============================================================================

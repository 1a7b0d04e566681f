---------------------------- MODULE Boot_proofs ----------------------------
(***************************************************************************)
(* What holds of every boot, for all limits, delays and years: the types,  *)
(* the portal at rest, the resources of the scan and of check_internet,    *)
(* and the budget of the wait for the time.                                *)
(***************************************************************************)
EXTENDS Boot, TLAPS

-----------------------------------------------------------------------------
(* the table of steps                                                      *)

\* r is s, which ends at m, followed by t, which ends at n.
Joined(S, s, t, m, n, r) ==
    /\ r \in Seq(S) /\ Len(r) = n
    /\ m \in Nat /\ n \in Nat /\ m <= n
    /\ \A i \in 1 .. n : r[i] = IF i <= m THEN s[i] ELSE t[i - m]

\* x is s, t, u, v and w laid end to end, which end at a, b, c, d and e.
JoinedFive(S, s, t, u, v, w, a, b, c, d, e, x) ==
    /\ x \in Seq(S) /\ Len(x) = e
    /\ \A i \in 1 .. e : x[i] = IF i <= a THEN s[i]
                                ELSE IF i <= b THEN t[i - a]
                                ELSE IF i <= c THEN u[i - b]
                                ELSE IF i <= d THEN v[i - c]
                                ELSE w[i - d]

\* What concatenating two sequences gives.
LEMMA Join ==
    ASSUME NEW S, NEW s \in Seq(S), NEW t \in Seq(S), NEW m, NEW n, NEW r,
           m = Len(s), n = m + Len(t), r = s \o t
    PROVE  Joined(S, s, t, m, n, r)
  BY DEF Joined

\* The tables of the four functions and of app_main's own calls, laid end to end.
LEMMA JoinFive ==
    ASSUME NEW S, NEW s \in Seq(S), NEW t \in Seq(S), NEW u \in Seq(S),
           NEW v \in Seq(S), NEW w \in Seq(S),
           NEW a, NEW b, NEW c, NEW d, NEW e,
           a = Len(s), b = a + Len(t), c = b + Len(u), d = c + Len(v), e = d + Len(w),
           NEW st, NEW stu, NEW stuv, NEW x,
           st = s \o t, stu = st \o u, stuv = stu \o v, x = stuv \o w
    PROVE  JoinedFive(S, s, t, u, v, w, a, b, c, d, e, x)
<1>1. Joined(S, s, t, a, b, st)
  BY Join, Zenon
<1>2. Joined(S, st, u, b, c, stu)
  <2>1. st \in Seq(S) /\ Len(st) = b
    BY <1>1 DEF Joined
  <2>2. QED
    BY <2>1, Join, Zenon
<1>3. Joined(S, stu, v, c, d, stuv)
  <2>1. stu \in Seq(S) /\ Len(stu) = c
    BY <1>2 DEF Joined
  <2>2. QED
    BY <2>1, Join, Zenon
<1>4. Joined(S, stuv, w, d, e, x)
  <2>1. stuv \in Seq(S) /\ Len(stuv) = d
    BY <1>3 DEF Joined
  <2>2. QED
    BY <2>1, Join, Zenon
<1>5. QED
  BY ONLY <1>1, <1>2, <1>3, <1>4 DEF Joined, JoinedFive

\* The entries of the table.
Entry == [part : {"nvs", "netif", "event_loop", "sta_netif", "event_group", "driver",
                  "wifi_handler", "ip_handler", "sta_mode", "wifi", "ap_netif",
                  "ap_handler", "apsta_mode", "hotspot", "server", "routes",
                  "history", "buffer", "scan"},
          error : {"return", "ignore", "abort"}]

\* The tables' lengths.
LEMMA Tables ==
    /\ WifiManagerInit \in Seq(Entry) /\ Len(WifiManagerInit) = 10
    /\ ApManagerInit \in Seq(Entry) /\ Len(ApManagerInit) = 2
    /\ ApManagerStart \in Seq(Entry) /\ Len(ApManagerStart) = 2
    /\ WebportalInit \in Seq(Entry) /\ Len(WebportalInit) = 2
    /\ Preparing \in Seq(Entry) /\ Len(Preparing) = 3
<1>1. WifiManagerInit \in Seq(Entry) /\ Len(WifiManagerInit) = 10
  BY DEF WifiManagerInit, Does, Entry
<1>2. /\ ApManagerInit \in Seq(Entry) /\ Len(ApManagerInit) = 2
      /\ ApManagerStart \in Seq(Entry) /\ Len(ApManagerStart) = 2
      /\ WebportalInit \in Seq(Entry) /\ Len(WebportalInit) = 2
      /\ Preparing \in Seq(Entry) /\ Len(Preparing) = 3
  BY DEF ApManagerInit, ApManagerStart, WebportalInit, Preparing, Does, Entry
<1>3. QED
  BY <1>1, <1>2

\* Where each table lies in Steps.
LEMMA StepsJoined ==
    JoinedFive(Entry, WifiManagerInit, ApManagerInit, ApManagerStart, WebportalInit,
               Preparing, 10, 12, 14, 16, 19, Steps)
<1>1. PICK st : st = WifiManagerInit \o ApManagerInit
  OBVIOUS
<1>2. PICK stu : stu = st \o ApManagerStart
  OBVIOUS
<1>3. PICK stuv : stuv = stu \o WebportalInit
  OBVIOUS
<1>4. Steps = stuv \o Preparing
  BY <1>1, <1>2, <1>3 DEF Steps
<1>5. /\ 10 = Len(WifiManagerInit) /\ 12 = 10 + Len(ApManagerInit)
      /\ 14 = 12 + Len(ApManagerStart) /\ 16 = 14 + Len(WebportalInit)
      /\ 19 = 16 + Len(Preparing)
  BY Tables
<1>6. QED
  BY <1>1, <1>2, <1>3, <1>4, <1>5, Tables, JoinFive, Zenon

\* wifi_manager_init ends with step 10, the hotspot is up after step 14, the
\* server after step 15; the buffer is taken in step 18, and the step after it
\* does not return.
LEMMA StepTable ==
    /\ Len(Steps) = 19
    /\ Len(WifiManagerInit) = 10
    /\ Steps \in Seq(Entry)
    /\ Steps[10] = Does("wifi", "return")
    /\ Steps[14] = Does("hotspot", "abort")
    /\ Steps[15] = Does("server", "abort")
    /\ \A i \in 11 .. 15 : Steps[i].error # "return"
    /\ Steps[19].error # "return"
    /\ \A i \in 1 .. 19 : Steps[i].part = "buffer" => i = 18
<1>1. /\ Steps \in Seq(Entry) /\ Len(Steps) = 19
      /\ \A i \in 1 .. 19 : Steps[i] = IF i <= 10 THEN WifiManagerInit[i]
                                       ELSE IF i <= 12 THEN ApManagerInit[i - 10]
                                       ELSE IF i <= 14 THEN ApManagerStart[i - 12]
                                       ELSE IF i <= 16 THEN WebportalInit[i - 14]
                                       ELSE Preparing[i - 16]
  BY StepsJoined DEF JoinedFive
<1>2. /\ Steps[10] = Does("wifi", "return")
      /\ Steps[14] = Does("hotspot", "abort")
      /\ Steps[15] = Does("server", "abort")
      /\ Steps[19].error # "return"
  BY <1>1 DEF WifiManagerInit, ApManagerInit, ApManagerStart, WebportalInit, Preparing, Does
<1>3. \A i \in 11 .. 15 : Steps[i].error # "return"
  BY <1>1 DEF ApManagerInit, ApManagerStart, WebportalInit, Does
<1>4. \A i \in 1 .. 19 : Steps[i].part = "buffer" => i = 18
  BY <1>1 DEF WifiManagerInit, ApManagerInit, ApManagerStart, WebportalInit, Preparing, Does
<1>5. QED
  BY <1>1, <1>2, <1>3, <1>4, Tables

-----------------------------------------------------------------------------
(* the wait for the time                                                   *)

\* SNTP's time is not before the years the code asks for.
ServerYear == RealYear >= MinYear /\ RealYear >= ExpectedYear

\* GivesUpOnBudget is not inductive: it has to be known that a clock being
\* verified is a plausible one, that nobody waits once the count is up, and
\* that only the last count gives up without a look.
TimeInv ==
    /\ TypeOK
    /\ waited = Elapsed(retry)
    /\ pc \in {"poll", "delay"} => retry <= MaxTries
    /\ ServerYear => /\ pc = "verify" => MinYear <= year
                     /\ pc = "stopped" => retry = MaxTries + 1 \/ MinYear <= year
                     /\ RunsOnTime

\* One more wait adds what DelayOf says.
LEMMA ElapsedStep ==
    ASSUME NEW n \in Nat
    PROVE  Elapsed(n + 1) = Elapsed(n) + DelayOf(n)
<1> USE TimeAssumption
<1>1. CASE n < ShortTries
  <2>1. Elapsed(n) = n * ShortDelay /\ Elapsed(n + 1) = (n + 1) * ShortDelay
    BY <1>1 DEF Elapsed
  <2>2. (n + 1) * ShortDelay = n * ShortDelay + ShortDelay
    OBVIOUS
  <2>3. QED
    BY <1>1, <2>1, <2>2 DEF DelayOf
<1>2. CASE n = ShortTries
  <2>1. /\ Elapsed(n) = n * ShortDelay
        /\ Elapsed(n + 1) = ShortTries * ShortDelay + 1 * LongDelay
    BY <1>2 DEF Elapsed
  <2>2. QED
    BY <1>2, <2>1 DEF DelayOf
<1>3. CASE n > ShortTries
  <2>1. PICK k \in Nat : k = n - ShortTries
    BY <1>3
  <2>2. /\ Elapsed(n) = ShortTries * ShortDelay + k * LongDelay
        /\ Elapsed(n + 1) = ShortTries * ShortDelay + (k + 1) * LongDelay
    BY <1>3, <2>1 DEF Elapsed
  <2>3. (k + 1) * LongDelay = k * LongDelay + LongDelay
    OBVIOUS
  <2>4. QED
    BY <1>3, <2>2, <2>3 DEF DelayOf
<1>4. QED
  BY <1>1, <1>2, <1>3

\* No number of waits up to the limit takes longer than the budget.
LEMMA ElapsedInBudget ==
    ASSUME NEW n \in 0 .. MaxTries + 1
    PROVE  /\ Elapsed(n) \in Nat
           /\ Elapsed(n) <= Budget
           /\ n = MaxTries + 1 => Elapsed(n) = Budget
<1> USE TimeAssumption
<1>1. PICK over \in Nat : over = MaxTries + 1 - ShortTries
  OBVIOUS
<1>2. Budget = ShortTries * ShortDelay + over * LongDelay
  BY <1>1 DEF Budget
<1>3. \A i, j, d \in Nat : i <= j => i * d <= j * d
  OBVIOUS
<1>4. ShortTries * ShortDelay \in Nat /\ over * LongDelay \in Nat
  OBVIOUS
<1>5. CASE n <= ShortTries
  <2>1. Elapsed(n) = n * ShortDelay /\ n * ShortDelay \in Nat
    BY <1>5 DEF Elapsed
  <2>2. n * ShortDelay <= ShortTries * ShortDelay
    BY <1>3, <1>5
  <2>3. ASSUME n = MaxTries + 1 PROVE n = ShortTries /\ over = 0
    BY <1>1, <1>5, <2>3
  <2>4. n = MaxTries + 1 => over * LongDelay = 0
    BY <2>3
  <2>5. QED
    BY <1>2, <1>4, <2>1, <2>2, <2>3, <2>4
<1>6. CASE n > ShortTries
  <2>1. PICK k \in Nat : k = n - ShortTries
    BY <1>6
  <2>2. /\ Elapsed(n) = ShortTries * ShortDelay + k * LongDelay
        /\ k * LongDelay \in Nat /\ k <= over
    BY <1>1, <1>6, <2>1 DEF Elapsed
  <2>3. k * LongDelay <= over * LongDelay
    BY <1>3, <2>2
  <2>4. n = MaxTries + 1 => k = over
    BY <1>1, <2>1
  <2>5. QED
    BY <1>2, <1>4, <2>2, <2>3, <2>4
<1>7. QED
  BY <1>5, <1>6

\* What TimeInv is for.
LEMMA TimeInvBudget ==
    ASSUME ServerYear, TimeInv
    PROVE  GivesUpOnBudget
  BY ElapsedInBudget DEF TimeInv, TypeOK, GivesUpOnBudget

\* The steps of time_sync_init and verify_system_time keep TimeInv.
LEMMA PollStep ==
    ASSUME TimeInv, Poll
    PROVE  TimeInv'
  BY TimeAssumption DEF TimeInv, TypeOK, Poll, Plausible, RunsOnTime, Elapsed

LEMMA DelayStep ==
    ASSUME TimeInv, Delay
    PROVE  TimeInv'
<1> USE TimeAssumption
<1>1. retry \in Nat /\ retry <= MaxTries
  BY DEF TimeInv, TypeOK, Delay
<1>2. waited' = Elapsed(retry')
  BY <1>1, ElapsedStep DEF TimeInv, Delay
<1>3. retry' \in 0 .. MaxTries + 1
  BY <1>1 DEF Delay
<1>4. waited' \in Nat
  BY <1>2, <1>3, ElapsedInBudget
<1>5. QED
  BY <1>1, <1>2, <1>3, <1>4 DEF TimeInv, TypeOK, Delay, RunsOnTime, Elapsed

LEMMA VerifyStep ==
    ASSUME TimeInv, Verify
    PROVE  TimeInv'
  BY TimeAssumption DEF TimeInv, TypeOK, Verify, RunsOnTime, Elapsed

LEMMA AnswerStep ==
    ASSUME TimeInv, Answer
    PROVE  TimeInv'
  BY TimeAssumption DEF ServerYear, TimeInv, TypeOK, Answer, RunsOnTime, Elapsed

\* Nothing of the clock changes.
LEMMA ClockKept ==
    ASSUME TimeInv, UNCHANGED clock
    PROVE  TimeInv'
  BY DEF TimeInv, TypeOK, RunsOnTime, Elapsed, clock

\* A reboot keeps the clock's year and starts the count again.
LEMMA RebootTime ==
    ASSUME TimeInv, Reboot
    PROVE  TimeInv'
<1>1. /\ retry' = 0 /\ waited' = 0 /\ pc' = "poll" /\ year' = year
      /\ answered' \in BOOLEAN
  BY DEF Reboot
<1>2. TypeOK' /\ RunsOnTime'
  BY <1>1, TimeAssumption DEF TimeInv, TypeOK, RunsOnTime
<1>3. (waited = Elapsed(retry))'
  BY <1>1, TimeAssumption DEF Elapsed
<1>4. QED
  BY <1>1, <1>2, <1>3, TimeAssumption DEF TimeInv

-----------------------------------------------------------------------------
(* app_main                                                                *)

\* How far the set-up has come says what is up.
Progress ==
    /\ phase = "setup" => at <= 19
    /\ phase \notin {"setup", "returned"} => at = 20
    /\ phase = "returned" => at <= 10 \/ at > 15
    /\ at > 10 => "wifi" \in up
    /\ at > 14 => "hotspot" \in up
    /\ at > 15 => "server" \in up

\* What is held, at each place of app_main and of check_internet.
Holding ==
    /\ "buffer" \in held => at > 18 /\ phase \in {"setup", "known"}
    /\ check = "none" => held \subseteq {"buffer"}
    /\ check = "socket" => held \subseteq {"buffer", "addresses"}
    /\ check = "reply" => held \subseteq {"buffer", "socket"}

\* The microphone comes last.
MicLast ==
    /\ phase \in {"mic", "running"} => pc = "run"
    /\ "microphone" \in up => phase = "running"

IInv == BootTypeOK /\ TimeInv /\ Progress /\ Holding /\ MicLast

\* What IInv is for.
LEMMA IInvImplies ==
    ASSUME IInv
    PROVE  /\ PortalActive /\ NothingLeaks
           /\ ServerYear => GivesUpOnBudget /\ MicOnTime
<1>1. ServerYear => GivesUpOnBudget
  BY TimeInvBudget DEF IInv
<1>2. PortalActive
  BY StepTable DEF IInv, BootTypeOK, Progress, PortalActive, Portal, Wakeful,
         Unwatched
<1>3. NothingLeaks
  BY DEF IInv, Holding, NothingLeaks
<1>4. ServerYear => MicOnTime
  BY DEF IInv, MicLast, TimeInv, MicOnTime
<1>5. QED
  BY <1>1, <1>2, <1>3, <1>4

\* The first state.
LEMMA InitInv ==
    ASSUME BootInit
    PROVE  IInv
<1> USE BootAssumption, TimeAssumption
<1>1. TimeInv
  <2>1. /\ year \in Nat /\ pc = "poll" /\ retry = 0 /\ waited = 0
        /\ answered \in BOOLEAN
    BY DEF BootInit, Init
  <2>2. waited = Elapsed(retry)
    BY <2>1 DEF Elapsed
  <2>3. QED
    BY <2>1, <2>2 DEF TimeInv, TypeOK, RunsOnTime
<1>2. BootTypeOK
  <2>1. connected \in BOOLEAN /\ at = 1
    BY DEF BootInit
  <2>2. QED
    BY <1>1, <2>1, StepTable DEF BootInit, BootTypeOK, TimeInv
<1>3. Progress /\ Holding /\ MicLast
  BY DEF BootInit, Progress, Holding, MicLast
<1>4. QED
  BY <1>1, <1>2, <1>3 DEF IInv

\* The part of the step app_main is in.
LEMMA StepPart ==
    ASSUME IInv, phase = "setup"
    PROVE  /\ at \in 1 .. 19
           /\ Step.part \in {Steps[i].part : i \in DOMAIN Steps}
           /\ Step.part \notin {"console", "microphone"}
<1>1. at \in 1 .. 19
  BY StepTable DEF IInv, BootTypeOK, Progress
<1>2. at \in DOMAIN Steps /\ Steps[at] \in Entry
  <2>1. Steps \in Seq(Entry) /\ Len(Steps) = 19
    BY StepTable
  <2>2. ASSUME NEW S, NEW s \in Seq(S), NEW i \in 1 .. Len(s)
        PROVE  i \in DOMAIN s /\ s[i] \in S
    OBVIOUS
  <2>3. at \in 1 .. Len(Steps)
    BY <1>1, <2>1
  <2>4. QED
    BY <2>1, <2>2, <2>3, Zenon
<1>3. QED
  BY <1>1, <1>2 DEF Step, Entry

\* A step of the set-up leaves the next one, or the known networks, to come.
LEMMA AdvanceTypes ==
    ASSUME IInv, phase = "setup", Advance
    PROVE  /\ at' = at + 1 /\ at' \in 1 .. 20
           /\ phase' = IF at = 19 THEN "known" ELSE "setup"
  BY StepPart, StepTable DEF Advance

LEMMA StepDoneInv ==
    ASSUME IInv, StepDone
    PROVE  IInv'
<1>1. phase = "setup" /\ at \in 1 .. 19
  BY StepPart DEF StepDone
<1>2. /\ at' = at + 1 /\ at' \in 1 .. 20
      /\ phase' = IF at = 19 THEN "known" ELSE "setup"
  BY AdvanceTypes DEF StepDone
<1>3. TimeInv'
  BY ClockKept DEF StepDone, IInv
<1>4. BootTypeOK'
  BY <1>1, <1>2, <1>3, StepPart, StepTable DEF StepDone, IInv, BootTypeOK, TimeInv
<1>5. Progress'
  BY <1>1, <1>2, StepTable, StepPart DEF StepDone, IInv, Progress, Step, Does
<1>6. Holding'
  BY <1>1, <1>2, StepTable DEF StepDone, IInv, Holding, Step
<1>7. MicLast'
  BY <1>1, <1>2, StepPart DEF StepDone, IInv, MicLast
<1>8. QED
  BY <1>3, <1>4, <1>5, <1>6, <1>7 DEF IInv

LEMMA StepIgnoredInv ==
    ASSUME IInv, StepIgnored
    PROVE  IInv'
<1>1. phase = "setup" /\ at \in 1 .. 19 /\ Steps[at].error = "ignore"
  BY StepPart DEF StepIgnored, Step
<1>2. /\ at' = at + 1 /\ at' \in 1 .. 20
      /\ phase' = IF at = 19 THEN "known" ELSE "setup"
  BY AdvanceTypes DEF StepIgnored
<1>3. TimeInv'
  BY ClockKept DEF StepIgnored, IInv
<1>4. BootTypeOK'
  BY <1>1, <1>2, <1>3, StepTable DEF StepIgnored, IInv, BootTypeOK, TimeInv, console
<1>5. Progress'
  <2>1. at # 10 /\ at # 14 /\ at # 15
    BY <1>1, StepTable DEF Does
  <2>2. QED
    BY <1>1, <1>2, <2>1 DEF StepIgnored, IInv, Progress
<1>6. Holding'
  BY <1>1, <1>2 DEF StepIgnored, IInv, Holding, console
<1>7. MicLast'
  BY <1>1, <1>2 DEF StepIgnored, IInv, MicLast
<1>8. QED
  BY <1>3, <1>4, <1>5, <1>6, <1>7 DEF IInv

LEMMA StepReturnsInv ==
    ASSUME IInv, StepReturns
    PROVE  IInv'
<1>1. phase = "setup" /\ at \in 1 .. 19 /\ Steps[at].error = "return"
  BY StepPart DEF StepReturns, Step
<1>2. at <= 10 \/ at > 15
  BY <1>1, StepTable
<1>3. at # 19
  BY <1>1, StepTable
<1>4. TimeInv'
  BY ClockKept DEF StepReturns, IInv
<1>5. BootTypeOK'
  BY <1>1, <1>4 DEF StepReturns, IInv, BootTypeOK, TimeInv, console
<1>6. Progress'
  BY <1>1, <1>2 DEF StepReturns, IInv, Progress
<1>7. Holding'
  BY <1>1, <1>3 DEF StepReturns, IInv, Holding, console
<1>8. MicLast'
  BY <1>1 DEF StepReturns, IInv, MicLast
<1>9. QED
  BY <1>4, <1>5, <1>6, <1>7, <1>8 DEF IInv

\* A reboot, whatever the reason.
LEMMA RebootInv ==
    ASSUME IInv, Reboot
    PROVE  IInv'
<1>1. TimeInv'
  BY RebootTime DEF IInv
<1>2. BootTypeOK'
  <2>1. connected' \in BOOLEAN /\ at' = 1
    BY DEF Reboot
  <2>2. boots' \in 1 .. MaxBoots
    BY BootAssumption DEF Reboot, IInv, BootTypeOK
  <2>3. QED
    BY <1>1, <2>1, <2>2, StepTable DEF Reboot, IInv, BootTypeOK, TimeInv
<1>3. Progress' /\ Holding' /\ MicLast'
  BY DEF Reboot, Progress, Holding, MicLast
<1>4. QED
  BY <1>1, <1>2, <1>3 DEF IInv

-----------------------------------------------------------------------------
(* the networks and check_internet                                         *)

LEMMA KnownInv ==
    ASSUME IInv, Known
    PROVE  IInv'
<1>1. TimeInv'
  BY ClockKept DEF Known, IInv
<1>2. BootTypeOK'
  BY <1>1 DEF Known, IInv, BootTypeOK, TimeInv
<1>3. Progress'
  BY DEF Known, IInv, Progress
<1>4. Holding'
  BY DEF Known, IInv, Holding
<1>5. MicLast'
  BY DEF Known, IInv, MicLast
<1>6. QED
  BY <1>1, <1>2, <1>3, <1>4, <1>5 DEF IInv

LEMMA TrapInv ==
    ASSUME IInv, Trap
    PROVE  IInv'
<1>1. TimeInv'
  BY ClockKept DEF Trap, IInv
<1>2. BootTypeOK'
  BY <1>1 DEF Trap, IInv, BootTypeOK, TimeInv, console
<1>3. Progress' /\ Holding' /\ MicLast'
  BY DEF Trap, IInv, Progress, Holding, MicLast, console
<1>4. QED
  BY <1>1, <1>2, <1>3 DEF IInv

\* Only the flag changes.
LEMMA FlagInv ==
    ASSUME IInv, Address \/ LinkLost
    PROVE  IInv'
<1>1. UNCHANGED <<clock, app, console, boots>> /\ connected' \in BOOLEAN
  BY DEF Address, LinkLost
<1>2. TimeInv'
  BY <1>1, ClockKept DEF IInv
<1>3. BootTypeOK'
  BY <1>1, <1>2 DEF IInv, BootTypeOK, TimeInv, app, console
<1>4. Progress' /\ Holding' /\ MicLast'
  BY <1>1 DEF IInv, Progress, Holding, MicLast, app, console, clock
<1>5. QED
  BY <1>2, <1>3, <1>4 DEF IInv

\* check_internet up to its reply.
LEMMA CheckStepInv ==
    ASSUME IInv, Resolve \/ Socket \/ Dial
    PROVE  IInv'
<1>1. UNCHANGED <<clock, app, connected, boots>>
  BY DEF Resolve, Socket, Dial, CheckStep
<1>2. TimeInv'
  BY <1>1, ClockKept DEF IInv
<1>3. BootTypeOK'
  BY <1>1, <1>2 DEF Resolve, Socket, Dial, Takes, IInv, BootTypeOK, TimeInv, app
<1>4. Holding'
  BY <1>1 DEF Resolve, Socket, Dial, Takes, IInv, Holding, BootTypeOK, app
<1>5. Progress' /\ MicLast'
  BY <1>1 DEF IInv, Progress, MicLast, app, clock
<1>6. QED
  BY <1>2, <1>3, <1>4, <1>5 DEF IInv

LEMMA ReplyInv ==
    ASSUME IInv, Reply
    PROVE  IInv'
<1>1. TimeInv'
  BY ClockKept DEF Reply, IInv
<1>2. BootTypeOK'
  BY <1>1 DEF Reply, Takes, IInv, BootTypeOK, TimeInv
<1>3. Progress'
  BY DEF Reply, IInv, Progress
<1>4. Holding'
  BY DEF Reply, Takes, IInv, Holding
<1>5. MicLast'
  BY DEF Reply, IInv, MicLast, clock
<1>6. QED
  BY <1>1, <1>2, <1>3, <1>4, <1>5 DEF IInv

-----------------------------------------------------------------------------
(* the time and the microphone                                             *)

\* The clock's own steps leave everything else alone.
LEMMA TimeInvFrame ==
    ASSUME IInv, TimeInv', UNCHANGED <<app, connected, console, boots>>,
           phase \in {"mic", "running"} => pc' = pc
    PROVE  IInv'
<1>1. BootTypeOK'
  BY DEF IInv, BootTypeOK, TimeInv, app, console
<1>2. Progress' /\ Holding' /\ MicLast'
  BY DEF IInv, Progress, Holding, MicLast, app, console
<1>3. QED
  BY <1>1, <1>2 DEF IInv

LEMMA AskTimeInv ==
    ASSUME IInv, AskTime
    PROVE  IInv'
<1>1. TimeInv'
  BY PollStep, DelayStep, VerifyStep DEF IInv, AskTime
<1>2. QED
  BY <1>1, TimeInvFrame DEF AskTime

LEMMA TimeAnsweredInv ==
    ASSUME IInv, TimeAnswered
    PROVE  IInv'
<1>1. TimeInv'
  BY AnswerStep DEF IInv, TimeAnswered
<1>2. QED
  BY <1>1, TimeInvFrame DEF TimeAnswered, Answer

LEMMA TimeDecidedInv ==
    ASSUME IInv, TimeDecided
    PROVE  IInv'
<1>1. TimeInv'
  BY ClockKept DEF TimeDecided, IInv
<1>2. BootTypeOK'
  BY <1>1 DEF TimeDecided, IInv, BootTypeOK, TimeInv, console
<1>3. Progress' /\ Holding' /\ MicLast'
  BY DEF TimeDecided, IInv, Progress, Holding, MicLast, console, clock
<1>4. QED
  BY <1>1, <1>2, <1>3 DEF IInv

LEMMA MicStartedInv ==
    ASSUME IInv, MicStarted
    PROVE  IInv'
<1>1. TimeInv'
  BY ClockKept DEF MicStarted, IInv
<1>2. BootTypeOK'
  BY <1>1 DEF MicStarted, IInv, BootTypeOK, TimeInv, console
<1>3. Progress' /\ Holding' /\ MicLast'
  BY DEF MicStarted, IInv, Progress, Holding, MicLast, console, clock
<1>4. QED
  BY <1>1, <1>2, <1>3 DEF IInv

-----------------------------------------------------------------------------
(* the theorems                                                            *)

\* IInv is inductive.
LEMMA NextInv ==
    ASSUME IInv, [BootNext]_bootVars
    PROVE  IInv'
<1>1. CASE StepDone
  BY <1>1, StepDoneInv
<1>2. CASE StepIgnored
  BY <1>2, StepIgnoredInv
<1>3. CASE StepReturns
  BY <1>3, StepReturnsInv
<1>4. CASE StepAborts \/ NoEventGroup \/ MicAborts
  BY <1>4, RebootInv DEF StepAborts, NoEventGroup, MicAborts
<1>5. CASE Known
  BY <1>5, KnownInv
<1>6. CASE Trap
  BY <1>6, TrapInv
<1>7. CASE Address \/ LinkLost
  BY <1>7, FlagInv
<1>8. CASE Resolve \/ Socket \/ Dial
  BY <1>8, CheckStepInv
<1>9. CASE Reply
  BY <1>9, ReplyInv
<1>10. CASE AskTime
  BY <1>10, AskTimeInv
<1>11. CASE TimeAnswered
  BY <1>11, TimeAnsweredInv
<1>12. CASE TimeDecided
  BY <1>12, TimeDecidedInv
<1>13. CASE MicStarted
  BY <1>13, MicStartedInv
<1>14. CASE UNCHANGED bootVars
  <2>1. UNCHANGED <<clock, app, connected, console, boots>>
    BY <1>14 DEF bootVars
  <2>2. TimeInv'
    BY <2>1, ClockKept DEF IInv
  <2>3. QED
    BY <2>1, <2>2, TimeInvFrame DEF clock
<1>15. QED
  BY <1>1, <1>2, <1>3, <1>4, <1>5, <1>6, <1>7, <1>8, <1>9, <1>10, <1>11, <1>12, <1>13,
     <1>14 DEF BootNext, Main, Setup, CheckInternet

\* It holds of every boot.
LEMMA Invariance == BootSpec => []IInv
<1>1. BootInit => IInv
  BY InitInv
<1>2. IInv /\ [BootNext]_bootVars => IInv'
  BY NextInv
<1>3. QED
  BY <1>1, <1>2, PTL DEF BootSpec

\* Every variable of Boot keeps its type, whatever step fails and however often
\* the chip starts again.
THEOREM TypeCorrect == BootSpec => []BootTypeOK
<1>1. IInv => BootTypeOK
  BY DEF IInv
<1>2. QED
  BY <1>1, Invariance, PTL

\* Wherever app_main rests, nothing of what it takes to set the device up can be
\* missing but the routes, the event group and the event handlers, whose errors
\* nobody looks at, unless wifi_manager_init failed.
THEOREM PortalStaysActive == BootSpec => []PortalActive
<1>1. IInv => PortalActive
  BY IInvImplies
<1>2. QED
  BY <1>1, Invariance, PTL

\* The scan's buffer, and check_internet's addresses and socket, are given back
\* on every path.
THEOREM NothingEverLeaks == BootSpec => []NothingLeaks
<1>1. IInv => NothingLeaks
  BY IInvImplies
<1>2. QED
  BY <1>1, Invariance, PTL

\* The boot is held up for the time by Budget at most, and given up before only
\* for a clock that verify_system_time rejects, whatever the limits and delays.
THEOREM BudgetKept ==
    ASSUME ServerYear
    PROVE  BootSpec => []GivesUpOnBudget
<1>1. IInv => GivesUpOnBudget
  BY IInvImplies
<1>2. QED
  BY <1>1, Invariance, PTL

\* The microphone is started only after a clock that shows the expected year.
THEOREM MicWaitsForTime ==
    ASSUME ServerYear
    PROVE  BootSpec => []MicOnTime
<1>1. IInv => MicOnTime
  BY IInvImplies
<1>2. QED
  BY <1>1, Invariance, PTL
=============================================================================

----------------------------- MODULE TimeSync -----------------------------
(***************************************************************************)
(* The clock at boot: time_sync_init, which polls it while SNTP runs, and  *)
(* verify_system_time, which app_main calls next.  The clock is its year,  *)
(* which is all either function tests.                                     *)
(***************************************************************************)
EXTENDS Naturals

CONSTANTS MinYear,     \* the year from which time_sync_init takes the clock
          ExpectedYear,\* the year from which verify_system_time does
          RealYear,    \* the year a time server answers
          ColdYears,   \* the years the clock may show at boot
          ShortTries,  \* how many of the polls are ShortDelay apart
          MaxTries,    \* the count of retries that is not exceeded
          ShortDelay, LongDelay  \* seconds

ASSUME TimeAssumption == /\ MinYear \in Nat /\ ExpectedYear \in Nat /\ RealYear \in Nat
                         /\ ColdYears \subseteq Nat
                         /\ ShortTries \in Nat /\ MaxTries \in Nat
                         /\ ShortTries <= MaxTries + 1
                         /\ ShortDelay \in Nat /\ LongDelay \in Nat

VARIABLES year,     \* what the system clock shows
          pc,       \* "poll", "delay", "verify", "run" or "stopped"
          retry,
          waited,   \* history: seconds spent in vTaskDelay
          answered  \* history: has SNTP set the clock

vars == <<year, pc, retry, waited, answered>>

Init == /\ year \in ColdYears
        /\ pc = "poll"
        /\ retry = 0
        /\ waited = 0
        /\ answered = FALSE

\* SNTP, in a task of its own, sets the clock.
Answer == /\ year' = RealYear
          /\ answered' = TRUE
          /\ UNCHANGED <<pc, retry, waited>>

Plausible == year >= MinYear

\* One look at the clock.
Poll == /\ pc = "poll"
        /\ pc' = IF Plausible THEN "verify" ELSE "delay"
        /\ UNCHANGED <<year, retry, waited, answered>>

DelayOf(n) == IF n < ShortTries THEN ShortDelay ELSE LongDelay

\* Mutant: the limit is tested one too late.
DelayOneMore ==
    /\ pc = "delay"
    /\ waited' = waited + DelayOf(retry)
    /\ retry' = retry + 1
    /\ pc' = IF retry' > MaxTries + 1 THEN "stopped" ELSE "poll"
    /\ UNCHANGED <<year, answered>>

\* Mutant: the count is not advanced.
DelayUncounted ==
    /\ pc = "delay"
    /\ waited' = waited
    /\ retry' = retry
    /\ pc' = IF retry' > MaxTries THEN "stopped" ELSE "poll"
    /\ UNCHANGED <<year, answered>>

\* The wait, the count and the limit: after the last wait the clock is not
\* looked at again.
Delay == /\ pc = "delay"
         /\ waited' = waited + DelayOf(retry)
         /\ retry' = retry + 1
         /\ pc' = IF retry' > MaxTries THEN "stopped" ELSE "poll"
         /\ UNCHANGED <<year, answered>>

\* Mutant: a clock that passed the first test is not tested again.
VerifySkipped ==
    /\ pc = "verify"
    /\ pc' = "run"
    /\ UNCHANGED <<year, retry, waited, answered>>

\* verify_system_time; gettimeofday does not fail here.
Verify == /\ pc = "verify"
          /\ pc' = IF year < ExpectedYear THEN "stopped" ELSE "run"
          /\ UNCHANGED <<year, retry, waited, answered>>

Next == Answer \/ Poll \/ Delay \/ Verify

Spec == Init /\ [][Next]_vars

-----------------------------------------------------------------------------

\* The time the whole wait may take.
Budget == ShortTries * ShortDelay + (MaxTries + 1 - ShortTries) * LongDelay

\* The waiting time of a given number of rounds.
Elapsed(n) == IF n <= ShortTries
              THEN n * ShortDelay
              ELSE ShortTries * ShortDelay + (n - ShortTries) * LongDelay

\* Every variable has its type.
TypeOK == /\ year \in Nat
          /\ pc \in {"poll", "delay", "verify", "run", "stopped"}
          /\ retry \in 0 .. MaxTries + 1
          /\ waited \in Nat
          /\ answered \in BOOLEAN

\* A boot without an answer is held up for the budget and no longer, and it
\* is given up only when the budget has been used up or verify rejects.
GivesUpOnBudget ==
    /\ waited = Elapsed(retry)
    /\ waited <= Budget
    /\ pc = "stopped" => waited = Budget \/ MinYear <= year

\* The assistant goes on to its microphone only with a clock that shows at
\* least the expected year: one whose certificates it can judge.
RunsOnTime == pc = "run" => year >= ExpectedYear
=============================================================================

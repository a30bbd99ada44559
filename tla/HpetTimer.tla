----------------------------- MODULE HpetTimer -----------------------------
(***************************************************************************)
(* The HPET: its main counter and its timers, and the calls of             *)
(* src/src/acpi/hpet/hpet.c and timer.c that program them.                 *)
(*                                                                         *)
(* The processor and the counter run side by side.  A call is one step,    *)
(* except HTimer_set_one_shot, which is three: it writes the configuration *)
(* register of the timer, reads the counter, and writes the comparator.    *)
(* What the device does (Tick, and what a write of the comparator means)   *)
(* is external: it is taken from the HPET specification the source cites.  *)
(***************************************************************************)
EXTENDS Naturals

CONSTANTS Timers,              \* the timers of the device
          PeriodicTimers,      \* those with the periodic mode (tn_per_int_cap)
          FirstComparators,    \* what their comparators may hold at boot
          NanosecondsPerMs,    \* (1000000)
          NANOSECONDS_PER_TICK, \* what timer.h supposes of the counter (100)
          TickNs,              \* the counter's true period, in nanoseconds
          Requests,            \* the :ms_time callers ask for
          MaxLag,              \* ticks that may pass between two steps of a call
          Horizon              \* bound: the counter stops there, far from 2^64

ASSUME HpetAssumption ==
  /\ PeriodicTimers \subseteq Timers
  /\ NanosecondsPerMs \in Nat \ {0}
  /\ NANOSECONDS_PER_TICK \in Nat \ {0} /\ TickNs \in Nat \ {0}
  /\ Requests \subseteq Nat /\ MaxLag \in Nat /\ Horizon \in Nat
  /\ FirstComparators \subseteq 0 .. Horizon + 1

TIMER_PERIODIC_TYPE == 0
TIMER_ONE_SHOT_TYPE == 1

Never == Horizon + 1           \* a value the counter does not reach

VARIABLES enable_cnf, counter, \* HPET_CONFIG_REG, HPET_COUNTER_REG
          timer,               \* the registers of each timer
          pc, timer_n, ms_time, now, lag,  \* the call of the processor
          shot                 \* history: the last request of each timer, and whether
                               \* the interrupt of an earlier one is still due

device == <<enable_cnf, counter, timer>>
call == <<pc, timer_n, ms_time, now, lag>>
vars == <<device, call, shot>>

TimerRegs ==
  [tn_int_enb_cnf : BOOLEAN, periodic : BOOLEAN, compar : 0 .. Never, period : 0 .. Never]

(* A value of a 64-bit register, which is as good as Never beyond Horizon. *)
Reg(v) == IF v > Horizon THEN Never ELSE v

(* The ticks HTimer_set_one_shot waits for. *)
Ticks(ms) == (ms * NanosecondsPerMs) \div NANOSECONDS_PER_TICK

-----------------------------------------------------------------------------
(* The firmware may have used the device; its interrupts are masked. *)
Init ==
  /\ enable_cnf \in BOOLEAN
  /\ counter = 0
  /\ timer \in [Timers -> {[tn_int_enb_cnf |-> FALSE, periodic |-> FALSE,
                            compar |-> c, period |-> 0] : c \in FirstComparators}]
  /\ pc = "boot" /\ timer_n \in Timers /\ ms_time = 0 /\ now = 0 /\ lag = 0
  /\ shot = [t \in Timers |->
               [asked |-> FALSE, earlier |-> FALSE, from |-> 0, ms |-> 0, fires |-> 0, first |-> 0]]

HPET_enable_counter ==
  /\ pc = "idle"
  /\ enable_cnf' = TRUE
  /\ UNCHANGED <<counter, timer, call, shot>>

HPET_disable_counter ==
  /\ pc = "idle"
  /\ enable_cnf' = FALSE
  /\ UNCHANGED <<counter, timer, call, shot>>

(* HPET_init enables the counter; the timers are used only afterwards. *)
HPET_init ==
  /\ pc = "boot"
  /\ pc' = "idle"
  /\ enable_cnf' = TRUE
  /\ UNCHANGED <<counter, timer, timer_n, ms_time, now, lag, shot>>

(* Mutant: the time is converted to ticks twice. *)
SetOneShot_ConvertsTwice(t, ms) ==
  /\ pc = "idle"
  /\ counter + 2 * MaxLag + Ticks(ms) <= Horizon
  /\ pc' = "config" /\ timer_n' = t /\ ms_time' = Ticks(ms) /\ lag' = 0
  /\ shot' = [shot EXCEPT ![t] =
                [asked |-> TRUE, earlier |-> @.asked /\ @.fires = 0,
                 from |-> counter, ms |-> ms, fires |-> 0, first |-> 0]]
  /\ UNCHANGED <<device, now>>

(* A call of HTimer_set_one_shot.  Bound: its interrupt lies before Horizon. *)
SetOneShot(t, ms) ==
  /\ pc = "idle"
  /\ counter + 2 * MaxLag + Ticks(ms) <= Horizon
  /\ pc' = "config" /\ timer_n' = t /\ ms_time' = ms /\ lag' = 0
  /\ shot' = [shot EXCEPT ![t] =
                [asked |-> TRUE, earlier |-> @.asked /\ @.fires = 0,
                 from |-> counter, ms |-> ms, fires |-> 0, first |-> 0]]
  /\ UNCHANGED <<device, now>>

(* Mutant: the interrupt of the timer stays masked. *)
Config_Masked == [tn_int_enb_cnf |-> FALSE, type |-> TIMER_ONE_SHOT_TYPE]

(* The register HTimer_set_one_shot writes: bit 3 is its constant. *)
Config == [tn_int_enb_cnf |-> TRUE, type |-> TIMER_ONE_SHOT_TYPE]

(* HTimer_set_config.  In hardware bit 3 selects the periodic mode, and stays *)
(* clear in a timer without that mode.                                        *)
WriteConfig ==
  /\ pc = "config"
  /\ timer' = [timer EXCEPT ![timer_n].tn_int_enb_cnf = Config.tn_int_enb_cnf,
                            ![timer_n].periodic = Config.type = 1 /\ timer_n \in PeriodicTimers]
  /\ pc' = "counter" /\ lag' = 0
  /\ UNCHANGED <<enable_cnf, counter, timer_n, ms_time, now, shot>>

(* Mutant: the comparator is computed from the counter of an earlier call. *)
ReadCounter_Stale ==
  /\ pc = "counter"
  /\ pc' = "compar" /\ lag' = 0
  /\ UNCHANGED <<device, timer_n, ms_time, now, shot>>

(* HPET_get_main_counter. *)
ReadCounter ==
  /\ pc = "counter"
  /\ now' = counter
  /\ pc' = "compar" /\ lag' = 0
  /\ UNCHANGED <<device, timer_n, ms_time, shot>>

(* A write of the comparator.  In the one-shot mode it sets the comparator; in *)
(* the periodic mode, tn_val_set_cnf being clear, it sets the period, and      *)
(* devices differ in whether it sets the comparator too.                       *)
Written(regs, v) ==
  IF regs.periodic
    THEN {[regs EXCEPT !.period = v], [regs EXCEPT !.period = v, !.compar = v]}
    ELSE {[regs EXCEPT !.compar = v]}

(* Mutant: the call starts again when it should return. *)
WriteCompar_Retry ==
  /\ pc = "compar"
  /\ \E regs \in Written(timer[timer_n], Reg(now + Ticks(ms_time))) :
       timer' = [timer EXCEPT ![timer_n] = regs]
  /\ pc' \in {"idle", "counter"} /\ lag' = 0
  /\ shot' = [shot EXCEPT ![timer_n].earlier = FALSE]
  /\ UNCHANGED <<enable_cnf, counter, timer_n, ms_time, now>>

(* HTimer_set_compar; HTimer_set_one_shot returns. *)
WriteCompar ==
  /\ pc = "compar"
  /\ \E regs \in Written(timer[timer_n], Reg(now + Ticks(ms_time))) :
       timer' = [timer EXCEPT ![timer_n] = regs]
  /\ pc' = "idle" /\ lag' = 0
  /\ shot' = [shot EXCEPT ![timer_n].earlier = FALSE]
  /\ UNCHANGED <<enable_cnf, counter, timer_n, ms_time, now>>

(* The timers that match when the counter becomes :c. *)
Matching(c) == {t \in Timers : timer[t].compar = c}

(* An interrupt of a timer, at count c; those after the second are not counted. *)
Interrupted(s, c) ==
  CASE s.earlier   -> [s EXCEPT !.earlier = FALSE]
    [] ~ s.earlier /\ s.fires = 0 -> [s EXCEPT !.fires = 1, !.first = c]
    [] OTHER       -> [s EXCEPT !.fires = 2]

(* The counter advances, and a timer whose comparator it reaches raises its   *)
(* interrupt.  A processor in the middle of a call takes its next step before *)
(* MaxLag ticks have passed.                                                  *)
Tick ==
  /\ enable_cnf /\ counter < Horizon
  /\ pc \in {"boot", "idle"} \/ lag < MaxLag
  /\ counter' = counter + 1
  /\ timer' = [t \in Timers |->
       IF t \in Matching(counter') /\ timer[t].periodic
         THEN [timer[t] EXCEPT !.compar = Reg(@ + timer[t].period)]
         ELSE timer[t]]
  /\ shot' = [t \in Timers |->
       IF t \in Matching(counter') /\ timer[t].tn_int_enb_cnf
         THEN Interrupted(shot[t], counter')
         ELSE shot[t]]
  /\ lag' = IF pc \in {"boot", "idle"} THEN 0 ELSE lag + 1
  /\ UNCHANGED <<enable_cnf, pc, timer_n, ms_time, now>>

CallStep == WriteConfig \/ ReadCounter \/ WriteCompar

Next ==
  \/ HPET_init \/ HPET_enable_counter \/ HPET_disable_counter
  \/ \E t \in Timers, ms \in Requests : SetOneShot(t, ms)
  \/ CallStep
  \/ Tick

Spec == Init /\ [][Next]_vars

(* An enabled counter counts by itself, and nothing preempts a call. *)
FairSpec == Spec /\ WF_vars(Tick) /\ WF_vars(CallStep)

-----------------------------------------------------------------------------
(* The registers and the call in progress are well formed. *)
TypeOK ==
  /\ enable_cnf \in BOOLEAN /\ counter \in 0 .. Horizon
  /\ timer \in [Timers -> TimerRegs]
  /\ pc \in {"boot", "idle", "config", "counter", "compar"}
  /\ timer_n \in Timers /\ ms_time \in Requests \cup {0}
  /\ now \in 0 .. counter /\ lag \in 0 .. MaxLag
  /\ shot \in [Timers -> [asked : BOOLEAN, earlier : BOOLEAN,
                            from : 0 .. counter, ms : Requests \cup {0},
                            fires : 0 .. 2, first : 0 .. counter]]

(* "It fires interrupt only once" (timer.c:39): a request is answered by one *)
(* interrupt of its timer, even if a call programs the timer while another   *)
(* interrupt of it is due.                                                   *)
FiresOnlyOnce == \A t \in Timers : shot[t].fires <= 1

(* "amount of miliseconds till interrupt" (timer.c:44): the interrupt does   *)
(* not come before the time asked for, counted from the call, has passed,    *)
(* and not later than the lag of the processor explains, unless it is that   *)
(* of a request still pending when the timer was programmed again.           *)
FiresOnTime ==
  \A t \in Timers : shot[t].fires > 0 =>
    LET elapsed == (shot[t].first - shot[t].from) * TickNs
        asked   == shot[t].ms * NanosecondsPerMs
    IN  asked <= elapsed /\ elapsed <= asked + 2 * MaxLag * TickNs

(* Every request is answered (HTimer_set_one_shot), provided that the counter *)
(* is enabled, as timer.c:40-41 demands, and the timer not programmed again.  *)
RequestsAnswered ==
  \A t \in Timers :
    shot[t].asked /\ shot[t].fires = 0 /\ pc = "idle"
      ~> shot[t].fires > 0 \/ ~ enable_cnf \/ (pc # "idle" /\ timer_n = t)
=============================================================================

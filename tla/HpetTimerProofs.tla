--------------------------- MODULE HpetTimerProofs ---------------------------
(***************************************************************************)
(* Theorems about the timers of the HPET, for any timers, requests and lag *)
(* of the processor.                                                       *)
(***************************************************************************)
EXTENDS HpetTimer, TLAPS

(* The records of the history variable while the counter is at most :c. *)
Shot(c) ==
  [asked : BOOLEAN, earlier : BOOLEAN, from : 0 .. c, ms : Requests \cup {0},
   fires : 0 .. 2, first : 0 .. c]

LEMMA RegType == \A v \in Nat : Reg(v) \in 0 .. Never
BY HpetAssumption DEF Reg, Never

LEMMA TicksType == \A ms \in Requests \cup {0} : Ticks(ms) \in Nat
<1> SUFFICES ASSUME NEW ms \in Nat PROVE Ticks(ms) \in Nat
  BY HpetAssumption
<1>1. ms * NanosecondsPerMs \in Nat
  BY HpetAssumption
<1> DEFINE x == ms * NanosecondsPerMs
<1> HIDE DEF x
<1>2. x \div NANOSECONDS_PER_TICK \in Nat
  <2>1. ASSUME NEW a \in Nat, NEW k \in Nat, k # 0 PROVE a \div k \in Nat
    BY <2>1
  <2>2. x \in Nat /\ NANOSECONDS_PER_TICK \in Nat /\ NANOSECONDS_PER_TICK # 0
    BY <1>1, HpetAssumption DEF x
  <2>3. QED
    BY <2>1, <2>2
<1>3. QED
  BY <1>2 DEF Ticks, x

LEMMA ShotGrows ==
  ASSUME NEW c \in Nat, NEW d \in Nat, c <= d, NEW s \in Shot(c)
  PROVE  s \in Shot(d)
BY DEF Shot

LEMMA InterruptedType ==
  ASSUME NEW c \in Nat, NEW s \in Shot(c)
  PROVE  Interrupted(s, c) \in Shot(c)
<1>1. CASE s.earlier
  BY <1>1 DEF Interrupted, Shot
<1>2. CASE ~ s.earlier /\ s.fires = 0
  <2>1. Interrupted(s, c) = [s EXCEPT !.fires = 1, !.first = c]
    BY <1>2 DEF Interrupted
  <2>2. [s EXCEPT !.fires = 1, !.first = c] = [[s EXCEPT !.fires = 1] EXCEPT !.first = c]
    BY DEF Shot
  <2>3. [s EXCEPT !.fires = 1] \in Shot(c)
    BY DEF Shot
  <2>4. \A r \in Shot(c) : [r EXCEPT !.first = c] \in Shot(c)
    BY DEF Shot
  <2>5. QED
    BY <2>1, <2>2, <2>3, <2>4
<1>3. CASE ~ s.earlier /\ s.fires # 0
  <2>1. Interrupted(s, c) = [s EXCEPT !.fires = 2]
    BY <1>3 DEF Interrupted, Shot
  <2>2. QED
    BY <2>1 DEF Shot
<1>4. QED
  BY <1>1, <1>2, <1>3, Zenon

-----------------------------------------------------------------------------
(* Types. *)

LEMMA TypeInit == Init => TypeOK
<1> SUFFICES ASSUME Init PROVE TypeOK
  OBVIOUS
<1>1. timer \in [Timers -> TimerRegs]
  <2>1. \A c \in FirstComparators :
          [tn_int_enb_cnf |-> FALSE, periodic |-> FALSE, compar |-> c, period |-> 0] \in TimerRegs
    BY HpetAssumption DEF TimerRegs, Never
  <2>2. {[tn_int_enb_cnf |-> FALSE, periodic |-> FALSE, compar |-> c, period |-> 0]
           : c \in FirstComparators} \subseteq TimerRegs
    BY <2>1
  <2>3. QED
    BY <2>2 DEF Init
<1>2. counter \in 0 .. Horizon /\ now \in 0 .. counter /\ lag \in 0 .. MaxLag
  BY HpetAssumption DEF Init
<1>3. shot \in [Timers -> Shot(counter)]
  <2> DEFINE new == [asked |-> FALSE, earlier |-> FALSE, from |-> 0, ms |-> 0, fires |-> 0,
                     first |-> 0]
  <2>1. new \in Shot(counter)
    BY <1>2 DEF Shot
  <2>2. shot = [t \in Timers |-> new]
    BY DEF Init
  <2> HIDE DEF new
  <2>3. QED
    BY <2>1, <2>2
<1>4. QED
  BY <1>1, <1>2, <1>3 DEF Init, TypeOK, Shot

LEMMA TypeTick == ASSUME TypeOK, Tick PROVE TypeOK'
<1>1. /\ counter \in Nat /\ counter' = counter + 1 /\ counter' \in 0 .. Horizon
      /\ now' = now /\ now' \in 0 .. counter' /\ lag' \in 0 .. MaxLag
  BY HpetAssumption DEF TypeOK, Tick
<1>2. timer' \in [Timers -> TimerRegs]
  <2> SUFFICES ASSUME NEW t \in Timers
               PROVE  [timer[t] EXCEPT !.compar = Reg(@ + timer[t].period)] \in TimerRegs
    BY DEF Tick, TypeOK
  <2>1. timer[t] \in TimerRegs
    BY DEF TypeOK
  <2>2. timer[t].compar + timer[t].period \in Nat
    BY <2>1, HpetAssumption DEF TimerRegs, Never
  <2>3. QED
    BY <2>1, <2>2, RegType DEF TimerRegs
<1>3. shot' \in [Timers -> Shot(counter')]
  <2> SUFFICES ASSUME NEW t \in Timers
               PROVE  shot[t] \in Shot(counter') /\ Interrupted(shot[t], counter') \in Shot(counter')
    BY DEF Tick
  <2>1. shot[t] \in Shot(counter)
    BY DEF TypeOK, Shot
  <2>2. counter' \in Nat /\ counter <= counter'
    BY <1>1
  <2>3. shot[t] \in Shot(counter')
    BY <1>1, <2>1, <2>2, ShotGrows
  <2>4. QED
    BY <2>2, <2>3, InterruptedType
<1>4. QED
  BY <1>1, <1>2, <1>3 DEF Tick, TypeOK, Shot

LEMMA TypeSetOneShot ==
  ASSUME TypeOK, NEW t \in Timers, NEW ms \in Requests, SetOneShot(t, ms)
  PROVE  TypeOK'
<1>1. shot' \in [Timers -> Shot(counter)]
  <2>1. shot \in [Timers -> Shot(counter)] /\ counter \in 0 .. counter /\ 0 \in 0 .. counter
    BY DEF TypeOK, Shot
  <2> DEFINE new == [asked |-> TRUE, earlier |-> shot[t].asked /\ shot[t].fires = 0,
                     from |-> counter, ms |-> ms, fires |-> 0, first |-> 0]
  <2>2. new \in Shot(counter)
    BY <2>1 DEF Shot
  <2>3. shot' = [shot EXCEPT ![t] = new]
    BY DEF SetOneShot
  <2> HIDE DEF new
  <2>4. QED
    BY <2>1, <2>2, <2>3
<1>2. QED
  BY <1>1, HpetAssumption DEF SetOneShot, TypeOK, device, Shot

LEMMA TypeWriteCompar == ASSUME TypeOK, WriteCompar PROVE TypeOK'
<1>1. Reg(now + Ticks(ms_time)) \in 0 .. Never
  <2>1. now \in Nat /\ Ticks(ms_time) \in Nat
    BY TicksType DEF TypeOK
  <2>2. QED
    BY <2>1, RegType
<1>2. \A regs \in Written(timer[timer_n], Reg(now + Ticks(ms_time))) : regs \in TimerRegs
  <2>1. timer[timer_n] \in TimerRegs
    BY DEF TypeOK
  <2>2. QED
    BY <1>1, <2>1 DEF Written, TimerRegs
<1>3. timer' \in [Timers -> TimerRegs]
  BY <1>2 DEF WriteCompar, TypeOK
<1>4. shot' \in [Timers -> Shot(counter)]
  <2>1. shot \in [Timers -> Shot(counter)]
    BY DEF TypeOK, Shot
  <2>2. [shot[timer_n] EXCEPT !.earlier = FALSE] \in Shot(counter)
    BY <2>1 DEF TypeOK, Shot
  <2>3. QED
    BY <2>1, <2>2 DEF WriteCompar
<1>5. QED
  BY <1>3, <1>4, HpetAssumption DEF WriteCompar, TypeOK, Shot

LEMMA TypeNext == TypeOK /\ [Next]_vars => TypeOK'
<1> SUFFICES ASSUME TypeOK, [Next]_vars PROVE TypeOK'
  OBVIOUS
<1>1. CASE HPET_init \/ HPET_enable_counter \/ HPET_disable_counter
  BY <1>1 DEF HPET_init, HPET_enable_counter, HPET_disable_counter, TypeOK, call
<1>2. CASE \E t \in Timers, ms \in Requests : SetOneShot(t, ms)
  BY <1>2, TypeSetOneShot
<1>3. CASE WriteConfig
  <2>1. timer' \in [Timers -> TimerRegs]
    <3>1. timer \in [Timers -> TimerRegs] /\ timer_n \in Timers
      BY DEF TypeOK
    <3>2. \A r \in TimerRegs, b \in BOOLEAN :
            [[r EXCEPT !.tn_int_enb_cnf = TRUE] EXCEPT !.periodic = b] \in TimerRegs
      BY DEF TimerRegs
    <3> DEFINE b == Config.type = 1 /\ timer_n \in PeriodicTimers
               r == [[timer[timer_n] EXCEPT !.tn_int_enb_cnf = TRUE] EXCEPT !.periodic = b]
    <3>3. timer' = [timer EXCEPT ![timer_n] = r]
      BY <1>3, <3>1 DEF WriteConfig, Config
    <3>4. r \in TimerRegs
      BY <3>1, <3>2
    <3> HIDE DEF r
    <3>5. QED
      BY <3>1, <3>3, <3>4
  <2>2. QED
    BY <1>3, <2>1, HpetAssumption DEF WriteConfig, TypeOK
<1>4. CASE ReadCounter
  BY <1>4, HpetAssumption DEF ReadCounter, TypeOK, device
<1>5. CASE WriteCompar
  BY <1>5, TypeWriteCompar
<1>6. CASE Tick
  BY <1>6, TypeTick
<1>7. CASE UNCHANGED vars
  BY <1>7 DEF vars, device, call, TypeOK
<1>8. QED
  BY <1>1, <1>2, <1>3, <1>4, <1>5, <1>6, <1>7 DEF Next, CallStep

(* The registers and the call in progress stay well formed, on any device. *)
THEOREM TypeCorrect == Spec => []TypeOK
BY TypeInit, TypeNext, PTL DEF Spec

-----------------------------------------------------------------------------
(***************************************************************************)
(* The devices for which the one-shot type of the code is right: no timer  *)
(* has the periodic mode, no comparator was left set, and the period of    *)
(* the counter is the one timer.h supposes, a whole fraction of a          *)
(* millisecond.                                                            *)
(***************************************************************************)
OneShotDevice ==
  /\ PeriodicTimers = {}
  /\ FirstComparators = {Never}
  /\ TickNs = NANOSECONDS_PER_TICK
  /\ \E q \in Nat : NanosecondsPerMs = q * NANOSECONDS_PER_TICK

InCall(t) == pc \in {"config", "counter", "compar"} /\ timer_n = t

(* While a call programs a timer, only the interrupt of an earlier request can *)
(* be due; after it, the comparator says when the request is answered.         *)
ShotInv(t) ==
  /\ ~ timer[t].periodic
  /\ shot[t].fires <= 1
  /\ ~ shot[t].asked => timer[t].compar = Never /\ shot[t].fires = 0
  /\ shot[t].asked => shot[t].from + 2 * MaxLag + Ticks(shot[t].ms) <= Horizon
  /\ InCall(t) =>
       /\ shot[t].asked /\ shot[t].fires = 0 /\ ms_time = shot[t].ms
       /\ shot[t].earlier \/ timer[t].compar <= counter \/ timer[t].compar = Never
  /\ ~ InCall(t) => ~ shot[t].earlier
  /\ ~ InCall(t) /\ shot[t].asked =>
       /\ shot[t].from + Ticks(shot[t].ms) <= timer[t].compar
       /\ timer[t].compar <= shot[t].from + 2 * MaxLag + Ticks(shot[t].ms)
       /\ shot[t].fires = 1 => timer[t].compar <= counter /\ shot[t].first = timer[t].compar

(* How far the counter has come since the call began. *)
LagInv ==
  /\ pc = "config" => counter <= shot[timer_n].from + lag
  /\ pc = "counter" => counter <= shot[timer_n].from + MaxLag + lag
  /\ pc = "compar" => shot[timer_n].from <= now /\ now <= shot[timer_n].from + 2 * MaxLag

IInv == TypeOK /\ LagInv /\ \A t \in Timers : ShotInv(t)

(* The types of what a timer's invariant mentions. *)
LEMMA Types ==
  ASSUME TypeOK, NEW t \in Timers
  PROVE  /\ counter \in Nat /\ counter <= Horizon /\ lag \in Nat /\ lag <= MaxLag
         /\ now \in Nat /\ now <= counter
         /\ Horizon \in Nat /\ MaxLag \in Nat /\ Never = Horizon + 1
         /\ timer[t].compar \in Nat /\ timer[t] \in TimerRegs
         /\ shot[t].from \in Nat /\ shot[t].from <= counter
         /\ shot[t].fires \in {0, 1, 2} /\ shot[t].first \in Nat
         /\ shot[t].asked \in BOOLEAN /\ shot[t].earlier \in BOOLEAN
         /\ Ticks(shot[t].ms) \in Nat /\ shot[t].ms \in Nat
<1>1. timer[t] \in TimerRegs /\ shot[t] \in Shot(counter)
  BY DEF TypeOK, Shot
<1>2. timer[t].compar \in Nat
  BY <1>1, HpetAssumption DEF TimerRegs, Never
<1>3. shot[t].ms \in Nat /\ shot[t].ms \in Requests \cup {0}
  <2>1. shot[t].ms \in Requests \cup {0}
    BY <1>1 DEF Shot
  <2>2. \A ms \in Requests \cup {0} : ms \in Nat
    BY HpetAssumption
  <2>3. QED
    BY <2>1, <2>2
<1>4. QED
  BY <1>1, <1>2, <1>3, TicksType, HpetAssumption DEF TypeOK, Shot, Never

LEMMA IInvInit == OneShotDevice /\ Init => IInv
<1> SUFFICES ASSUME OneShotDevice, Init PROVE IInv
  OBVIOUS
<1>1. pc = "boot" /\ counter = 0
  BY DEF Init
<1>2. ASSUME NEW t \in Timers PROVE ShotInv(t)
  <2>1. timer[t].compar = Never /\ ~ timer[t].periodic
    BY DEF Init, OneShotDevice
  <2>2. /\ ~ shot[t].asked /\ ~ shot[t].earlier /\ shot[t].fires = 0
    BY DEF Init
  <2>3. QED
    BY <1>1, <2>1, <2>2 DEF ShotInv, InCall
<1>3. QED
  BY <1>1, <1>2, TypeInit DEF IInv, LagInv

(* A step that leaves the timer, its history and its call alone. *)
LEMMA KeepsShot ==
  ASSUME NEW t \in Timers, ShotInv(t), timer'[t] = timer[t], shot'[t] = shot[t],
         InCall(t)' <=> InCall(t), counter' = counter, InCall(t) => ms_time' = ms_time
  PROVE  ShotInv(t)'
BY DEF ShotInv

LEMMA IInvSetOneShot ==
  ASSUME IInv, NEW t \in Timers, NEW ms \in Requests, SetOneShot(t, ms)
  PROVE  IInv'
<1> DEFINE new == [asked |-> TRUE, earlier |-> shot[t].asked /\ shot[t].fires = 0,
                   from |-> counter, ms |-> ms, fires |-> 0, first |-> 0]
<1>1. /\ pc = "idle" /\ pc' = "config" /\ timer_n' = t /\ ms_time' = ms /\ lag' = 0
      /\ UNCHANGED <<enable_cnf, counter, timer, now>>
      /\ counter + 2 * MaxLag + Ticks(ms) <= Horizon
  BY DEF SetOneShot, device
<1>2. shot' = [shot EXCEPT ![t] = new] /\ shot \in [Timers -> Shot(counter)]
  BY DEF SetOneShot, IInv, TypeOK, Shot
<1>3. shot'[t] = new /\ \A u \in Timers : u # t => shot'[u] = shot[u]
  <2> HIDE DEF new
  <2> QED BY <1>2
<1>4. TypeOK'
  BY TypeSetOneShot DEF IInv
<1>5. LagInv'
  <2>1. counter \in Nat
    BY Types DEF IInv
  <2>2. QED
    BY <1>1, <1>3, <2>1 DEF LagInv
<1>6. ShotInv(t)'
  <2>1. InCall(t)' /\ ~ InCall(t)
    BY <1>1 DEF InCall
  <2>2. \/ shot[t].asked /\ shot[t].fires = 0
        \/ timer[t].compar <= counter \/ timer[t].compar = Never
    <3>1. shot[t].fires = 0 \/ shot[t].fires = 1
      BY Types DEF IInv, ShotInv
    <3>2. QED
      BY <2>1, <3>1 DEF IInv, ShotInv
  <2>3. /\ shot'[t].asked /\ shot'[t].fires = 0 /\ shot'[t].ms = ms /\ shot'[t].from = counter
        /\ shot[t].asked /\ shot[t].fires = 0 => shot'[t].earlier
    <3>1. /\ new.asked /\ new.fires = 0 /\ new.ms = ms /\ new.from = counter
          /\ new.earlier = (shot[t].asked /\ shot[t].fires = 0)
      OBVIOUS
    <3> HIDE DEF new
    <3>2. QED
      BY <1>3, <3>1, Zenon
  <2>4. ~ timer[t].periodic
    BY DEF IInv, ShotInv
  <2>5. QED
    BY <1>1, <2>1, <2>2, <2>3, <2>4 DEF ShotInv
<1>7. ASSUME NEW u \in Timers, u # t PROVE ShotInv(u)'
  <2>1. ~ InCall(u) /\ ~ InCall(u)'
    BY <1>1, <1>7 DEF InCall
  <2>2. QED
    BY <1>1, <1>3, <1>7, <2>1, KeepsShot DEF IInv
<1>8. QED
  BY <1>4, <1>5, <1>6, <1>7 DEF IInv

LEMMA IInvWriteConfig == ASSUME OneShotDevice, IInv, WriteConfig PROVE IInv'
<1>1. /\ pc = "config" /\ pc' = "counter" /\ lag' = 0 /\ timer_n \in Timers
      /\ UNCHANGED <<counter, timer_n, ms_time, now, shot>>
  BY DEF WriteConfig, IInv, TypeOK
<1>2. TypeOK'
  BY TypeNext DEF IInv, Next, CallStep
<1>3. LagInv'
  BY <1>1, Types DEF IInv, LagInv
<1>4. ASSUME NEW t \in Timers
      PROVE  timer'[t].compar = timer[t].compar /\ ~ timer'[t].periodic
  <2>1. timer \in [Timers -> TimerRegs] /\ timer[t] \in TimerRegs /\ ~ timer[t].periodic
    BY DEF IInv, TypeOK, ShotInv
  <2>2. timer' = [timer EXCEPT ![timer_n] =
                    [[timer[timer_n] EXCEPT !.tn_int_enb_cnf = TRUE] EXCEPT !.periodic = FALSE]]
    <3>1. ~ (Config.type = 1 /\ timer_n \in PeriodicTimers) /\ Config.tn_int_enb_cnf = TRUE
      BY DEF OneShotDevice, Config
    <3>2. QED
      BY <1>1, <2>1, <3>1 DEF WriteConfig
  <2>3. ASSUME NEW r \in TimerRegs
        PROVE  LET w == [[r EXCEPT !.tn_int_enb_cnf = TRUE] EXCEPT !.periodic = FALSE]
               IN  w.compar = r.compar /\ w.periodic = FALSE
    BY DEF TimerRegs
  <2>4. CASE t = timer_n
    <3> DEFINE w == [[timer[t] EXCEPT !.tn_int_enb_cnf = TRUE] EXCEPT !.periodic = FALSE]
    <3>1. timer'[t] = w
      BY <2>1, <2>2, <2>4
    <3>2. w.compar = timer[t].compar /\ w.periodic = FALSE
      BY <2>1, <2>3
    <3> HIDE DEF w
    <3>3. QED
      BY <3>1, <3>2
  <2>5. CASE t # timer_n
    BY <2>1, <2>2, <2>5
  <2>6. QED
    BY <2>4, <2>5
<1>5. ASSUME NEW t \in Timers PROVE ShotInv(t)'
  <2>1. InCall(t)' <=> InCall(t)
    BY <1>1 DEF InCall
  <2>2. QED
    BY <1>1, <1>4, <2>1 DEF IInv, ShotInv
<1>6. QED
  BY <1>2, <1>3, <1>5 DEF IInv

LEMMA IInvReadCounter == ASSUME IInv, ReadCounter PROVE IInv'
<1>1. /\ pc = "counter" /\ pc' = "compar" /\ now' = counter /\ timer_n \in Timers
      /\ UNCHANGED <<counter, timer, timer_n, ms_time, shot>>
  BY DEF ReadCounter, device, IInv, TypeOK
<1>2. TypeOK'
  BY TypeNext DEF IInv, Next, CallStep
<1>3. LagInv'
  BY <1>1, Types DEF IInv, LagInv
<1>4. ASSUME NEW t \in Timers PROVE ShotInv(t)'
  <2>1. InCall(t)' <=> InCall(t)
    BY <1>1 DEF InCall
  <2>2. QED
    BY <1>1, <2>1, KeepsShot DEF IInv
<1>5. QED
  BY <1>2, <1>3, <1>4 DEF IInv

LEMMA IInvWriteCompar == ASSUME IInv, WriteCompar PROVE IInv'
<1> DEFINE t == timer_n
           at == now + Ticks(ms_time)
<1>1. /\ pc = "compar" /\ pc' = "idle" /\ t \in Timers
      /\ UNCHANGED <<counter, timer_n, ms_time, now>>
  BY DEF WriteCompar, IInv, TypeOK
<1>2. /\ ~ timer[t].periodic /\ shot[t].asked /\ shot[t].fires = 0 /\ ms_time = shot[t].ms
      /\ shot[t].from + 2 * MaxLag + Ticks(shot[t].ms) <= Horizon
      /\ shot[t].from <= now /\ now <= shot[t].from + 2 * MaxLag
  BY <1>1 DEF IInv, ShotInv, InCall, LagInv
<1>3. /\ shot[t].from + Ticks(ms_time) <= at
      /\ at <= shot[t].from + 2 * MaxLag + Ticks(ms_time) /\ Reg(at) = at
  BY <1>1, <1>2, Types DEF IInv, Reg
<1> HIDE DEF at
<1>4. TypeOK'
  BY TypeNext DEF IInv, Next, CallStep
<1>5. LagInv'
  BY <1>1 DEF LagInv
<1>6. /\ timer' = [timer EXCEPT ![t] = [timer[t] EXCEPT !.compar = at]]
      /\ timer \in [Timers -> TimerRegs]
  <2>1. Written(timer[t], Reg(now + Ticks(ms_time))) = {[timer[t] EXCEPT !.compar = at]}
    BY <1>2, <1>3 DEF Written, at
  <2>2. QED
    BY <2>1 DEF WriteCompar, IInv, TypeOK
<1>7. /\ timer'[t].compar = at /\ ~ timer'[t].periodic
      /\ \A u \in Timers : u # t => timer'[u] = timer[u]
  <2>1. timer'[t] = [timer[t] EXCEPT !.compar = at] /\ timer[t] \in TimerRegs
    BY <1>1, <1>6
  <2>2. QED
    BY <1>2, <1>6, <2>1 DEF TimerRegs
<1>8. /\ ~ shot'[t].earlier /\ shot'[t].asked /\ shot'[t].fires = 0
      /\ shot'[t].from = shot[t].from /\ shot'[t].ms = shot[t].ms
      /\ \A u \in Timers : u # t => shot'[u] = shot[u]
  <2>1. shot \in [Timers -> Shot(counter)] /\ shot[t] \in Shot(counter)
    BY <1>1 DEF IInv, TypeOK, Shot
  <2>2. shot' = [shot EXCEPT ![t] = [shot[t] EXCEPT !.earlier = FALSE]]
    BY <2>1 DEF WriteCompar
  <2>3. shot'[t] = [shot[t] EXCEPT !.earlier = FALSE]
    BY <1>1, <2>1, <2>2
  <2>4. QED
    BY <1>2, <2>1, <2>2, <2>3 DEF Shot
<1>9. ShotInv(t)'
  <2>1. ~ InCall(t)'
    BY <1>1 DEF InCall
  <2>2. QED
    BY <1>1, <1>2, <1>3, <1>7, <1>8, <2>1 DEF ShotInv, InCall
<1>10. ASSUME NEW u \in Timers, u # t PROVE ShotInv(u)'
  <2>1. ~ InCall(u) /\ ~ InCall(u)'
    BY <1>1, <1>10 DEF InCall
  <2>2. QED
    BY <1>1, <1>7, <1>8, <1>10, <2>1, KeepsShot DEF IInv
<1>11. QED
  BY <1>1, <1>4, <1>5, <1>9, <1>10 DEF IInv

(* When the counter reaches a comparator, the interrupt is that of an earlier *)
(* request, while a call programs the timer, or else the first one.           *)
LEMMA IInvTick == ASSUME IInv, Tick PROVE IInv'
<1>1. /\ counter' = counter + 1 /\ counter' <= Horizon /\ counter \in Nat /\ Horizon \in Nat
      /\ UNCHANGED <<pc, timer_n, ms_time, now>>
      /\ pc \in {"config", "counter", "compar"} => lag' = lag + 1
      /\ lag \in Nat /\ timer_n \in Timers
  BY HpetAssumption DEF Tick, IInv, TypeOK
<1>2. TypeOK'
  BY TypeNext DEF IInv, Next
<1>3. \A t \in Timers : timer'[t] = timer[t]
  BY DEF Tick, IInv, ShotInv
<1>4. ASSUME NEW t \in Timers
      PROVE  /\ shot'[t].from = shot[t].from /\ shot'[t].ms = shot[t].ms
             /\ shot'[t].asked = shot[t].asked /\ ShotInv(t)'
  <2>1. InCall(t)' <=> InCall(t)
    BY <1>1 DEF InCall
  <2>2. CASE shot'[t] = shot[t]
    BY <1>1, <1>3, <2>1, <2>2, Types DEF IInv, ShotInv
  <2>3. CASE shot'[t] = Interrupted(shot[t], counter') /\ timer[t].compar = counter'
    <3>1. timer[t].compar > counter /\ timer[t].compar # Never
      BY <1>1, <2>3, Types DEF IInv
    <3>2. shot[t].asked /\ shot[t].fires = 0 /\ shot[t] \in Shot(counter)
      <4>1. shot[t].asked
        BY <3>1 DEF IInv, ShotInv
      <4>2. shot[t].fires = 0
        BY <3>1, <4>1, Types DEF IInv, ShotInv
      <4>3. QED
        BY <4>1, <4>2 DEF IInv, TypeOK, Shot
    <3>3. CASE InCall(t)
      <4>1. shot[t].earlier
        BY <3>1, <3>3, Types DEF IInv, ShotInv
      <4>2. shot'[t] = [shot[t] EXCEPT !.earlier = FALSE]
        BY <2>3, <4>1 DEF Interrupted
      <4>3. /\ shot'[t].from = shot[t].from /\ shot'[t].ms = shot[t].ms
            /\ shot'[t].asked = shot[t].asked /\ shot'[t].fires = 0
        BY <3>2, <4>2 DEF Shot
      <4>4. /\ timer'[t].compar = counter' /\ ~ timer'[t].periodic /\ InCall(t)'
            /\ shot[t].from + 2 * MaxLag + Ticks(shot[t].ms) <= Horizon
            /\ ms_time' = shot[t].ms
        BY <1>1, <1>3, <2>1, <2>3, <3>2, <3>3 DEF IInv, ShotInv
      <4>5. counter' \in Nat
        BY <1>1
      <4>6. ShotInv(t)'
        BY <3>2, <4>3, <4>4, <4>5 DEF ShotInv
      <4>7. QED
        BY <4>3, <4>6
    <3>4. CASE ~ InCall(t)
      <4>1. ~ shot[t].earlier
        BY <3>4 DEF IInv, ShotInv
      <4>2. shot'[t] = [[shot[t] EXCEPT !.fires = 1] EXCEPT !.first = counter']
        <5>1. Interrupted(shot[t], counter') = [shot[t] EXCEPT !.fires = 1, !.first = counter']
          BY <3>2, <4>1 DEF Interrupted
        <5>2. QED
          BY <2>3, <3>2, <5>1 DEF Shot
      <4>3. /\ shot'[t].from = shot[t].from /\ shot'[t].ms = shot[t].ms
            /\ shot'[t].asked = shot[t].asked /\ shot'[t].earlier = shot[t].earlier
            /\ shot'[t].fires = 1 /\ shot'[t].first = counter'
        BY <3>2, <4>2 DEF Shot
      <4>4. /\ timer'[t].compar = counter' /\ ~ timer'[t].periodic /\ ~ InCall(t)'
            /\ shot[t].from + 2 * MaxLag + Ticks(shot[t].ms) <= Horizon
            /\ shot[t].from + Ticks(shot[t].ms) <= counter'
            /\ counter' <= shot[t].from + 2 * MaxLag + Ticks(shot[t].ms)
        BY <1>1, <1>3, <2>1, <2>3, <3>2, <3>4 DEF IInv, ShotInv
      <4>5. counter' \in Nat
        BY <1>1
      <4>6. ShotInv(t)'
        BY <3>2, <4>1, <4>3, <4>4, <4>5 DEF ShotInv
      <4>7. QED
        BY <4>3, <4>6
    <3>5. QED
      BY <3>3, <3>4
  <2>4. QED
    <3>1. Matching(counter') = {u \in Timers : timer[u].compar = counter'}
      BY DEF Matching
    <3>2. \/ shot'[t] = shot[t]
          \/ t \in Matching(counter') /\ shot'[t] = Interrupted(shot[t], counter')
      BY DEF Tick
    <3>3. QED
      BY <2>2, <2>3, <3>1, <3>2
<1>5. LagInv'
  BY <1>1, <1>4, Types DEF IInv, LagInv
<1>6. QED
  BY <1>2, <1>4, <1>5 DEF IInv
LEMMA IInvNext == OneShotDevice /\ IInv /\ [Next]_vars => IInv'
<1> SUFFICES ASSUME OneShotDevice, IInv, [Next]_vars PROVE IInv'
  OBVIOUS
<1>1. CASE \/ HPET_init \/ HPET_enable_counter \/ HPET_disable_counter \/ UNCHANGED vars
  <2>1. /\ UNCHANGED <<counter, timer, timer_n, ms_time, now, lag, shot>>
        /\ pc' = pc \/ (pc = "boot" /\ pc' = "idle")
    BY <1>1 DEF HPET_init, HPET_enable_counter, HPET_disable_counter, vars, device, call
  <2>2. TypeOK' /\ LagInv'
    <3>1. TypeOK'
      BY TypeNext DEF IInv
    <3>2. LagInv'
      BY <2>1 DEF IInv, LagInv
    <3>3. QED
      BY <3>1, <3>2
  <2>3. ASSUME NEW t \in Timers PROVE ShotInv(t)'
    <3>1. InCall(t)' <=> InCall(t)
      BY <2>1 DEF InCall
    <3>2. QED
      BY <2>1, <3>1, KeepsShot DEF IInv
  <2>4. QED
    BY <2>2, <2>3 DEF IInv
<1>2. CASE \E t \in Timers, ms \in Requests : SetOneShot(t, ms)
  BY <1>2, IInvSetOneShot
<1>3. CASE WriteConfig
  BY <1>3, IInvWriteConfig
<1>4. CASE ReadCounter
  BY <1>4, IInvReadCounter
<1>5. CASE WriteCompar
  BY <1>5, IInvWriteCompar
<1>6. CASE Tick
  BY <1>6, IInvTick
<1>7. QED
  BY <1>1, <1>2, <1>3, <1>4, <1>5, <1>6 DEF Next, CallStep

LEMMA IInvAlways == ASSUME OneShotDevice PROVE Spec => []IInv
<1>1. Init => IInv
  BY IInvInit
<1>2. IInv /\ [Next]_vars => IInv'
  BY IInvNext
<1>3. QED
  BY <1>1, <1>2, PTL DEF Spec

-----------------------------------------------------------------------------
(* On such a device a request is answered at most once, however the calls and *)
(* the counter interleave.                                                    *)
THEOREM AnsweredOnce == ASSUME OneShotDevice PROVE Spec => []FiresOnlyOnce
<1>1. IInv => FiresOnlyOnce
  BY DEF IInv, ShotInv, FiresOnlyOnce
<1>2. QED
  BY <1>1, IInvAlways, PTL

(* The ticks of a time are exactly that time. *)
LEMMA TicksExact ==
  ASSUME OneShotDevice, NEW ms \in Nat
  PROVE  Ticks(ms) * TickNs = ms * NanosecondsPerMs
<1> DEFINE n == NANOSECONDS_PER_TICK
<1>1. n \in Nat /\ n # 0
  BY HpetAssumption
<1>2. PICK q \in Nat : NanosecondsPerMs = q * n
  BY DEF OneShotDevice
<1>3. ASSUME NEW k \in Nat, NEW a \in Nat, k # 0 PROVE (a * k) \div k = a
  BY <1>3
<1>4. ms * NanosecondsPerMs = (ms * q) * n /\ ms * q \in Nat
  BY <1>1, <1>2
<1>5. Ticks(ms) = ms * q
  BY <1>1, <1>3, <1>4 DEF Ticks
<1>6. QED
  BY <1>4, <1>5 DEF OneShotDevice

LEMMA OnTime == OneShotDevice /\ IInv => FiresOnTime
<1> SUFFICES ASSUME OneShotDevice, IInv, NEW t \in Timers, shot[t].fires > 0
             PROVE  LET elapsed == (shot[t].first - shot[t].from) * TickNs
                        asked   == shot[t].ms * NanosecondsPerMs
                    IN  asked <= elapsed /\ elapsed <= asked + 2 * MaxLag * TickNs
  BY DEF FiresOnTime
<1> DEFINE d == shot[t].first - shot[t].from
           k == Ticks(shot[t].ms)
<1>1. /\ k \in Nat /\ shot[t].first \in Nat /\ shot[t].from \in Nat /\ MaxLag \in Nat
      /\ shot[t].ms \in Nat /\ TickNs \in Nat
  BY Types, HpetAssumption DEF IInv
<1>2. k <= d /\ d <= k + 2 * MaxLag /\ d \in Nat
  <2>1. shot[t].fires = 1 /\ shot[t].asked /\ ~ InCall(t)
    BY Types DEF IInv, ShotInv
  <2>2. /\ shot[t].from + k <= shot[t].first
        /\ shot[t].first <= shot[t].from + 2 * MaxLag + k
    BY <2>1 DEF IInv, ShotInv
  <2>3. QED
    BY <1>1, <2>2
<1>3. k * TickNs = shot[t].ms * NanosecondsPerMs
  BY <1>1, TicksExact
<1>4. \A a, b, n \in Nat : a <= b => a * n <= b * n
  OBVIOUS
<1>5. (k + 2 * MaxLag) * TickNs = k * TickNs + 2 * MaxLag * TickNs
  <2> HIDE DEF k
  <2>1. \A a, b, n \in Nat : (a + 2 * b) * n = a * n + 2 * b * n
    OBVIOUS
  <2>2. QED
    BY <1>1, <2>1
<1>6. k * TickNs <= d * TickNs /\ d * TickNs <= (k + 2 * MaxLag) * TickNs
  <2> HIDE DEF k, d
  <2>1. k + 2 * MaxLag \in Nat
    BY <1>1
  <2>2. QED
    BY <1>1, <1>2, <1>4, <2>1
<1>7. QED
  <2> HIDE DEF k
  <2> QED BY <1>3, <1>5, <1>6

(* And the answer comes when it was asked for, late by at most the time the *)
(* processor took for the call.                                             *)
THEOREM AnsweredOnTime == ASSUME OneShotDevice PROVE Spec => []FiresOnTime
<1>1. IInv => FiresOnTime
  BY OnTime
<1>2. QED
  BY <1>1, IInvAlways, PTL
=============================================================================

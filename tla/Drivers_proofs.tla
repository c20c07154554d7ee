---------------------------- MODULE Drivers_proofs ----------------------------
(***************************************************************************)
(* Proofs about the services under the demonstrations: no sleep is cut     *)
(* short, the time of day is right, file descriptors are kept and not      *)
(* leaked, what a flush of the data cache names reaches memory, every      *)
(* alarm is called at its tick, and in the run of all the drivers the      *)
(* variables keep to their types.                                          *)
(***************************************************************************)
EXTENDS MC_Drivers, I2cBus_proofs, EpcsFlash_proofs, FiniteSetTheorems, SequenceTheorems,
        TLAPS
-----------------------------------------------------------------------------
(* The busy sleep, for every argument, width of a word and speed.          *)

(* What has been slept so far is paid for, and the big loops still to do   *)
(* leave less than one.                                                    *)
SleepInv ==
    /\ sleepAsked \in 0..(SleepWord - 1) /\ us \in Nat /\ turns \in Nat /\ big \in Int
    /\ big >= 0 => /\ us <= sleepAsked /\ turns >= (sleepAsked - us) * TurnsPerUs
                   /\ us - big * BigLoopUs \in 0..(BigLoopUs - 1)
    /\ SleepsEnough

(* A product is bounded where its factor is, and distributes.              *)
LEMMA Products ==
    ASSUME NEW a \in Int, NEW b \in Int, NEW t \in Nat
    PROVE  /\ a * t \in Int /\ (a - b) * t = a * t - b * t /\ (a + b) * t = a * t + b * t
           /\ a <= b => a * t <= b * t
           /\ a >= 0 => a * t >= 0
OBVIOUS

(* The turns of a big loop last as long as the microseconds it stands for, *)
(* and what is less than a big loop is less than a word of turns.          *)
LEMMA SleepSizes ==
    /\ SleepWord \in Nat /\ IntMax \in Nat /\ IntMax >= 1 /\ SleepWord >= 2 * IntMax + 2
    /\ TurnsPerUs \in Nat /\ TurnsPerUs >= 1
    /\ BigLoopUs \in Nat /\ BigLoopUs >= 1 /\ BigLoopUs * TurnsPerUs <= IntMax
<1>1. SleepWord \in Nat /\ IntMax \in Int /\ SleepWord >= 2 * IntMax + 2
    BY SleepAssumption DEF IntMax
<1>2. TurnsPerUs \in Nat /\ TurnsPerUs >= 1 /\ TurnsPerUs <= IntMax /\ IntMax \in Nat
    BY <1>1, SleepAssumption
<1>3. \A m \in Nat, t \in Nat : 1 <= t /\ t <= m =>
         m \div t \in Nat /\ m \div t >= 1 /\ (m \div t) * t <= m
    OBVIOUS
<1> QED
    BY <1>1, <1>2, <1>3 DEF BigLoopUs

(* The start.                                                              *)
LEMMA SleepInitInv == SleepInit => SleepInv
<1> SUFFICES ASSUME SleepInit PROVE SleepInv
    OBVIOUS
<1>1. \A a \in Nat, b \in Nat : b >= 1 =>
         a \div b \in Nat /\ a - (a \div b) * b \in 0..(b - 1)
    OBVIOUS
<1>2. sleepAsked \in 0..(SleepWord - 1) /\ us = sleepAsked /\ turns = 0
      /\ big = sleepAsked \div BigLoopUs
    BY DEF SleepInit
<1>3. sleepAsked \in Nat
    BY <1>2, SleepSizes
<1>4. big \in Nat /\ us - big * BigLoopUs \in 0..(BigLoopUs - 1)
    BY <1>1, <1>2, <1>3, SleepSizes
<1>5. (sleepAsked - us) * TurnsPerUs = 0
    BY <1>2, <1>3, SleepSizes
<1> QED
    BY <1>2, <1>3, <1>4, <1>5 DEF SleepInv, SleepsEnough

(* Each loop.                                                              *)
LEMMA SleepStepInv == SleepInv /\ [SleepNext]_sleepVars => SleepInv'
<1> SUFFICES ASSUME SleepInv, [SleepNext]_sleepVars PROVE SleepInv'
    OBVIOUS
<1>0. /\ sleepAsked \in Nat /\ sleepAsked < SleepWord /\ us \in Nat /\ turns \in Nat /\ big \in Int
      /\ sleepAsked \in 0..(SleepWord - 1)
    BY SleepSizes DEF SleepInv
<1>1. CASE BigLoop
  <2>1. /\ big > 0 /\ big' = big - 1 /\ us' = us - BigLoopUs /\ sleepAsked' = sleepAsked
        /\ us <= sleepAsked /\ turns >= (sleepAsked - us) * TurnsPerUs
        /\ us - big * BigLoopUs \in 0..(BigLoopUs - 1)
      BY <1>0, <1>1 DEF BigLoop, SleepInv
  <2>2. PICK n \in BigLoopEntry : turns' = turns + UntilZero(n)
      BY <1>1 DEF BigLoop
  <2>3. UntilZero(n) \in Nat /\ UntilZero(n) >= IntMax
      BY SleepSizes DEF BigLoopEntry, UntilZero
  <2>4. turns' \in Nat /\ turns' >= turns + BigLoopUs * TurnsPerUs
    <3>1. BigLoopUs * TurnsPerUs \in Int
        BY SleepSizes, Products
    <3> QED
        BY <1>0, <2>2, <2>3, <3>1, SleepSizes
  <2>5. us' - big' * BigLoopUs = us - big * BigLoopUs /\ us >= big * BigLoopUs
        /\ big * BigLoopUs >= BigLoopUs
    <3>1. big * BigLoopUs \in Int /\ (big - 1) * BigLoopUs = big * BigLoopUs - 1 * BigLoopUs
          /\ 1 * BigLoopUs <= big * BigLoopUs /\ 1 * BigLoopUs = BigLoopUs
        BY <1>0, <2>1, SleepSizes, Products
    <3> QED
        BY <1>0, <2>1, <3>1, SleepSizes
  <2>6. us' \in Nat /\ us' <= sleepAsked
    <3>1. big * BigLoopUs \in Int
        BY <1>0, SleepSizes, Products
    <3> QED
        BY <1>0, <2>1, <2>5, <3>1, SleepSizes
  <2>7. (sleepAsked - us') * TurnsPerUs = (sleepAsked - us) * TurnsPerUs + BigLoopUs * TurnsPerUs
    <3>1. sleepAsked - us' = (sleepAsked - us) + BigLoopUs /\ sleepAsked - us \in Int
        BY <1>0, <2>1, SleepSizes
    <3> QED
        BY <3>1, SleepSizes, Products
  <2>8. turns' >= (sleepAsked - us') * TurnsPerUs
    <3>1. (sleepAsked - us) * TurnsPerUs \in Int /\ BigLoopUs * TurnsPerUs \in Int
        BY <1>0, SleepSizes, Products
    <3> QED
        BY <1>0, <2>1, <2>4, <2>7, <3>1
  <2>9. big' \in Int /\ big' # -1 /\ BigLoopUs' = BigLoopUs
      BY <1>0, <2>1 DEF BigLoopUs, IntMax
  <2> QED
      BY <1>0, <2>1, <2>4, <2>5, <2>6, <2>8, <2>9 DEF SleepInv, SleepsEnough
<1>2. CASE LastLoop
  <2>1. /\ big = 0 /\ big' = -1 /\ sleepAsked' = sleepAsked /\ us' = us
        /\ turns' = turns + IF long THEN UntilZero(Rest) ELSE WhilePositive(Rest)
        /\ us <= sleepAsked /\ turns >= (sleepAsked - us) * TurnsPerUs
        /\ us - big * BigLoopUs \in 0..(BigLoopUs - 1)
      BY <1>2 DEF LastLoop, SleepInv
  <2>2. us < BigLoopUs
      BY <1>0, <2>1, SleepSizes
  <2>3. Rest = us * TurnsPerUs /\ Rest \in 0..IntMax
    <3>1. us * TurnsPerUs \in Int /\ us * TurnsPerUs >= 0
          /\ us * TurnsPerUs <= BigLoopUs * TurnsPerUs /\ BigLoopUs * TurnsPerUs \in Int
        BY <1>0, <2>2, SleepSizes, Products
    <3>2. us * TurnsPerUs \in 0..IntMax /\ us * TurnsPerUs < SleepWord
        BY <3>1, SleepSizes
    <3>3. \A x \in Nat, w \in Nat : x < w => x % w = x
        OBVIOUS
    <3> QED
        BY <3>2, <3>3, SleepSizes DEF Rest
  <2>4. turns' \in Nat /\ turns' >= turns + Rest
      BY <1>0, <2>1, <2>3, SleepSizes DEF UntilZero, WhilePositive
  <2>5. sleepAsked * TurnsPerUs = (sleepAsked - us) * TurnsPerUs + us * TurnsPerUs
        /\ (sleepAsked - us) * TurnsPerUs \in Int /\ us * TurnsPerUs \in Int
        /\ sleepAsked * TurnsPerUs \in Int
    <3>1. sleepAsked - us \in Int /\ (sleepAsked - us) + us = sleepAsked
        BY <1>0
    <3> QED
        BY <1>0, <3>1, SleepSizes, Products
  <2>6. turns' >= sleepAsked * TurnsPerUs
      BY <1>0, <2>1, <2>3, <2>4, <2>5
  <2> QED
      BY <1>0, <2>1, <2>4, <2>6 DEF SleepInv, SleepsEnough
<1>3. CASE Returned \/ UNCHANGED sleepVars
  <2>1. BigLoopUs' = BigLoopUs
      BY DEF BigLoopUs, IntMax
  <2> QED
      BY <1>3, <2>1 DEF Returned, sleepVars, SleepInv, SleepsEnough
<1> QED
    BY <1>1, <1>2, <1>3 DEF SleepNext

(* No sleep is cut short: not by the split into loops, the loops that are  *)
(* entered with zero or the product that could overflow.                   *)
THEOREM SleepsEnoughAlways == SleepSpec => []SleepsEnough
<1>1. SleepInv => SleepsEnough
    BY DEF SleepInv
<1> QED
    BY <1>1, SleepInitInv, SleepStepInv, PTL DEF SleepSpec
-----------------------------------------------------------------------------
(* The time of day, for every tick rate and every time that is set, until  *)
(* the microseconds of the ticks fill a word.                              *)

(* What was asked for and when, and the offset kept in its place: they     *)
(* agree unless a settimeofday has read the counter and not yet stored.    *)
TimeInv ==
    /\ timeTicks \in 0..MaxTicks /\ timeAsked.micros \in Nat
    /\ timeAsked.when \in Nat /\ timeAsked.when <= timeTicks
    /\ reset.sec \in Int /\ reset.usec \in (1 - US)..(US - 1)
    /\ tickRate \in {0, Rate} /\ timeCall.op \in {"none", "set", "get"}
    /\ tickRate = 0 => timeCall.op = "none"
    /\ timeCall.ticks \in 0..MaxTicks
    /\ timeCall.op # "set" => Micros(reset) = timeAsked.micros - timeAsked.when * PerTick
    /\ timeCall.op = "get" => timeAsked.when <= timeCall.ticks
    /\ timeCall.op = "set" =>
         /\ timeAsked.when = timeCall.ticks /\ timeAsked.micros = Micros(timeCall.t)
         /\ timeCall.t.sec \in Nat /\ timeCall.t.usec \in 0..(US - 1)
    /\ \A t \in timeGot : t.sec \in Nat /\ t.usec \in 0..(US - 1)
    /\ ShowsTrueTime

(* A second is a whole number of ticks, a tick of microseconds.            *)
LEMMA TickSizes ==
    /\ US \in Nat /\ Rate \in Nat /\ US >= 1 /\ Rate >= 1 /\ Rate <= US
    /\ PerTick \in Nat /\ PerTick >= 1 /\ PerTick * Rate = US
    /\ TimeWord \in Nat /\ MaxTicks \in Nat /\ MaxTicks < TimeWord
<1>1. /\ US \in Nat /\ Rate \in Nat /\ US >= 1 /\ Rate >= 1 /\ Rate <= US /\ US % Rate = 0
      /\ TimeWord \in Nat /\ MaxTicks \in Nat /\ MaxTicks < TimeWord
    BY TimeAssumption
<1>2. \A u \in Nat, r \in Nat : 1 <= r /\ r <= u /\ u % r = 0 =>
         u \div r \in Nat /\ u \div r >= 1 /\ (u \div r) * r = u
    OBVIOUS
<1> QED
    BY <1>1, <1>2 DEF PerTick

(* There is one quotient and one remainder.                                *)
LEMMA OneQuotient ==
    ASSUME NEW u \in Nat, u >= 1, NEW p \in Int, NEW q \in Int,
           NEW x \in 0..(u - 1), NEW y \in 0..(u - 1), p * u + x = q * u + y
    PROVE  x = y
<1>1. p * u \in Int /\ q * u \in Int /\ (p - q) * u = p * u - q * u /\ (q - p) * u = q * u - p * u
    BY Products
<1>2. p - q >= 1 => 1 * u <= (p - q) * u
    BY Products
<1>3. q - p >= 1 => 1 * u <= (q - p) * u
    BY Products
<1>4. 1 * u = u
    OBVIOUS
<1>5. ~(p - q >= 1) /\ ~(q - p >= 1)
    BY <1>1, <1>2, <1>3, <1>4
<1>6. p = q
    BY <1>5
<1> QED
    BY <1>1, <1>6

(* Whole seconds of ticks and the microseconds of the rest make up all the *)
(* microseconds of the ticks.                                              *)
LEMMA TicksSplit ==
    ASSUME NEW n \in Nat
    PROVE  /\ n \div Rate \in Nat /\ n * PerTick \in Nat
           /\ (n * PerTick) % US \in 0..(US - 1)
           /\ (n \div Rate) * US + ((n * PerTick) % US) = n * PerTick
<1>1. \A a \in Nat, b \in Nat : b >= 1 =>
         /\ a \div b \in Nat /\ a % b \in 0..(b - 1) /\ a = (a \div b) * b + (a % b)
    OBVIOUS
<1> DEFINE q == n \div Rate
           r == n % Rate
           m == n * PerTick
<1>2. q \in Nat /\ r \in 0..(Rate - 1) /\ n = q * Rate + r
    BY <1>1, TickSizes
<1>3. m \in Nat
    BY TickSizes, Products
<1>4. m \div US \in Nat /\ m % US \in 0..(US - 1) /\ m = (m \div US) * US + (m % US)
    BY <1>1, <1>3, TickSizes
<1>5. r * PerTick \in 0..(US - 1)
  <2>1. r * PerTick \in Int /\ r * PerTick >= 0 /\ r * PerTick <= (Rate - 1) * PerTick
        /\ (Rate - 1) * PerTick = Rate * PerTick - 1 * PerTick /\ 1 * PerTick = PerTick
      BY <1>2, TickSizes, Products
  <2>2. Rate * PerTick = US
      BY TickSizes
  <2> QED
      BY <2>1, <2>2, TickSizes
<1>6. m = q * US + r * PerTick
  <2>1. q * Rate \in Int /\ m = (q * Rate) * PerTick + r * PerTick
      BY <1>2, TickSizes, Products
  <2>2. \A a \in Nat, b \in Nat, c \in Nat : (a * b) * c = a * (c * b)
      OBVIOUS
  <2> QED
      BY <1>2, <2>1, <2>2, TickSizes
<1>7. m % US = r * PerTick
  <2> DEFINE p == m \div US
             x == m % US
             y == r * PerTick
  <2>1. p \in Int /\ q \in Int /\ x \in 0..(US - 1) /\ y \in 0..(US - 1)
        /\ p * US + x = q * US + y
      BY <1>2, <1>4, <1>5, <1>6
  <2>2. x = y
    <3> HIDE DEF p, q, x, y
    <3> QED
        BY <2>1, OneQuotient, TickSizes
  <2> QED
      BY <2>2
<1> QED
  <2>1. q \in Nat /\ m \in Nat /\ m % US \in 0..(US - 1) /\ q * US + (m % US) = m
    <3> HIDE DEF m, q, r
    <3> QED
        BY <1>2, <1>3, <1>4, <1>6, <1>7
  <2> QED
      BY <2>1

(* Carrying keeps a time that is not negative and brings the microseconds  *)
(* into their second.                                                      *)
LEMMA CarriedTrue ==
    ASSUME NEW s \in Int, NEW u \in (1 - US)..(2 * US - 2), s * US + u >= 0
    PROVE  LET t == Carried([sec |-> s, usec |-> u])
           IN t.sec \in Nat /\ t.usec \in 0..(US - 1) /\ Micros(t) = s * US + u
<1>0. US \in Nat /\ US >= 1
    BY TickSizes
<1>1. s * US \in Int /\ (s + 1) * US = s * US + 1 * US /\ (s - 1) * US = s * US - 1 * US
      /\ 1 * US = US
    BY <1>0, Products
<1>2. (s <= -1 => s * US <= (-1) * US) /\ (-1) * US = -US
    BY <1>0, Products
<1>3. s <= 0 => s * US <= 0 * US
    BY <1>0, Products
<1>4. 0 * US = 0
    BY <1>0
<1>5. ~(u < 0 /\ s <= 0)
    BY <1>0, <1>1, <1>3, <1>4
<1>6. u < US => s >= 0
    BY <1>0, <1>1, <1>2
<1>7. s + 1 >= 0
  <2>1. (s <= -2 => s * US <= (-2) * US) /\ (-2) * US = -2 * US
      BY <1>0, Products
  <2> QED
      BY <1>0, <1>1, <2>1
<1>8. CASE u < 0
  <2>1. Carried([sec |-> s, usec |-> u]) = [sec |-> s - 1, usec |-> u + US]
      BY <1>0, <1>5, <1>8 DEF Carried
  <2> QED
      BY <1>0, <1>1, <1>5, <1>8, <2>1 DEF Micros
<1>9. CASE u >= US
  <2>1. Carried([sec |-> s, usec |-> u]) = [sec |-> s + 1, usec |-> u - US]
      BY <1>0, <1>9 DEF Carried
  <2> QED
      BY <1>0, <1>1, <1>7, <1>9, <2>1 DEF Micros
<1>10. CASE u >= 0 /\ u < US
  <2>1. Carried([sec |-> s, usec |-> u]) = [sec |-> s, usec |-> u]
      BY <1>0, <1>10 DEF Carried
  <2> QED
      BY <1>0, <1>1, <1>6, <1>10, <2>1 DEF Micros
<1> QED
    BY <1>0, <1>8, <1>9, <1>10

(* The start.                                                              *)
LEMMA TimeInitInv == TimeInit => TimeInv
<1> SUFFICES ASSUME TimeInit PROVE TimeInv
    OBVIOUS
<1>1. US \in Nat /\ US >= 1 /\ PerTick \in Nat /\ MaxTicks \in Nat /\ 0 * US = 0 /\ 0 * PerTick = 0
    BY TickSizes
<1>2. Micros(reset) = 0
    BY <1>1 DEF TimeInit, Micros
<1> QED
    BY <1>1, <1>2 DEF TimeInit, TimeInv, TimeIdle, ShowsTrueTime

(* What is kept for tick 0 is what was asked for, less the time of the     *)
(* ticks before it.                                                        *)
LEMMA ResetTrue ==
    ASSUME MaxTicks * PerTick < TimeWord, tickRate = Rate,
           NEW t, t.sec \in Nat, t.usec \in 0..(US - 1), NEW n \in 0..MaxTicks
    PROVE  /\ ResetTime(t, n).sec \in Int /\ ResetTime(t, n).usec \in (1 - US)..(US - 1)
           /\ Micros(ResetTime(t, n)) = Micros(t) - n * PerTick
<1> DEFINE q == n \div Rate
           m == n * PerTick
           x == m % US
<1>0. /\ US \in Nat /\ US >= 1 /\ PerTick \in Nat /\ TimeWord \in Nat /\ MaxTicks \in Nat
      /\ n \in Nat
    BY TickSizes
<1>1. q \in Nat /\ m \in Nat /\ x \in 0..(US - 1) /\ q * US + x = m
    BY <1>0, TicksSplit
<1>2. m % TimeWord = m
  <2>1. m <= MaxTicks * PerTick /\ MaxTicks * PerTick \in Int
      BY <1>0, Products
  <2>2. m < TimeWord
      BY <1>0, <1>1, <2>1
  <2>3. \A a \in Nat, w \in Nat : a < w => a % w = a
      OBVIOUS
  <2> QED
      BY <1>0, <1>1, <2>2, <2>3
<1>3. ResetTime(t, n) = [sec |-> t.sec - q, usec |-> t.usec - x]
    BY <1>2 DEF ResetTime
<1>4. (t.sec - q) * US = t.sec * US - q * US /\ t.sec * US \in Int /\ q * US \in Int
    BY <1>0, <1>1, Products
<1>5. Micros(t) = t.sec * US + t.usec
    BY DEF Micros
<1>6. Micros(ResetTime(t, n)) = (t.sec - q) * US + (t.usec - x)
    BY <1>3 DEF Micros
<1> HIDE DEF q, m, x
<1>7. Micros(ResetTime(t, n)) = Micros(t) - m
  <2>1. PICK a \in Int, b \in Int : a = t.sec * US /\ b = q * US
      BY <1>4
  <2>2. b + x = m /\ x \in Int /\ m \in Int /\ t.usec \in Int
      BY <1>0, <1>1, <2>1
  <2>3. Micros(t) = a + t.usec /\ Micros(ResetTime(t, n)) = (a - b) + (t.usec - x)
      BY <1>4, <1>5, <1>6, <2>1
  <2> QED
      BY <2>1, <2>2, <2>3
<1>8. ResetTime(t, n).sec \in Int /\ ResetTime(t, n).usec \in (1 - US)..(US - 1)
    BY <1>0, <1>1, <1>3
<1> QED
    BY <1>7, <1>8 DEF m

(* A time that is read is the one that was set and the ticks since then.   *)
LEMMA NowTrue ==
    ASSUME tickRate = Rate, NEW n \in Nat, NEW w \in Nat, w <= n, NEW a \in Nat,
           reset.sec \in Int, reset.usec \in (1 - US)..(US - 1),
           Micros(reset) = a - w * PerTick
    PROVE  /\ Now(n).sec \in Nat /\ Now(n).usec \in 0..(US - 1)
           /\ Micros(Now(n)) = a + (n - w) * PerTick
<1> DEFINE q == n \div Rate
           m == n * PerTick
           x == m % US
           v == w * PerTick
           s == reset.sec + q
           u == reset.usec + x
<1>0. US \in Nat /\ US >= 1 /\ PerTick \in Nat
    BY TickSizes
<1>1. q \in Nat /\ m \in Nat /\ x \in 0..(US - 1) /\ q * US + x = m
    BY <1>0, TicksSplit
<1>2. v \in Int /\ v <= m /\ (n - w) * PerTick = m - v
    BY <1>0, Products
<1>3. s * US = reset.sec * US + q * US /\ reset.sec * US \in Int /\ q * US \in Int
    BY <1>0, <1>1, Products
<1>4. Micros(reset) = reset.sec * US + reset.usec
    BY DEF Micros
<1>5. Now(n) = Carried([sec |-> s, usec |-> u])
    BY DEF Now
<1>6. s \in Int /\ u \in (1 - US)..(2 * US - 2)
  <2> HIDE DEF q, x
  <2> QED
      BY <1>0, <1>1
<1>7. s * US + u = a + (m - v)
  <2>1. u = reset.usec + x
      OBVIOUS
  <2>2. Micros(reset) = a - v
      OBVIOUS
  <2>3. s * US = reset.sec * US + q * US
      BY <1>3
  <2>4. reset.sec * US + reset.usec = a - v /\ q * US + x = m /\ reset.usec \in Int
      BY <1>0, <1>1, <1>4, <2>2
  <2>5. reset.sec * US \in Int /\ q * US \in Int /\ x \in Int /\ v \in Int /\ m \in Int
      BY <1>0, <1>1, <1>2, <1>3
  <2>6. ASSUME NEW b \in Int, NEW c \in Int, NEW d \in Int, NEW e \in Int,
               NEW f \in Int, NEW g \in Int, b + d = a - f, c + e = g
        PROVE  (b + c) + (d + e) = a + (g - f)
      BY <2>6
  <2>7. (reset.sec * US + q * US) + (reset.usec + x) = a + (m - v)
    <3> DEFINE b == reset.sec * US
               c == q * US
               d == reset.usec
    <3>1. b \in Int /\ c \in Int /\ d \in Int /\ x \in Int /\ v \in Int /\ m \in Int
          /\ b + d = a - v /\ c + x = m
        BY <2>4, <2>5
    <3> HIDE DEF q, m, x, v, s, u, b, c, d
    <3>2. (b + c) + (d + x) = a + (m - v)
        BY <3>1, <2>6
    <3> QED
        BY <3>2 DEF b, c, d
  <2> QED
      BY <2>1, <2>3, <2>7
<1> HIDE DEF q, m, x, v, s, u
<1>8. s * US + u >= 0
    BY <1>1, <1>2, <1>7
<1> QED
    BY <1>2, <1>5, <1>6, <1>7, <1>8, CarriedTrue

(* Each step: a call, the interrupt, the timer's start.                    *)
LEMMA TimeStepInv ==
    ASSUME MaxTicks * PerTick < TimeWord, TimeInv, [TimeNext]_timeVars
    PROVE  TimeInv'
<1>0. /\ US \in Nat /\ US >= 1 /\ PerTick \in Nat /\ MaxTicks \in Nat /\ PerTick' = PerTick
      /\ Rate \in Nat /\ Rate >= 1 /\ SetSecs \subseteq Nat
    BY TickSizes, TimeAssumption DEF PerTick
<1>1. CASE TimerInit
    BY <1>0, <1>1 DEF TimerInit, TimeInv, ShowsTrueTime, Micros
<1>2. CASE TimeTick
    BY <1>0, <1>2 DEF TimeTick, TimeInv, ShowsTrueTime, Micros
<1>3. ASSUME NEW op \in {"get", "set"}, NEW t, TimeBegin(op, t),
             op = "set" => t.sec \in Nat /\ t.usec \in 0..(US - 1)
      PROVE  TimeInv'
  <2>1. /\ timeCall' = [op |-> op, ticks |-> timeTicks, t |-> t] /\ timeGot' = {}
        /\ UNCHANGED <<tickRate, timeTicks, reset>> /\ tickRate # 0 /\ timeCall.op = "none"
      BY <1>3 DEF TimeBegin
  <2>2. ShowsTrueTime'
      BY <2>1 DEF ShowsTrueTime
  <2>3. CASE op = "get"
    <3>1. timeAsked' = timeAsked
        BY <1>3, <2>3 DEF TimeBegin
    <3>2. Micros(reset)' = Micros(reset)
        BY <2>1 DEF Micros
    <3> QED
        BY <1>0, <2>1, <2>2, <2>3, <3>1, <3>2 DEF TimeInv
  <2>4. CASE op = "set"
    <3>1. timeAsked' = [when |-> timeTicks, micros |-> Micros(t)]
        BY <1>3, <2>4 DEF TimeBegin
    <3>2. Micros(t) \in Nat
      <4>1. t.sec * US \in Int /\ t.sec * US >= 0
          BY <1>0, <1>3, <2>4, Products
      <4> QED
          BY <1>0, <1>3, <2>4, <4>1 DEF Micros
    <3>3. Micros(timeCall.t)' = Micros(t)
        BY <2>1 DEF Micros
    <3> QED
        BY <1>0, <1>3, <2>1, <2>2, <2>4, <3>1, <3>2, <3>3 DEF TimeInv
  <2> QED
      BY <2>3, <2>4
<1>4. CASE SetTimeOfDay
  <2>1. /\ reset' = ResetTime(timeCall.t, timeCall.ticks) /\ timeCall' = TimeIdle /\ timeGot' = {}
        /\ UNCHANGED <<tickRate, timeTicks, timeAsked>> /\ timeCall.op = "set"
      BY <1>4 DEF SetTimeOfDay
  <2>2. /\ tickRate = Rate /\ timeCall.t.sec \in Nat /\ timeCall.t.usec \in 0..(US - 1)
        /\ timeCall.ticks \in 0..MaxTicks
        /\ timeAsked.when = timeCall.ticks /\ timeAsked.micros = Micros(timeCall.t)
      BY <2>1 DEF TimeInv
  <2>3. /\ reset'.sec \in Int /\ reset'.usec \in (1 - US)..(US - 1)
        /\ Micros(reset)' = timeAsked.micros - timeAsked.when * PerTick
    <3>1. Micros(reset)' = Micros(ResetTime(timeCall.t, timeCall.ticks))
        BY <2>1 DEF Micros
    <3> QED
        BY <2>1, <2>2, <3>1, ResetTrue
  <2>4. ShowsTrueTime'
      BY <2>1 DEF ShowsTrueTime
  <2> QED
      BY <1>0, <2>1, <2>3, <2>4 DEF TimeInv, TimeIdle
<1>5. CASE GetTimeOfDay
  <2>1. /\ timeGot' = {Now(timeCall.ticks)} /\ timeCall' = [TimeIdle EXCEPT !.ticks = timeCall.ticks]
        /\ UNCHANGED <<tickRate, timeTicks, reset, timeAsked>> /\ timeCall.op = "get"
      BY <1>5 DEF GetTimeOfDay
  <2>2. /\ tickRate = Rate /\ timeCall.ticks \in Nat /\ timeCall.ticks \in 0..MaxTicks
        /\ timeAsked.when \in Nat /\ timeAsked.micros \in Nat /\ timeAsked.when <= timeCall.ticks
        /\ reset.sec \in Int /\ reset.usec \in (1 - US)..(US - 1)
        /\ Micros(reset) = timeAsked.micros - timeAsked.when * PerTick
      BY <1>0, <2>1 DEF TimeInv
  <2>3. /\ Now(timeCall.ticks).sec \in Nat /\ Now(timeCall.ticks).usec \in 0..(US - 1)
        /\ Micros(Now(timeCall.ticks)) =
             timeAsked.micros + (timeCall.ticks - timeAsked.when) * PerTick
      BY <2>2, NowTrue
  <2>4. timeCall'.ticks = timeCall.ticks /\ timeCall'.op = "none"
      BY <2>1 DEF TimeIdle
  <2>5. ShowsTrueTime'
    <3>1. \A t \in timeGot' : t = Now(timeCall.ticks)
        BY <2>1
    <3> QED
        BY <1>0, <2>1, <2>3, <2>4, <3>1 DEF ShowsTrueTime, Micros
  <2>6. Micros(reset)' = Micros(reset)
      BY <2>1 DEF Micros
  <2> QED
      BY <1>0, <2>1, <2>2, <2>3, <2>4, <2>5, <2>6 DEF TimeInv
<1>6. CASE UNCHANGED timeVars
    BY <1>0, <1>6 DEF timeVars, TimeInv, ShowsTrueTime, Micros
<1> QED
  <2>1. ASSUME NEW s \in SetSecs, NEW u \in 0..(US - 1), TimeBegin("set", [sec |-> s, usec |-> u])
        PROVE  TimeInv'
      BY <1>0, <1>3, <2>1
  <2>2. TimeBegin("get", TimeIdle.t) => TimeInv'
      BY <1>3
  <2> QED
      BY <1>1, <1>2, <1>4, <1>5, <1>6, <2>1, <2>2 DEF TimeNext

(* gettimeofday shows the time that was set and the ticks since then, for  *)
(* every tick rate and whatever is set, on a run whose microseconds fit a  *)
(* word: past that settimeofday loses what the product drops.              *)
THEOREM ShowsTrueTimeAlways ==
    ASSUME MaxTicks * PerTick < TimeWord
    PROVE  TimeSpec => []ShowsTrueTime
<1>1. TimeInv => ShowsTrueTime
    BY DEF TimeInv
<1>2. TimeInv /\ [TimeNext]_timeVars => TimeInv'
    BY TimeStepInv
<1> QED
    BY <1>1, <1>2, TimeInitInv, PTL DEF TimeSpec
-----------------------------------------------------------------------------
(* The file descriptors, for any number of them, any devices, file systems *)
(* and drivers.                                                            *)

Phases == {"stdout", "stdin", "stderr", "main", "exit"}

(* Only a descriptor of a device is ever held.  A descriptor that open has *)
(* returned, and all of them once a device has one, are at or below the    *)
(* high-water mark, where a search finds them.  What open was asked for is *)
(* what the table says, for as long as the entry lasts.                    *)
FileInv ==
    /\ FdTypeOK /\ filePhase \in Phases /\ NoLeak /\ AccessRespected
    /\ mine \intersect Standard = {}
    /\ filePhase \notin {"main", "exit"} => \A fd \in Fds : ~table[fd].excl
    /\ \A fd \in Fds :
         /\ table[fd].isDevice => table[fd].dev \in Devices /\ fd <= maxFd /\ 2 <= maxFd
         /\ table[fd].excl => table[fd].isDevice
         /\ table[fd].dev # NoFile => table[fd].mode = fileAsked[fd]
         /\ table[fd].dev # NoFile /\ fd \notin Standard => fd <= maxFd

LEMMA FdFacts ==
    /\ Standard \subseteq Fds /\ MaxFd \in Nat /\ Fds \subseteq Nat /\ MaxFd >= 3
    /\ NullDevice \in Owners /\ Devices \subseteq Owners /\ NoFile \notin Owners
    /\ \A fd \in Fds : fd >= 0 /\ fd <= MaxFd - 1 /\ fd \in Int
    /\ \A fd \in Fds : fd \notin Standard => fd > 2
BY FileAssumption DEF Fds, Standard, Owners

(* What find returns is a device or a file system.                         *)
LEMMA FindOwner == ASSUME NEW name PROVE Find(name) \subseteq Owners
<1>1. FindDev(name) \subseteq Devices
    BY DEF FindDev
<1>2. FindFile(name) \subseteq Range(FsList)
    BY DEF FindFile, Range
<1> QED
    BY <1>1, <1>2 DEF Find, Owners, FileSystems

(* The streams in their order.                                             *)
LEMMA StreamFacts ==
    /\ DOMAIN Streams = {"stdout", "stdin", "stderr"}
    /\ \A p \in DOMAIN Streams : Streams[p] \in Standard /\ NextPhase[p] \in Phases \ {"exit"}
<1>1. DOMAIN Streams = {"stdout", "stdin", "stderr"}
    BY DEF Streams
<1>2. /\ Streams["stdout"] = 1 /\ Streams["stdin"] = 0 /\ Streams["stderr"] = 2
      /\ NextPhase["stdout"] = "stdin" /\ NextPhase["stdin"] = "stderr"
           /\ NextPhase["stderr"] = "main"
    BY DEF Streams, NextPhase
<1> QED
    BY <1>1, <1>2 DEF Standard, Phases

(* A table in which entry fd is an open one, and one in which it is free.  *)
Entry == [dev : Owners \union {NoFile}, mode : Modes, soft : BOOLEAN,
          excl : BOOLEAN, isDevice : BOOLEAN]

IsOpened(e, d, mode) ==
    /\ e \in Entry /\ e.dev = d /\ e.mode = mode /\ e.excl = FALSE
    /\ e.isDevice = (d \in Devices)

LEMMA OpenEntry ==
    ASSUME NEW d \in Owners, NEW mode \in Modes
    PROVE  IsOpened(Fd(d, mode, FALSE, d \in Devices), d, mode)
<1>0. (d \in Devices) \in BOOLEAN
    OBVIOUS
<1>1. PICK b \in BOOLEAN : b = (d \in Devices)
    BY <1>0
<1>2. PICK e : e = [dev |-> d, mode |-> mode, soft |-> FALSE, excl |-> FALSE, isDevice |-> b]
    OBVIOUS
<1>3. e.dev = d /\ e.mode = mode /\ e.excl = FALSE /\ e.isDevice = b
    BY <1>2
<1>4. e \in Entry
    BY <1>2 DEF Entry
<1>5. e = Fd(d, mode, FALSE, d \in Devices)
    BY <1>1, <1>2 DEF Fd
<1> QED
    BY <1>1, <1>3, <1>4, <1>5 DEF IsOpened

LEMMA NewEntry ==
    ASSUME table \in [Fds -> Entry], NEW fd \in Fds, NEW d \in Owners, NEW mode \in Modes
    PROVE  \E e \in Entry :
             /\ Opening(fd, d, mode) \in [Fds -> Entry] /\ IsOpened(e, d, mode)
             /\ \A i \in Fds : Opening(fd, d, mode)[i] = IF i = fd THEN e ELSE table[i]
<1>1. PICK e : e = Fd(d, mode, FALSE, d \in Devices)
    OBVIOUS
<1>2. IsOpened(e, d, mode) /\ e \in Entry
    BY <1>1, OpenEntry DEF IsOpened
<1>3. Opening(fd, d, mode) = [table EXCEPT ![fd] = e]
    BY <1>1 DEF Opening
<1>4. /\ Opening(fd, d, mode) \in [Fds -> Entry]
      /\ \A i \in Fds : Opening(fd, d, mode)[i] = IF i = fd THEN e ELSE table[i]
    BY <1>2, <1>3
<1> QED
    BY <1>2, <1>4

LEMMA FreeEntry ==
    /\ FreeFd \in Entry /\ FreeFd.dev = NoFile /\ ~FreeFd.excl /\ ~FreeFd.isDevice
    /\ FreeFd.mode = "RDONLY"
BY DEF FreeFd, Fd, Entry, Modes

LEMMA ReleasedEntry ==
    ASSUME NEW t \in [Fds -> Entry], NEW fd \in Fds
    PROVE  /\ Released(t, fd) \in [Fds -> Entry]
           /\ \A i \in Fds :
                Released(t, fd)[i] = IF i = fd /\ fd \notin Standard THEN FreeFd ELSE t[i]
BY FreeEntry DEF Released

(* A free descriptor is none of the standard ones.                         *)
LEMMA GetFdFree ==
    ASSUME FileInv, NEW fd \in GetFd
    PROVE  fd \in Fds /\ fd \notin Standard /\ table[fd].dev = NoFile /\ fd \notin mine
           /\ Marked(fd) \in -1..(MaxFd - 1) /\ Marked(fd) >= fd /\ Marked(fd) >= maxFd
           /\ Marked(fd) >= 2 /\ \A s \in Standard : s <= Marked(fd)
<1>1. fd \in Fds /\ table[fd].dev = NoFile
    BY DEF GetFd
<1>2. fd \notin mine \union Standard
    BY <1>1 DEF FileInv, NoLeak
<1>3. maxFd \in -1..(MaxFd - 1)
    BY DEF FileInv, FdTypeOK
<1>4. fd > 2
    BY <1>1, <1>2, FdFacts
<1> QED
    BY <1>1, <1>2, <1>3, <1>4, FdFacts DEF Marked, Standard

LEMMA FileInitInv == FileInit => FileInv
<1> SUFFICES ASSUME FileInit PROVE FileInv
    OBVIOUS
<1>1. Fd(NullDevice, "RDONLY", FALSE, FALSE) \in Entry /\ FreeFd \in Entry
    BY FdFacts DEF Fd, Entry, Modes, FreeFd
<1>0. table \in [Fds -> Entry]
    BY <1>1 DEF FileInit
<1>a. maxFd = -1 /\ maxFd \in -1..(MaxFd - 1)
    BY FdFacts DEF FileInit
<1>b. fileAsked \in [Fds -> Modes]
    BY DEF FileInit, Modes
<1>2. /\ mine = {} /\ mine \subseteq Fds
      /\ passed = NotPassed /\ filePhase = "stdout"
    BY DEF FileInit
<1>3. passed.fd \in Fds /\ passed.op = "none"
    BY <1>2, FdFacts DEF NotPassed, Standard
<1>4. FdTypeOK
    BY <1>0, <1>a, <1>b, <1>2, <1>3 DEF FdTypeOK, Entry
<1>5. ASSUME NEW fd \in Fds
      PROVE  /\ ~table[fd].excl /\ ~table[fd].isDevice
                  /\ (table[fd].dev # NoFile <=> fd \in Standard)
             /\ table[fd].mode = fileAsked[fd]
  <2>1. table[fd] = IF fd \in Standard THEN Fd(NullDevice, "RDONLY", FALSE, FALSE) ELSE FreeFd
      BY DEF FileInit
  <2>2. fileAsked[fd] = "RDONLY" /\ NullDevice # NoFile
      BY FdFacts DEF FileInit
  <2>3. CASE fd \in Standard
      BY <2>1, <2>2, <2>3 DEF Fd
  <2>4. CASE fd \notin Standard
      BY <2>1, <2>2, <2>4, FreeEntry
  <2> QED
      BY <2>3, <2>4
<1>6. NoLeak
    BY <1>2, <1>5, FdFacts DEF NoLeak
<1>7. AccessRespected
    BY <1>3 DEF AccessRespected
<1> QED
    BY <1>a, <1>2, <1>4, <1>5, <1>6, <1>7 DEF FileInv, Phases

(* The conjuncts of the invariant that are about one descriptor.           *)
FdSound(fd) ==
    /\ table[fd].isDevice => table[fd].dev \in Devices /\ fd <= maxFd /\ 2 <= maxFd
    /\ table[fd].excl => table[fd].isDevice
    /\ table[fd].dev # NoFile => table[fd].mode = fileAsked[fd]
    /\ table[fd].dev # NoFile /\ fd \notin Standard => fd <= maxFd

(* Open: an entry that was free is made, or made and freed again.          *)
LEMMA OpenedInv ==
    ASSUME FileInv, NEW name, NEW mode \in Modes, OpenSucceeds(name, mode)
    PROVE  FileInv'
<1>1. PICK d \in Find(name), fd \in GetFd :
        /\ filePhase = "main" /\ table' = Opening(fd, d, mode) /\ maxFd' = Marked(fd)
        /\ mine' = mine \union {fd} /\ fileAsked' = [fileAsked EXCEPT ![fd] = mode]
        /\ passed' = NotPassed /\ filePhase' = filePhase
    BY DEF OpenSucceeds
<1>2. d \in Owners
    BY FindOwner
<1>3. /\ fd \in Fds /\ fd \notin Standard /\ table[fd].dev = NoFile /\ fd \notin mine
      /\ Marked(fd) \in -1..(MaxFd - 1) /\ Marked(fd) >= fd /\ Marked(fd) >= maxFd
      /\ Marked(fd) >= 2
    BY GetFdFree
<1>4. table \in [Fds -> Entry] /\ maxFd \in Int /\ mine \subseteq Fds
        /\ fileAsked \in [Fds -> Modes]
    BY DEF FileInv, FdTypeOK, Entry
<1>5. PICK e \in Entry :
        /\ table' \in [Fds -> Entry] /\ IsOpened(e, d, mode)
        /\ \A i \in Fds : table'[i] = IF i = fd THEN e ELSE table[i]
    BY <1>1, <1>2, <1>3, <1>4, NewEntry
<1>6. /\ fileAsked' \in [Fds -> Modes]
      /\ \A i \in Fds : fileAsked'[i] = IF i = fd THEN mode ELSE fileAsked[i]
    BY <1>1, <1>3, <1>4
<1>7. e.dev # NoFile /\ e.dev = d /\ e.mode = mode /\ ~e.excl /\ (e.isDevice => d \in Devices)
    BY <1>2, <1>5, FdFacts DEF IsOpened
<1>8. FdTypeOK'
    BY <1>1, <1>3, <1>4, <1>5, <1>6, FdFacts DEF FdTypeOK, Entry, NotPassed, Standard
<1>9. NoLeak'
  <2>1. \A i \in Fds : table'[i].dev # NoFile <=> i = fd \/ table[i].dev # NoFile
      BY <1>5, <1>7
  <2> QED
      BY <1>1, <1>3, <2>1 DEF FileInv, NoLeak
<1>10. AccessRespected'
    BY <1>1 DEF AccessRespected, NotPassed
<1>11. ASSUME NEW i \in Fds PROVE FdSound(i)'
  <2>1. CASE i = fd
      BY <1>1, <1>3, <1>5, <1>6, <1>7, <2>1 DEF FdSound
  <2>2. CASE i # fd
      BY <1>1, <1>3, <1>4, <1>5, <1>6, <2>2, FdFacts DEF FdSound, FileInv
  <2> QED
      BY <2>1, <2>2
<1>12. mine' \intersect Standard = {} /\ filePhase' \in Phases /\ filePhase' = "main"
    BY <1>1, <1>3 DEF FileInv
<1> QED
    BY <1>8, <1>9, <1>10, <1>11, <1>12 DEF FileInv, FdSound

(* What is the same in every step that hands out no descriptor and keeps   *)
(* to the devices the descriptors have.                                    *)
LEMMA SameDevices ==
    ASSUME FileInv, table' \in [Fds -> Entry], mine' = mine, passed' = NotPassed,
           filePhase' \in Phases, maxFd' \in -1..(MaxFd - 1), fileAsked' \in [Fds -> Modes],
           \A i \in Fds : table'[i].dev # NoFile <=> table[i].dev # NoFile,
           \A i \in Fds : FdSound(i)',
           filePhase' \notin {"main", "exit"} => \A i \in Fds : ~table'[i].excl
    PROVE  FileInv'
<1>1. FdTypeOK'
    BY FdFacts DEF FileInv, FdTypeOK, Entry, NotPassed, Standard
<1>2. NoLeak'
    BY DEF FileInv, NoLeak
<1>3. AccessRespected'
    BY DEF AccessRespected, NotPassed
<1> QED
    BY <1>1, <1>2, <1>3 DEF FileInv, FdSound

LEMMA OpenFailsInv ==
    ASSUME FileInv, NEW name, NEW mode \in Modes, FileOpenFails(name, mode)
    PROVE  /\ FileInv'
           /\ \A i \in Fds : /\ table'[i].excl = table[i].excl /\ table'[i].dev = table[i].dev
                             /\ table[i].dev # NoFile => table'[i].mode = table[i].mode
<1>1. PICK d \in Find(name), fd \in GetFd :
        /\ table' = Released(Opening(fd, d, mode), fd) /\ maxFd' = Marked(fd)
        /\ UNCHANGED <<filePhase, mine, fileAsked>> /\ passed' = NotPassed /\ filePhase = "main"
    BY DEF FileOpenFails
<1>2. d \in Owners
    BY FindOwner
<1>3. /\ fd \in Fds /\ fd \notin Standard /\ table[fd].dev = NoFile /\ fd \notin mine
      /\ Marked(fd) \in -1..(MaxFd - 1) /\ Marked(fd) >= fd /\ Marked(fd) >= maxFd
      /\ Marked(fd) >= 2
    BY GetFdFree
<1>4. table \in [Fds -> Entry] /\ maxFd \in Int /\ mine \subseteq Fds
        /\ fileAsked \in [Fds -> Modes]
    BY DEF FileInv, FdTypeOK, Entry
<1>5. PICK e \in Entry :
        /\ Opening(fd, d, mode) \in [Fds -> Entry]
        /\ \A i \in Fds : Opening(fd, d, mode)[i] = IF i = fd THEN e ELSE table[i]
    BY <1>2, <1>3, <1>4, NewEntry
<1>6. table' \in [Fds -> Entry] /\ \A i \in Fds : table'[i] = IF i = fd THEN FreeFd ELSE table[i]
    BY <1>1, <1>3, <1>5, ReleasedEntry
<1>7. /\ FdSound(fd) /\ table[fd].excl \in BOOLEAN /\ table[fd].isDevice \in BOOLEAN
    BY <1>3, <1>4 DEF FileInv, FdSound, Entry
<1>8. ~table[fd].excl
    BY <1>3, <1>7, FdFacts DEF FdSound
<1>9. table[fd].excl = FALSE /\ FreeFd.excl = FALSE /\ FreeFd.dev = NoFile /\ ~FreeFd.isDevice
    BY <1>7, <1>8 DEF FreeFd, Fd
<1>10. \A i \in Fds : table'[i].excl = table[i].excl /\ table'[i].dev = table[i].dev
    BY <1>3, <1>6, <1>9
<1>11. ASSUME NEW i \in Fds PROVE FdSound(i)'
  <2>1. CASE i = fd
      BY <1>3, <1>6, <1>9, <2>1 DEF FdSound
  <2>2. CASE i # fd
      BY <1>1, <1>3, <1>4, <1>6, <2>2, FdFacts DEF FdSound, FileInv
  <2> QED
      BY <2>1, <2>2
<1>12. FileInv'
    BY <1>1, <1>3, <1>4, <1>6, <1>10, <1>11, SameDevices DEF FileInv
<1> QED
    BY <1>3, <1>6, <1>10, <1>12

(* A standard descriptor is given its device; the one that was opened for  *)
(* it is free again.                                                       *)
LEMMA RedirectedTable ==
    ASSUME FileInv, NEW s \in Standard, NEW d \in Owners, NEW fd \in GetFd,
           filePhase \notin {"main", "exit"}, Redirected(s, d, fd)
    PROVE  \E e \in Entry :
             /\ IsOpened(e, d, RedirectMode(s)) /\ table' \in [Fds -> Entry]
             /\ \A i \in Fds : table'[i] = IF i = fd THEN FreeFd ELSE IF i = s THEN e ELSE table[i]
<1>1. fd \in Fds /\ fd \notin Standard /\ s \in Fds /\ RedirectMode(s) \in Modes
    BY GetFdFree, FdFacts DEF RedirectMode, Modes
<1>2. table \in [Fds -> Entry]
    BY DEF FileInv, FdTypeOK, Entry
<1> DEFINE new == Opening(fd, d, RedirectMode(s))
<1>3. PICK e \in Entry :
        /\ new \in [Fds -> Entry] /\ IsOpened(e, d, RedirectMode(s))
        /\ \A i \in Fds : new[i] = IF i = fd THEN e ELSE table[i]
    BY <1>1, <1>2, NewEntry
<1>4. table' = Released([new EXCEPT ![s] = new[fd]], fd)
    BY DEF Redirected
<1> HIDE DEF new
<1>5. PICK t : t = [new EXCEPT ![s] = new[fd]]
    OBVIOUS
<1>6. t \in [Fds -> Entry] /\ \A i \in Fds : t[i] = IF i = s THEN e ELSE new[i]
    BY <1>1, <1>3, <1>5
<1>7. table' \in [Fds -> Entry] /\ \A i \in Fds : table'[i] = IF i = fd THEN FreeFd ELSE t[i]
    BY <1>1, <1>4, <1>5, <1>6, ReleasedEntry
<1> QED
    BY <1>1, <1>3, <1>6, <1>7

LEMMA RedirectInv == ASSUME FileInv, Redirect PROVE FileInv'
<1>1. PICK s : s = Streams[filePhase]
    OBVIOUS
<1>2. filePhase \in DOMAIN Streams /\ s \in Standard /\ s \in Fds
        /\ filePhase \notin {"main", "exit"} /\ filePhase' \in Phases
    BY <1>1, StreamFacts, FdFacts DEF Redirect
<1>3. table \in [Fds -> Entry] /\ maxFd \in -1..(MaxFd - 1) /\ mine \subseteq Fds
        /\ fileAsked \in [Fds -> Modes]
    BY DEF FileInv, FdTypeOK, Entry
<1>4. mine' = mine /\ passed' = NotPassed
    BY DEF Redirect
<1>5. ASSUME UNCHANGED <<table, fileAsked>>, maxFd' \in -1..(MaxFd - 1), maxFd' >= maxFd
      PROVE  FileInv'
  <2>1. \A i \in Fds : ~table'[i].excl
      BY <1>2, <1>5 DEF FileInv
  <2>2. ASSUME NEW i \in Fds PROVE FdSound(i)'
      BY <1>3, <1>5, FdFacts DEF FileInv, FdSound
  <2> QED
      BY <1>2, <1>3, <1>4, <1>5, <2>1, <2>2, SameDevices
<1>6. ASSUME NEW d \in Find(StdName[s]), NEW fd \in GetFd, Redirected(s, d, fd)
      PROVE  FileInv'
  <2>1. d \in Owners
      BY FindOwner
  <2>2. /\ fd \in Fds /\ fd \notin Standard /\ table[fd].dev = NoFile
        /\ Marked(fd) \in -1..(MaxFd - 1) /\ Marked(fd) >= maxFd /\ s <= Marked(fd)
        /\ Marked(fd) >= 2
      BY <1>2, GetFdFree
  <2>3. PICK e \in Entry :
          /\ IsOpened(e, d, RedirectMode(s)) /\ table' \in [Fds -> Entry]
          /\ \A i \in Fds : table'[i] = IF i = fd THEN FreeFd ELSE IF i = s THEN e ELSE table[i]
      BY <1>2, <1>6, <2>1, RedirectedTable
  <2>4. /\ maxFd' = Marked(fd) /\ fileAsked' = [fileAsked EXCEPT ![s] = RedirectMode(s)]
        /\ RedirectMode(s) \in Modes
      BY <1>6 DEF Redirected, RedirectMode, Modes
  <2>5. /\ fileAsked' \in [Fds -> Modes]
        /\ \A i \in Fds : fileAsked'[i] = IF i = s THEN RedirectMode(s) ELSE fileAsked[i]
      BY <1>2, <1>3, <2>4
  <2>6. e.dev # NoFile /\ e.dev = d /\ e.mode = RedirectMode(s) /\ ~e.excl
          /\ (e.isDevice => d \in Devices)
      BY <2>1, <2>3, FdFacts DEF IsOpened
  <2>7. FreeFd.dev = NoFile /\ ~FreeFd.excl /\ ~FreeFd.isDevice
      BY FreeEntry
  <2>8. table[s].dev # NoFile
      BY <1>2 DEF FileInv, NoLeak
  <2>9. \A i \in Fds : table'[i].dev # NoFile <=> table[i].dev # NoFile
      BY <2>2, <2>3, <2>6, <2>7, <2>8
  <2>10. \A i \in Fds : ~table'[i].excl
      BY <1>2, <2>3, <2>6, <2>7 DEF FileInv
  <2>11. ASSUME NEW i \in Fds PROVE FdSound(i)'
    <3>1. CASE i = fd
        BY <2>3, <2>7, <3>1 DEF FdSound
    <3>2. CASE i = s
        BY <1>2, <2>2, <2>3, <2>4, <2>5, <2>6, <3>2 DEF FdSound
    <3>3. CASE i # fd /\ i # s
        BY <1>3, <2>2, <2>3, <2>4, <2>5, <3>3, FdFacts DEF FdSound, FileInv
    <3> QED
        BY <3>1, <3>2, <3>3
  <2> QED
      BY <1>2, <1>4, <2>2, <2>3, <2>4, <2>5, <2>9, <2>10, <2>11, SameDevices
<1>7. ASSUME NEW d \in Find(StdName[s]), NEW fd \in GetFd, maxFd' = Marked(fd)
               /\ UNCHANGED <<table, fileAsked>>
      PROVE  FileInv'
    BY <1>5, <1>7, GetFdFree
<1>8. ASSUME UNCHANGED <<table, maxFd, fileAsked>> PROVE FileInv'
    BY <1>3, <1>5, <1>8
<1> QED
    BY <1>1, <1>6, <1>7, <1>8 DEF Redirect

(* Close frees an entry, but for the standard ones.                        *)
LEMMA ClosedInv ==
    ASSUME FileInv, NEW fd \in Fds, Closed(fd), filePhase = "main", filePhase' \in {"main", "exit"}
    PROVE  FileInv'
<1>1. table \in [Fds -> Entry] /\ maxFd \in -1..(MaxFd - 1) /\ mine \subseteq Fds
        /\ fileAsked \in [Fds -> Modes]
    BY DEF FileInv, FdTypeOK, Entry
<1>2. /\ mine' = mine \ {fd} /\ passed' = [fd |-> fd, op |-> "close"] /\ maxFd' = maxFd
           /\ fileAsked' = fileAsked
      /\ table' = Released(table, fd)
    BY DEF Closed
<1>3. table' \in [Fds -> Entry]
      /\ \A i \in Fds : table'[i] = IF i = fd /\ fd \notin Standard THEN FreeFd ELSE table[i]
    BY <1>1, <1>2, ReleasedEntry
<1>4. FreeFd.dev = NoFile /\ ~FreeFd.excl /\ ~FreeFd.isDevice
    BY FreeEntry
<1>5. passed'.fd = fd /\ passed'.op = "close"
    BY <1>2
<1>6. FdTypeOK'
    BY <1>1, <1>2, <1>3, <1>5 DEF FdTypeOK, Entry
<1>7. NoLeak'
  <2>1. \A i \in Fds : table[i].dev # NoFile <=> i \in mine \union Standard
      BY FdFacts DEF FileInv, NoLeak
  <2>2. ASSUME NEW i \in Fds PROVE table'[i].dev # NoFile <=> i \in (mine \ {fd}) \union Standard
    <3>1. CASE i = fd /\ fd \notin Standard
        BY <1>3, <1>4, <3>1
    <3>2. CASE ~(i = fd /\ fd \notin Standard)
        BY <1>3, <2>1, <3>2
    <3> QED
        BY <3>1, <3>2
  <2> QED
      BY <1>1, <1>2, <2>2, FdFacts DEF NoLeak
<1>8. AccessRespected'
    BY <1>5 DEF AccessRespected
<1>9. ASSUME NEW i \in Fds PROVE FdSound(i)'
  <2>1. CASE i = fd /\ fd \notin Standard
      BY <1>3, <1>4, <2>1 DEF FdSound
  <2>2. CASE ~(i = fd /\ fd \notin Standard)
      BY <1>2, <1>3, <2>2 DEF FdSound, FileInv
  <2> QED
      BY <2>1, <2>2
<1>10. mine' \intersect Standard = {} /\ filePhase' \in Phases
    BY <1>2 DEF FileInv, Phases
<1> QED
    BY <1>6, <1>7, <1>8, <1>9, <1>10 DEF FileInv, FdSound

(* A change of flags: fcntl's own, or the lock of a device's descriptor.   *)
LEMMA FlagsInv ==
    ASSUME FileInv, NEW fd \in Fds, NEW e \in Entry,
           e.dev = table[fd].dev, e.mode = table[fd].mode, e.isDevice = table[fd].isDevice,
           e.excl => table[fd].isDevice, filePhase = "main",
           table' = [table EXCEPT ![fd] = e],
           passed' = NotPassed, UNCHANGED <<maxFd, filePhase, mine, fileAsked>>
    PROVE  FileInv'
<1>1. table \in [Fds -> Entry] /\ maxFd \in -1..(MaxFd - 1) /\ fileAsked \in [Fds -> Modes]
    BY DEF FileInv, FdTypeOK, Entry
<1>2. table' \in [Fds -> Entry] /\ \A i \in Fds : table'[i] = IF i = fd THEN e ELSE table[i]
    BY <1>1
<1>3. \A i \in Fds : table'[i].dev # NoFile <=> table[i].dev # NoFile
    BY <1>2
<1>4. ASSUME NEW i \in Fds PROVE FdSound(i)'
  <2>1. CASE i = fd
      BY <1>2, <2>1 DEF FdSound, FileInv
  <2>2. CASE i # fd
      BY <1>2, <2>2 DEF FdSound, FileInv
  <2> QED
      BY <2>1, <2>2
<1> QED
    BY <1>1, <1>2, <1>3, <1>4, SameDevices DEF Phases

(* The entry after such a change.                                          *)
LEMMA FlagEntry ==
    ASSUME NEW e \in Entry, NEW b \in BOOLEAN
    PROVE  /\ \E n \in Entry : /\ n = [e EXCEPT !.soft = b] /\ n.dev = e.dev /\ n.mode = e.mode
                              /\ n.isDevice = e.isDevice /\ n.excl = e.excl
           /\ \E n \in Entry : /\ n = [e EXCEPT !.excl = b] /\ n.dev = e.dev /\ n.mode = e.mode
                              /\ n.isDevice = e.isDevice /\ n.excl = b
<1>1. PICK n : n = [e EXCEPT !.soft = b]
    OBVIOUS
<1>2. n \in Entry /\ n.dev = e.dev /\ n.mode = e.mode /\ n.isDevice = e.isDevice /\ n.excl = e.excl
    BY <1>1 DEF Entry
<1>3. PICK m : m = [e EXCEPT !.excl = b]
    OBVIOUS
<1>4. m \in Entry /\ m.dev = e.dev /\ m.mode = e.mode /\ m.isDevice = e.isDevice /\ m.excl = b
    BY <1>3 DEF Entry
<1> QED
    BY <1>1, <1>2, <1>3, <1>4

(* What each of the calls on an open descriptor does to its entry.         *)
LEMMA FlagSteps ==
    ASSUME FileInv, NEW fd \in Fds
    PROVE  /\ \A mode : \A soft \in BOOLEAN : Fcntl(fd, mode, soft) =>
                \E e \in Entry :
                  /\ table' = [table EXCEPT ![fd] = e] /\ e.dev = table[fd].dev
                       /\ e.mode = table[fd].mode
                  /\ e.isDevice = table[fd].isDevice /\ e.excl = table[fd].excl
           /\ IoctlLock(fd) =>
                \E e \in Entry :
                  /\ table' = [table EXCEPT ![fd] = e] /\ e.dev = table[fd].dev
                       /\ e.mode = table[fd].mode
                  /\ e.isDevice = table[fd].isDevice /\ e.excl = TRUE
           /\ IoctlUnlock(fd) =>
                \E e \in Entry :
                  /\ table' = [table EXCEPT ![fd] = e] /\ e.dev = table[fd].dev
                       /\ e.mode = table[fd].mode
                  /\ e.isDevice = table[fd].isDevice /\ e.excl = FALSE
<1>1. PICK t \in Entry : t = table[fd]
    BY DEF FileInv, FdTypeOK, Entry
<1>2. ASSUME NEW mode, NEW soft \in BOOLEAN, Fcntl(fd, mode, soft)
      PROVE  \E e \in Entry :
               /\ table' = [table EXCEPT ![fd] = e] /\ e.dev = table[fd].dev
                    /\ e.mode = table[fd].mode
               /\ e.isDevice = table[fd].isDevice /\ e.excl = table[fd].excl
  <2>1. table' = [table EXCEPT ![fd] = [t EXCEPT !.soft = soft]]
      BY <1>1, <1>2 DEF Fcntl, SetFlags
  <2>2. PICK n \in Entry : /\ n = [t EXCEPT !.soft = soft] /\ n.dev = t.dev /\ n.mode = t.mode
                           /\ n.isDevice = t.isDevice /\ n.excl = t.excl
      BY FlagEntry
  <2> QED
      BY <1>1, <2>1, <2>2
<1>3. ASSUME NEW b \in BOOLEAN, table' = [table EXCEPT ![fd].excl = b]
      PROVE  \E e \in Entry :
               /\ table' = [table EXCEPT ![fd] = e] /\ e.dev = table[fd].dev
                    /\ e.mode = table[fd].mode
               /\ e.isDevice = table[fd].isDevice /\ e.excl = b
  <2>1. table' = [table EXCEPT ![fd] = [t EXCEPT !.excl = b]]
      BY <1>1, <1>3
  <2>2. PICK n \in Entry : /\ n = [t EXCEPT !.excl = b] /\ n.dev = t.dev /\ n.mode = t.mode
                           /\ n.isDevice = t.isDevice /\ n.excl = b
      BY FlagEntry
  <2> QED
      BY <1>1, <2>1, <2>2
<1>4. IoctlLock(fd) => table' = [table EXCEPT ![fd].excl = TRUE]
    BY DEF IoctlLock
<1>5. IoctlUnlock(fd) => table' = [table EXCEPT ![fd].excl = FALSE]
    BY DEF IoctlUnlock
<1> QED
    BY <1>2, <1>3, <1>4, <1>5

LEMMA DriverCallInv ==
    ASSUME FileInv, NEW fd \in Fds, NEW op, DriverCall(fd, op)
    PROVE  FileInv' /\ table' = table
<1>1. /\ table[fd].dev # NoFile /\ Passes(fd, op) /\ passed' = [fd |-> fd, op |-> op]
      /\ UNCHANGED <<table, maxFd, filePhase, mine, fileAsked>>
    BY DEF DriverCall
<1>2. passed'.fd = fd /\ passed'.op = op /\ table[fd].mode = fileAsked[fd]
    BY <1>1 DEF FileInv
<1>3. AccessRespected'
    BY <1>1, <1>2 DEF AccessRespected, Passes
<1>4. FdTypeOK'
    BY <1>1, <1>2 DEF FileInv, FdTypeOK
<1>5. NoLeak'
    BY <1>1 DEF FileInv, NoLeak
<1> QED
    BY <1>1, <1>3, <1>4, <1>5 DEF FileInv

LEMMA FileStepInv == FileInv /\ [FileNext]_fileVars => FileInv'
<1> SUFFICES ASSUME FileInv, [FileNext]_fileVars PROVE FileInv'
    OBVIOUS
<1>1. CASE Redirect
    BY <1>1, RedirectInv
<1>2. CASE Exit
  <2>1. Closed(1) /\ 1 \in Fds /\ filePhase = "main" /\ filePhase' = "exit"
      BY <1>2, FdFacts DEF Exit, Standard
  <2> QED
      BY <2>1, ClosedInv
<1>3. CASE UNCHANGED fileVars
    BY <1>3 DEF fileVars, FileInv, FdTypeOK, NoLeak, AccessRespected
<1>4. ASSUME NEW name, NEW mode \in Modes, OpenSucceeds(name, mode) \/ FileOpenFails(name, mode)
      PROVE  FileInv'
    BY <1>4, OpenedInv, OpenFailsInv
<1>5. ASSUME NEW fd \in Fds, Close(fd) PROVE FileInv'
    BY <1>5, ClosedInv DEF Close
<1>6. ASSUME NEW fd \in Fds, NEW e \in Entry, filePhase = "main", table' = [table EXCEPT ![fd] = e],
             e.dev = table[fd].dev, e.mode = table[fd].mode, e.isDevice = table[fd].isDevice,
             e.excl => table[fd].isDevice, passed' = NotPassed,
             UNCHANGED <<maxFd, filePhase, mine, fileAsked>>
      PROVE  FileInv'
    BY <1>6, FlagsInv
<1>7. ASSUME NEW fd \in Fds, IoctlLock(fd) PROVE FileInv'
  <2>1. /\ filePhase = "main" /\ table[fd].isDevice /\ passed' = NotPassed
        /\ UNCHANGED <<maxFd, filePhase, mine, fileAsked>>
      BY <1>7 DEF IoctlLock
  <2> QED
      BY <1>6, <1>7, <2>1, FlagSteps
<1>8. ASSUME NEW fd \in Fds, IoctlUnlock(fd) PROVE FileInv'
  <2>1. /\ filePhase = "main" /\ passed' = NotPassed
        /\ UNCHANGED <<maxFd, filePhase, mine, fileAsked>>
      BY <1>8 DEF IoctlUnlock
  <2> QED
      BY <1>6, <1>8, <2>1, FlagSteps
<1>9. ASSUME NEW fd \in Fds, NEW mode, NEW soft \in BOOLEAN, Fcntl(fd, mode, soft) PROVE FileInv'
  <2>1. /\ filePhase = "main" /\ passed' = NotPassed
        /\ UNCHANGED <<maxFd, filePhase, mine, fileAsked>>
      BY <1>9 DEF Fcntl
  <2>2. table[fd].excl => table[fd].isDevice
      BY DEF FileInv
  <2>3. PICK e \in Entry :
                  /\ table' = [table EXCEPT ![fd] = e] /\ e.dev = table[fd].dev
                       /\ e.mode = table[fd].mode
                  /\ e.isDevice = table[fd].isDevice /\ e.excl = table[fd].excl
      BY <1>9, FlagSteps, ZenonT(30)
  <2> QED
      BY <1>6, <2>1, <2>2, <2>3
<1>10. ASSUME NEW fd \in Fds, NEW op, DriverCall(fd, op) PROVE FileInv'
    BY <1>10, DriverCallInv
<1> QED
    BY <1>1, <1>2, <1>3, <1>4, <1>5, <1>7, <1>8, <1>9, <1>10 DEF FileNext, Stopped

(* What the abstract pool sees of the table.                               *)
SlotOf(e) == IF e.dev = NoFile THEN {} ELSE {[owner |-> e.dev, mode |-> e.mode]}
Slots == [fd \in Fds |-> IF table[fd].dev = NoFile THEN {}
                         ELSE {[owner |-> table[fd].dev, mode |-> table[fd].mode]}]
HeldFds == {fd \in Fds : table[fd].excl}
Closing == IF passed.op = "close" THEN {passed.fd} ELSE {}

LEMMA SlotFacts ==
    /\ \A i \in Fds : Slots[i] = SlotOf(table[i]) /\ Slots'[i] = SlotOf(table'[i])
    /\ \A s \in Fds : \A x :
         (\A i \in Fds : SlotOf(table'[i]) = IF i = s THEN x ELSE SlotOf(table[i]))
                            => Slots' = [Slots EXCEPT ![s] = x]
    /\ (\A i \in Fds : SlotOf(table'[i]) = SlotOf(table[i])) => Slots' = Slots
BY DEF Slots, SlotOf

(* A call other than close that changes nothing the pool is seen by.       *)
LEMMA NotClosing ==
    /\ passed' = NotPassed => Closing' = {}
    /\ Slots' = Slots /\ HeldFds' = HeldFds /\ Closing' = {} => D!Next
<1>1. NotPassed.op # "close"
    BY DEF NotPassed
<1> QED
    BY <1>1 DEF D!Next, D!Other, Slots, HeldFds, Closing

LEMMA FreeNotHeld ==
    ASSUME FileInv, NEW fd \in Fds, table[fd].dev = NoFile
    PROVE  ~table[fd].excl
BY FdFacts DEF FileInv

(* Open gives a descriptor that was free to a device nobody holds.         *)
LEMMA OpenRefines ==
    ASSUME FileInv, NEW name, NEW mode \in Modes, OpenSucceeds(name, mode)
    PROVE  D!Next
<1>1. PICK d \in Find(name), fd \in GetFd :
        ~Refused(fd, d, mode) /\ table' = Opening(fd, d, mode) /\ passed' = NotPassed
    BY DEF OpenSucceeds
<1>2. d \in Owners
    BY FindOwner
<1>3. /\ fd \in Fds /\ table[fd].dev = NoFile /\ Marked(fd) >= maxFd /\ Marked(fd) \in Int
    BY GetFdFree
<1>4. table \in [Fds -> Entry] /\ maxFd \in Int
    BY DEF FileInv, FdTypeOK, Entry
<1>5. PICK e \in Entry :
        /\ Opening(fd, d, mode) \in [Fds -> Entry] /\ IsOpened(e, d, mode)
        /\ \A i \in Fds : Opening(fd, d, mode)[i] = IF i = fd THEN e ELSE table[i]
    BY <1>1, <1>2, <1>3, <1>4, NewEntry
<1>6. e.dev # NoFile /\ e.dev = d /\ e.mode = mode /\ e.excl = FALSE
    BY <1>2, <1>5, FdFacts DEF IsOpened
<1>7. PICK x : x = [owner |-> d, mode |-> mode]
    OBVIOUS
<1>8. x \in D!Entries /\ x.owner = d
    BY <1>2, <1>7 DEF D!Entries
<1>9. SlotOf(table[fd]) = {} /\ SlotOf(e) = {x}
    BY <1>3, <1>6, <1>7 DEF SlotOf
<1>10. Slots' = [Slots EXCEPT ![fd] = {x}]
    BY <1>1, <1>3, <1>5, <1>9, SlotFacts
<1>11. Slots[fd] = {}
    BY <1>3, <1>9, SlotFacts
<1>12. HeldFds' = HeldFds
  <2>1. ~table[fd].excl
      BY <1>3, FreeNotHeld
  <2>2. \A i \in Fds : table'[i].excl <=> table[i].excl
      BY <1>1, <1>3, <1>5, <1>6, <2>1
  <2> QED
      BY <2>2 DEF HeldFds
<1>13. ASSUME d \in Devices, NEW h \in HeldFds, NEW y \in Slots[h], y.owner = d PROVE FALSE
  <2>1. h \in Fds /\ table[h].excl /\ table[h].isDevice /\ h <= maxFd /\ h # fd /\ h \in Int
      BY <1>3, <1>13, FreeNotHeld, FdFacts DEF HeldFds, FileInv
  <2>2. y \in SlotOf(table[h])
      BY <1>13, <2>1, SlotFacts
  <2>3. table[h].dev = d
      BY <1>13, <2>2 DEF SlotOf
  <2>4. Opening(fd, d, mode)[h] = table[h] /\ Opening(fd, d, mode)[fd].dev = d
      BY <1>3, <1>5, <1>6, <2>1
  <2>5. h <= Marked(fd)
      BY <1>3, <1>4, <2>1
  <2>6. FileLocked(Opening(fd, d, mode), Marked(fd), fd)
      BY <1>3, <2>1, <2>3, <2>4, <2>5 DEF FileLocked
  <2> QED
      BY <1>1, <1>13, <2>6 DEF Refused
<1>14. D!Open(fd, x)
    BY <1>1, <1>3, <1>8, <1>10, <1>11, <1>12, <1>13, NotClosing
       DEF D!Open, D!Held, Slots, HeldFds, Closing
<1> QED
    BY <1>3, <1>8, <1>14 DEF D!Next

(* Startup gives a standard descriptor its device.                         *)
LEMMA RedirectRefines ==
    ASSUME FileInv, Redirect
    PROVE  D!Next
<1>0. Closing' = {}
    BY NotClosing DEF Redirect
<1>1. PICK s : s = Streams[filePhase]
    OBVIOUS
<1>2. s \in Standard /\ s \in Fds /\ filePhase \notin {"main", "exit"}
    BY <1>1, StreamFacts, FdFacts DEF Redirect
<1>3. CASE table' = table
    BY <1>0, <1>3, NotClosing DEF Slots, HeldFds
<1>4. ASSUME NEW d \in Find(StdName[s]), NEW fd \in GetFd, Redirected(s, d, fd)
      PROVE  D!Next
  <2>1. d \in Owners
      BY FindOwner
  <2>2. fd \in Fds /\ fd \notin Standard /\ table[fd].dev = NoFile
      BY GetFdFree
  <2>3. PICK e \in Entry :
          /\ IsOpened(e, d, RedirectMode(s)) /\ table' \in [Fds -> Entry]
          /\ \A i \in Fds : table'[i] = IF i = fd THEN FreeFd ELSE IF i = s THEN e ELSE table[i]
      BY <1>2, <1>4, <2>1, RedirectedTable
  <2>4. /\ e.dev # NoFile /\ e.dev = d /\ e.mode = RedirectMode(s) /\ e.excl = FALSE
        /\ RedirectMode(s) \in Modes
      BY <2>1, <2>3, FdFacts DEF IsOpened, RedirectMode, Modes
  <2>5. PICK x : x = [owner |-> d, mode |-> RedirectMode(s)]
      OBVIOUS
  <2>6. x \in D!Entries
      BY <2>1, <2>4, <2>5 DEF D!Entries
  <2>7. SlotOf(table[fd]) = {} /\ SlotOf(e) = {x} /\ SlotOf(FreeFd) = {}
      BY <2>2, <2>4, <2>5, FreeEntry DEF SlotOf
  <2>8. Slots' = [Slots EXCEPT ![s] = {x}]
      BY <1>2, <2>2, <2>3, <2>7, SlotFacts
  <2>9. \A i \in Fds : ~table[i].excl
      BY <1>2 DEF FileInv
  <2>10. \A i \in Fds : ~table'[i].excl
      BY <2>3, <2>4, <2>9, FreeEntry
  <2>11. HeldFds = {} /\ HeldFds' = {}
      BY <2>9, <2>10 DEF HeldFds
  <2>12. D!Redirect(s, x)
      BY <1>0, <1>2, <2>8, <2>11 DEF D!Redirect, Slots, HeldFds, Closing
  <2> QED
      BY <1>2, <2>6, <2>12 DEF D!Next
<1> QED
    BY <1>1, <1>3, <1>4 DEF Redirect

(* Close: a standard descriptor stays, and is held still if it was.        *)
LEMMA CloseRefines ==
    ASSUME FileInv, NEW fd \in Fds, Closed(fd), table[fd].dev # NoFile
    PROVE  D!Next \/ CloseKeepsLock
<1>1. table \in [Fds -> Entry] /\ table' = Released(table, fd)
    BY DEF FileInv, FdTypeOK, Entry, Closed
<1>2. passed'.op = "close" /\ passed'.fd = fd /\ Closing' = {fd}
    BY DEF Closed, Closing
<1>3. SlotOf(table[fd]) # {} /\ Slots[fd] # {}
    BY SlotFacts DEF SlotOf
<1>4. CASE fd \in Standard /\ table[fd].excl
  <2>1. table' = table
      BY <1>1, <1>4 DEF Released
  <2> QED
      BY <1>2, <1>4, <2>1 DEF CloseKeepsLock
<1>5. CASE fd \in Standard /\ ~table[fd].excl
  <2>1. Slots' = Slots /\ HeldFds' = HeldFds /\ HeldFds = HeldFds \ {fd}
      BY <1>1, <1>5 DEF Released, Slots, HeldFds
  <2>2. D!Close(fd)
      BY <1>2, <1>3, <1>5, <2>1 DEF D!Close, Slots, HeldFds, Closing
  <2> QED
      BY <2>2 DEF D!Next
<1>6. CASE fd \notin Standard
  <2>1. \A i \in Fds : table'[i] = IF i = fd THEN FreeFd ELSE table[i]
      BY <1>1, <1>6, ReleasedEntry
  <2>2. SlotOf(FreeFd) = {}
      BY FreeEntry DEF SlotOf
  <2>3. Slots' = [Slots EXCEPT ![fd] = {}]
      BY <2>1, <2>2, SlotFacts
  <2>4. \A i \in Fds : table'[i].excl <=> i # fd /\ table[i].excl
      BY <2>1, FreeEntry
  <2>5. HeldFds' = HeldFds \ {fd}
      BY <2>4 DEF HeldFds
  <2>6. D!Close(fd)
      BY <1>2, <1>3, <1>6, <2>3, <2>5 DEF D!Close, Slots, HeldFds, Closing
  <2> QED
      BY <2>6 DEF D!Next
<1> QED
    BY <1>4, <1>5, <1>6

(* What a change of the flags of one descriptor changes for the pool.      *)
LEMMA FlagsHeld ==
    ASSUME FileInv, NEW fd \in Fds, NEW e \in Entry, table' = [table EXCEPT ![fd] = e],
           e.dev = table[fd].dev, e.mode = table[fd].mode
    PROVE  /\ Slots' = Slots
           /\ HeldFds' = IF e.excl THEN HeldFds \union {fd} ELSE HeldFds \ {fd}
<1>1. table \in [Fds -> Entry]
    BY DEF FileInv, FdTypeOK, Entry
<1>2. \A i \in Fds : table'[i] = IF i = fd THEN e ELSE table[i]
    BY <1>1
<1>3. SlotOf(e) = SlotOf(table[fd])
    BY DEF SlotOf
<1>4. Slots' = Slots
    BY <1>2, <1>3, SlotFacts
<1>5. CASE e.excl
    BY <1>2, <1>4, <1>5 DEF HeldFds
<1>6. CASE ~e.excl
    BY <1>2, <1>4, <1>6 DEF HeldFds
<1> QED
    BY <1>5, <1>6

(* With no other descriptor of the device below the high-water mark, the   *)
(* one at the mark is the only one that can share it.                      *)
LEMMA OnlyTopShares ==
    ASSUME FileInv, NEW fd \in Fds, table[fd].isDevice, Others(fd) = {}
    PROVE  D!Sharing(fd) \subseteq {maxFd}
<1> SUFFICES ASSUME NEW i \in D!Sharing(fd) PROVE i = maxFd
    OBVIOUS
<1>1. i \in Fds /\ i # fd /\ \E x \in Slots[fd], y \in Slots[i] : x.owner = y.owner
    BY DEF D!Sharing, Slots
<1>2. PICK x \in SlotOf(table[fd]), y \in SlotOf(table[i]) : x.owner = y.owner
    BY <1>1, SlotFacts
<1>3. table[fd].dev = x.owner /\ table[i].dev = y.owner /\ table[i].dev # NoFile
    BY <1>2 DEF SlotOf
<1>4. table[i].dev = table[fd].dev
    BY <1>2, <1>3
<1>5. ~(i < maxFd)
    BY <1>1, <1>4 DEF Others
<1>6. i <= maxFd
  <2>1. 2 <= maxFd /\ maxFd \in Int
      BY DEF FileInv, FdTypeOK
  <2>2. CASE i \in Standard
      BY <2>1, <2>2 DEF Standard
  <2>3. CASE i \notin Standard
      BY <1>1, <1>3, <2>3 DEF FileInv
  <2> QED
      BY <2>2, <2>3
<1> QED
    BY <1>1, <1>5, <1>6, FdFacts DEF FileInv, FdTypeOK

(* A lock is granted to one alone, or past the descriptor at the mark.     *)
LEMMA LockRefines ==
    ASSUME FileInv, NEW fd \in Fds, IoctlLock(fd)
    PROVE  D!Next \/ LockPastTop
<1>1. /\ table[fd].isDevice /\ Others(fd) = {} /\ passed' = NotPassed
      /\ table' = [table EXCEPT ![fd].excl = TRUE]
    BY DEF IoctlLock
<1>2. PICK e \in Entry :
        /\ table' = [table EXCEPT ![fd] = e] /\ e.dev = table[fd].dev /\ e.mode = table[fd].mode
        /\ e.excl = TRUE
    BY FlagSteps
<1>3. Slots' = Slots /\ HeldFds' = HeldFds \union {fd} /\ Closing' = {}
    BY <1>1, <1>2, FlagsHeld, NotClosing
<1>4. CASE D!Sharing(fd) = {}
  <2>1. table[fd].dev \in Devices /\ table[fd].dev # NoFile
      BY <1>1, FdFacts DEF FileInv
  <2>2. PICK x : x = [owner |-> table[fd].dev, mode |-> table[fd].mode]
      OBVIOUS
  <2>3. x.owner \in Devices /\ x \in Slots[fd]
      BY <2>1, <2>2, SlotFacts DEF SlotOf
  <2>4. D!Hold(fd)
      BY <1>3, <1>4, <2>3 DEF D!Hold, Slots, HeldFds, Closing
  <2> QED
      BY <2>4 DEF D!Next
<1>5. CASE D!Sharing(fd) # {}
  <2>1. D!Sharing(fd) = {maxFd}
      BY <1>1, <1>5, OnlyTopShares
  <2> QED
      BY <1>1, <2>1 DEF LockPastTop
<1> QED
    BY <1>4, <1>5

LEMMA UnlockRefines ==
    ASSUME FileInv, NEW fd \in Fds, IoctlUnlock(fd)
    PROVE  D!Next
<1>1. passed' = NotPassed
    BY DEF IoctlUnlock
<1>2. PICK e \in Entry :
        /\ table' = [table EXCEPT ![fd] = e] /\ e.dev = table[fd].dev /\ e.mode = table[fd].mode
        /\ e.excl = FALSE
    BY FlagSteps
<1>3. Slots' = Slots /\ HeldFds' = HeldFds \ {fd} /\ Closing' = {}
    BY <1>1, <1>2, FlagsHeld, NotClosing
<1>4. D!GiveBack(fd)
    BY <1>3 DEF D!GiveBack, Slots, HeldFds, Closing
<1> QED
    BY <1>4 DEF D!Next

(* The flags of fcntl are not those of the lock.                           *)
LEMMA FcntlRefines ==
    ASSUME FileInv, NEW fd \in Fds, NEW mode, NEW soft \in BOOLEAN, Fcntl(fd, mode, soft)
    PROVE  D!Next
<1>1. passed' = NotPassed
    BY DEF Fcntl
<1>2. PICK e \in Entry :
        /\ table' = [table EXCEPT ![fd] = e] /\ e.dev = table[fd].dev /\ e.mode = table[fd].mode
        /\ e.isDevice = table[fd].isDevice /\ e.excl = table[fd].excl
    BY FlagSteps, ZenonT(30)
<1>3. Slots' = Slots /\ HeldFds' = HeldFds
    BY <1>2, FlagsHeld DEF HeldFds
<1> QED
    BY <1>1, <1>3, NotClosing

LEMMA FileInitRefines == FileInit => D!Init
<1> SUFFICES ASSUME FileInit PROVE D!Init
    OBVIOUS
<1>1. /\ FileInv
      /\ table = [fd \in Fds |-> IF fd \in Standard
                                THEN Fd(NullDevice, "RDONLY", FALSE, FALSE) ELSE FreeFd]
    BY FileInitInv DEF FileInit
<1>2. table \in [Fds -> Entry]
    BY <1>1 DEF FileInv, FdTypeOK, Entry
<1>3. ASSUME NEW fd \in Fds
      PROVE  Slots[fd] \in {{}} \union {{e} : e \in D!Entries}
               /\ (Slots[fd] # {} <=> fd \in Standard)
  <2>1. table[fd].dev # NoFile <=> fd \in Standard
      BY <1>1, FdFacts, FreeEntry DEF Fd
  <2>2. CASE table[fd].dev = NoFile
      BY <2>1, <2>2, SlotFacts DEF SlotOf
  <2>3. CASE table[fd].dev # NoFile
    <3>1. PICK x : x = [owner |-> table[fd].dev, mode |-> table[fd].mode]
        OBVIOUS
    <3>2. x \in D!Entries
        BY <1>2, <2>3, <3>1 DEF D!Entries, Entry
    <3>3. Slots[fd] = {x}
        BY <2>3, <3>1, SlotFacts DEF SlotOf
    <3> QED
        BY <2>1, <2>3, <3>2, <3>3
  <2> QED
      BY <2>2, <2>3
<1>4. Slots \in [Fds -> {{}} \union {{e} : e \in D!Entries}]
    BY <1>3 DEF Slots
<1>5. HeldFds = {}
    BY <1>1 DEF HeldFds, FileInv, FileInit
<1>6. \A fd \in Fds : Slots[fd] # {} <=> fd \in Standard
    BY <1>3
<1>7. Closing = {}
    BY DEF FileInit, NotPassed, Closing
<1> QED
    BY <1>4, <1>5, <1>6, <1>7 DEF D!Init, Slots, HeldFds, Closing

LEMMA FileStepRefines ==
    FileInv /\ [FileNext]_fileVars => [D!Next \/ LockPastTop \/ CloseKeepsLock]_(D!vars)
<1> SUFFICES ASSUME FileInv, [FileNext]_fileVars
             PROVE  \/ D!Next \/ LockPastTop \/ CloseKeepsLock
                    \/ Slots' = Slots /\ HeldFds' = HeldFds /\ Closing' = Closing
    BY DEF D!vars, Slots, HeldFds, Closing
<1>1. CASE Redirect
    BY <1>1, RedirectRefines
<1>2. CASE Exit
  <2>1. Closed(1) /\ 1 \in Fds /\ 1 \in Standard
      BY <1>2, FdFacts DEF Exit, Standard
  <2>2. table[1].dev # NoFile
      BY <2>1 DEF FileInv, NoLeak
  <2> QED
      BY <2>1, <2>2, CloseRefines
<1>3. CASE UNCHANGED fileVars
    BY <1>3 DEF Slots, HeldFds, Closing, fileVars
<1>4. ASSUME NEW name, NEW mode \in Modes, OpenSucceeds(name, mode) PROVE D!Next
    BY <1>4, OpenRefines
<1>5. ASSUME NEW name, NEW mode \in Modes, FileOpenFails(name, mode) PROVE D!Next
  <2>1. \A i \in Fds : /\ table'[i].excl = table[i].excl /\ table'[i].dev = table[i].dev
                       /\ table[i].dev # NoFile => table'[i].mode = table[i].mode
      BY <1>5, OpenFailsInv
  <2>2. \A i \in Fds : SlotOf(table'[i]) = SlotOf(table[i])
      BY <2>1 DEF SlotOf
  <2>3. Slots' = Slots /\ HeldFds' = HeldFds
      BY <2>1, <2>2, SlotFacts DEF HeldFds
  <2>4. passed' = NotPassed
      BY <1>5 DEF FileOpenFails
  <2> QED
      BY <2>3, <2>4, NotClosing
<1>6. ASSUME NEW fd \in Fds, Close(fd) PROVE D!Next \/ CloseKeepsLock
    BY <1>6, CloseRefines DEF Close
<1>7. ASSUME NEW fd \in Fds, NEW op \in {"read", "write", "lseek", "fstat", "ioctl"},
             DriverCall(fd, op)
      PROVE  D!Next
  <2>1. table' = table /\ passed' = [fd |-> fd, op |-> op] /\ op # "close"
      BY <1>7 DEF DriverCall
  <2>2. Slots' = Slots /\ HeldFds' = HeldFds /\ Closing' = {}
      BY <2>1 DEF Slots, HeldFds, Closing
  <2> QED
      BY <2>2, NotClosing
<1> QED
    BY <1>1, <1>2, <1>3, <1>4, <1>5, <1>6, <1>7, LockRefines, UnlockRefines, FcntlRefines
       DEF FileNext, Stopped

(* But for a lock that is granted although the descriptor at the high-     *)
(* water mark shares the device, and one that a standard descriptor keeps  *)
(* past its close, the pool does what is documented of open, close and     *)
(* ioctl; it leaks no descriptor and hands none out twice, and no driver   *)
(* is read or written against the access mode that was asked for: for any  *)
(* devices, file systems, names and drivers, and whatever the drivers      *)
(* report.                                                                 *)
THEOREM FilesKeptAlways == FileSpec => FilesKept
<1>1. FileInv => NoLeak /\ AccessRespected
    BY DEF FileInv
<1> QED
    BY <1>1, FileInitInv, FileStepInv, FileInitRefines, FileStepRefines, PTL
       DEF FileSpec, FilesKept, TableImplements
-----------------------------------------------------------------------------
(* The data cache, for any lines, places, regions and blocks, and any      *)
(* words of the interrupt routines.                                        *)

(* A word that bypasses the cache is in memory and not in the cache; of    *)
(* another the cache has the last value, or memory has it.                 *)
WordSound(w) ==
    LET entry == cache[Place(LineOf(w))]
    IN IF w \in uncached THEN memory[w] /\ ~CacheHit(w)
       ELSE IF CacheHit(w) THEN entry.data[w % LineWords] /\ (memory[w] \/ entry.dirty)
       ELSE memory[w]

AllSound == \A w \in Words : WordSound(w)

(* The lines of a flush: the first, and the one whose turn is next.        *)
FirstLine == LineOf(flush.region.start)
NextLine == IF flush.region.start % LineWords # 0 /\ ~flush.more
            THEN LineOf(flush.i) + 1 ELSE LineOf(flush.i)

(* Does a line of the flush so far stand for line l?  A flush by place     *)
(* takes a line with every other one of its place.                         *)
ByPlace == flush.op = "all" \/ ~flushda
Flushed(l) == \E m \in FirstLine..(NextLine - 1) : IF ByPlace THEN Place(m) = Place(l) ELSE m = l

(* The loop of a flush.                                                    *)
FlushLoop ==
    /\ flush.region.start \in Nat /\ flush.region.len \in Nat
    /\ RegionWords(flush.region) \subseteq Words
    /\ flush.i \in Nat /\ flush.end \in Nat /\ flush.more \in BOOLEAN
    /\ flush.i >= flush.region.start
    /\ flush.i % LineWords = flush.region.start % LineWords
    /\ flush.more => flush.region.start % LineWords # 0
    /\ flush.region.start % LineWords # 0 /\ flush.i < flush.end => flush.more
    /\ CASE flush.op = "all" -> flush.region = NoRegion /\ flush.end = CacheSize
         [] flush.op = "discard" -> /\ flush.region \in Discarded
                                    /\ flush.end = flush.region.start + flush.region.len
         [] OTHER -> flush.end = flush.region.start + Trimmed(flush.region.len)

FlushInv ==
    /\ flush = [op |-> flush.op, region |-> flush.region, i |-> flush.i, end |-> flush.end,
                more |-> flush.more]
    /\ flush.op \in {"none", "flush", "discard", "all", "remap"}
    /\ flush.op # "none" => FlushLoop
    /\ flush.op = "remap" =>
         /\ flush.region \in CacheBlocks
         /\ \A w \in RegionWords(flush.region) : Flushed(LineOf(w)) => ~CacheHit(w)
    /\ flush.op \in {"flush", "all", "remap"} =>
         \A w \in Words \ IsrWords : Flushed(LineOf(w)) => memory[w]

CacheTyped ==
    /\ flushda \in BOOLEAN /\ memory \in [Words -> BOOLEAN] /\ uncached \subseteq Words
    /\ cache \in [0..(CacheLines - 1) ->
                    [line : Lines, dirty : BOOLEAN, data : [0..(LineWords - 1) -> BOOLEAN]]]
    /\ \A k \in 0..(CacheLines - 1) : cache[k].line # NoLine => Place(cache[k].line) = k

CacheInv ==
    /\ CacheTyped /\ FlushInv
    /\ AllSound
    /\ \A w \in uncached, v \in Words : LineOf(v) = LineOf(w) => v \in uncached

Places == 0..(CacheLines - 1)
Offsets == 0..(LineWords - 1)
Entries == [line : Lines, dirty : BOOLEAN, data : [Offsets -> BOOLEAN]]

LEMMA CacheSizes ==
    /\ LineWords \in Nat \ {0} /\ CacheLines \in Nat \ {0} /\ MemLines \in Nat
    /\ Words \subseteq Nat /\ NoLine \notin Nat /\ Lines \subseteq Int /\ NoLine \in Lines
    /\ \A l \in Int : Place(l) \in Places
    /\ \A a \in Int : LineOf(a) \in Int
    /\ \A a \in Nat : LineOf(a) \in Nat
<1>1. LineWords \in Nat \ {0} /\ CacheLines \in Nat \ {0} /\ MemLines \in Nat
    BY CacheAssumption
<1>2. LineWords * MemLines \in Nat /\ MemLines * LineWords \in Nat
    BY <1>1
<1>3. Words \subseteq Nat /\ NoLine \notin Nat /\ Lines \subseteq Int /\ NoLine \in Lines
    BY <1>1, <1>2 DEF Words, NoLine, Lines
<1>4. ASSUME NEW l \in Int PROVE Place(l) \in Places
    BY <1>1, Quotients DEF Place, Places
<1>5. ASSUME NEW a \in Int PROVE LineOf(a) \in Int
    BY <1>1, Quotients DEF LineOf
<1>6. ASSUME NEW a \in Nat PROVE LineOf(a) \in Nat
  <2>1. 0 \div LineWords = 0 /\ 0 \in Int /\ a \in Int /\ 0 <= a
      BY <1>1
  <2>2. 0 \div LineWords <= a \div LineWords
      BY <1>1, <2>1, Quotients
  <2> QED
      BY <1>5, <2>1, <2>2 DEF LineOf
<1> QED
    BY <1>1, <1>3, <1>4, <1>5, <1>6

(* A word is the one at its offset in its line.                            *)
LEMMA WordPlace ==
    ASSUME NEW w \in Words
    PROVE  /\ LineOf(w) \in 0..(MemLines - 1) /\ LineOf(w) \in Lines /\ LineOf(w) # NoLine
           /\ Place(LineOf(w)) \in Places
           /\ w % LineWords \in Offsets /\ w = LineOf(w) * LineWords + (w % LineWords)
<1>1. LineWords \in Nat \ {0} /\ MemLines \in Nat /\ w \in Nat
    BY CacheSizes
<1>2. w % LineWords \in Offsets /\ w = LineOf(w) * LineWords + (w % LineWords) /\ LineOf(w) \in Nat
  <2>1. LineOf(w) \in Nat
      BY <1>1, CacheSizes
  <2>2. w \in Int
      BY <1>1
  <2>3. w % LineWords \in 0..(LineWords - 1) /\ w = (w \div LineWords) * LineWords + (w % LineWords)
      BY <1>1, <2>2, Quotients
  <2> QED
      BY <2>1, <2>3 DEF Offsets, LineOf
<1>3. LineOf(w) <= MemLines - 1
  <2>1. SUFFICES ASSUME LineOf(w) >= MemLines PROVE FALSE
      BY <1>1, <1>2
  <2>2. ASSUME NEW a \in Int, NEW b \in Int, a >= b PROVE a * LineWords >= b * LineWords
      BY <1>1, <2>2
  <2>3. LineOf(w) * LineWords >= MemLines * LineWords
      BY <1>1, <1>2, <2>1, <2>2
  <2>4. MemLines * LineWords \in Int /\ LineOf(w) * LineWords \in Int
      BY <1>1, <1>2
  <2>5. w <= MemLines * LineWords - 1
      BY <2>4 DEF Words
  <2> QED
      BY <1>1, <1>2, <2>3, <2>4, <2>5 DEF Offsets
<1>4. LineOf(w) \in 0..(MemLines - 1) /\ LineOf(w) \in Lines /\ LineOf(w) # NoLine
    BY <1>1, <1>2, <1>3 DEF Lines, NoLine
<1> QED
    BY <1>1, <1>2, <1>4, CacheSizes

LEMMA OfLine ==
    ASSUME NEW w \in Words, NEW l \in Lines
    PROVE  w \in WordsOf(l) <=> LineOf(w) = l
<1>1. LineWords \in Nat \ {0} /\ l \in Int
    BY CacheSizes
<1>2. ASSUME NEW j \in Offsets, w = l * LineWords + j PROVE LineOf(w) = l
    BY <1>1, <1>2, Quotients DEF Offsets, LineOf
<1>3. w % LineWords \in Offsets /\ w = LineOf(w) * LineWords + (w % LineWords)
    BY WordPlace
<1> QED
    BY <1>2, <1>3 DEF WordsOf, Offsets

LEMMA SameWord ==
    ASSUME NEW w \in Words, NEW v \in Words, LineOf(w) = LineOf(v), w % LineWords = v % LineWords
    PROVE  w = v
BY WordPlace

(* What a place holds goes to memory: all words of the place are there.    *)
LEMMA WrittenBackTrue ==
    ASSUME CacheTyped, AllSound, NEW k \in Places
    PROVE  /\ WrittenBack(k) \in [Words -> BOOLEAN]
           /\ \A w \in Words : /\ memory[w] => WrittenBack(k)[w]
                               /\ Place(LineOf(w)) = k => WrittenBack(k)[w]
<1>1. /\ cache[k] \in Entries /\ cache[k].line \in Lines
      /\ cache[k].line # NoLine => Place(cache[k].line) = k
    BY DEF CacheTyped, Entries, Places, Offsets
<1>0. PICK m : m = WrittenBack(k)
    OBVIOUS
<1>2. ASSUME NEW w \in Words
      PROVE  /\ m[w] \in BOOLEAN /\ memory[w] => m[w]
             /\ Place(LineOf(w)) = k => m[w]
  <2>1. /\ LineOf(w) \in Lines /\ LineOf(w) # NoLine /\ w % LineWords \in Offsets
        /\ memory[w] \in BOOLEAN
      BY WordPlace DEF CacheTyped
  <2>2. m[w] = IF cache[k].dirty /\ LineOf(w) = cache[k].line
                            THEN cache[k].data[w % LineWords] ELSE memory[w]
      BY <1>0, <1>1, OfLine DEF WrittenBack
  <2>3. cache[k].data[w % LineWords] \in BOOLEAN /\ cache[k].dirty \in BOOLEAN
      BY <1>1, <2>1 DEF Entries
  <2>4. CASE LineOf(w) = cache[k].line
    <3>1. Place(LineOf(w)) = k /\ CacheHit(w)
        BY <1>1, <2>1, <2>4 DEF CacheHit
    <3>2. cache[k].data[w % LineWords] /\ (memory[w] \/ cache[k].dirty)
        BY <3>1 DEF WordSound, AllSound
    <3>3. CASE cache[k].dirty
      <4>1. m[w] = cache[k].data[w % LineWords]
          BY <2>2, <2>4, <3>3
      <4> QED
          BY <2>3, <3>2, <4>1
    <3>4. CASE ~cache[k].dirty
      <4>1. m[w] = memory[w]
          BY <2>2, <3>4
      <4> QED
          BY <2>1, <3>2, <3>4, <4>1
    <3> QED
        BY <3>3, <3>4
  <2>5. CASE LineOf(w) # cache[k].line
    <3>1. m[w] = memory[w]
        BY <2>2, <2>5
    <3>2. Place(LineOf(w)) = k => ~CacheHit(w)
        BY <2>5 DEF CacheHit
    <3>3. Place(LineOf(w)) = k => memory[w]
        BY <3>2 DEF WordSound, AllSound
    <3> QED
        BY <2>1, <3>1, <3>3
  <2> QED
      BY <2>4, <2>5
<1>3. m = [w \in Words |-> m[w]]
    BY <1>0 DEF WrittenBack
<1>4. m \in [Words -> BOOLEAN]
  <2>1. cache[k].data \in [Offsets -> BOOLEAN] /\ memory \in [Words -> BOOLEAN]
      BY <1>1 DEF CacheTyped, Entries
  <2>2. \A w \in Words : w % LineWords \in Offsets
      BY WordPlace
  <2> QED
      BY <1>0, <2>1, <2>2 DEF WrittenBack
<1> QED
    BY <1>0, <1>2, <1>4

LEMMA TypedCache ==
    CacheTyped <=> /\ flushda \in BOOLEAN /\ memory \in [Words -> BOOLEAN]
                   /\ uncached \subseteq Words
                   /\ cache \in [Places -> Entries]
                   /\ \A k \in Places : cache[k].line # NoLine => Place(cache[k].line) = k
BY DEF CacheTyped, Places, Entries, Offsets

LEMMA TypedCacheNext ==
    CacheTyped' <=> /\ flushda' \in BOOLEAN /\ memory' \in [Words -> BOOLEAN]
                    /\ uncached' \subseteq Words
                    /\ cache' \in [Places -> Entries]
                    /\ \A k \in Places : cache'[k].line # NoLine => Place(cache'[k].line) = k
BY DEF CacheTyped, Places, Entries, Offsets

(* A place written back and given another line, or none, is sound again.   *)
LEMMA Replaced ==
    ASSUME CacheTyped, AllSound, NEW k \in Places, NEW c \in Entries,
           memory' = WrittenBack(k), cache' = [cache EXCEPT ![k] = c],
           UNCHANGED <<flushda, uncached>>,
           c.line # NoLine => /\ Place(c.line) = k
                              /\ \A w \in Words : LineOf(w) = c.line =>
                                   w \notin uncached /\ c.data[w % LineWords] = memory'[w]
    PROVE  /\ CacheTyped' /\ AllSound'
           /\ \A w \in Words : (memory[w] => memory'[w]) /\ (Place(LineOf(w)) = k => memory'[w])
           /\ \A w \in Words : c.line # LineOf(w) /\ (~CacheHit(w) \/ Place(LineOf(w)) = k) =>
                cache'[Place(LineOf(w))].line # LineOf(w)
<1>1. /\ memory' \in [Words -> BOOLEAN]
      /\ \A w \in Words : (memory[w] => memory'[w]) /\ (Place(LineOf(w)) = k => memory'[w])
    BY WrittenBackTrue
<1>2. /\ cache \in [Places -> Entries] /\ flushda \in BOOLEAN /\ uncached \subseteq Words
      /\ \A j \in Places : cache[j].line # NoLine => Place(cache[j].line) = j
    BY TypedCache
<1>3. cache' \in [Places -> Entries] /\ \A j \in Places : cache'[j] = IF j = k THEN c ELSE cache[j]
    BY <1>2
<1>4. CacheTyped'
    BY <1>1, <1>2, <1>3, TypedCacheNext
<1>5. ASSUME NEW w \in Words
      PROVE  /\ WordSound(w)'
             /\ c.line # LineOf(w) /\ (~CacheHit(w) \/ Place(LineOf(w)) = k) =>
                  cache'[Place(LineOf(w))].line # LineOf(w)
  <2>1. PICK p \in Places : p = Place(LineOf(w))
      BY WordPlace
  <2>2. LineOf(w) # NoLine
      BY WordPlace
  <2>3. CASE p = k
    <3>1. /\ cache'[p] = c /\ (CacheHit(w)' <=> c.line = LineOf(w))
          /\ memory'[w]
        BY <1>1, <1>3, <2>1, <2>3 DEF CacheHit
    <3>2. c.line = LineOf(w) => w \notin uncached /\ c.data[w % LineWords]
        BY <2>2, <3>1
    <3>3. WordSound(w)'
        BY <2>1, <3>1, <3>2 DEF WordSound
    <3>4. cache'[Place(LineOf(w))].line = c.line
        BY <2>1, <3>1
    <3> QED
        BY <3>3, <3>4
  <2>4. CASE p # k
    <3>1. cache'[p] = cache[p] /\ (CacheHit(w)' <=> CacheHit(w)) /\ (memory[w] => memory'[w])
        BY <1>1, <1>3, <2>1, <2>4 DEF CacheHit
    <3>2. WordSound(w)
        BY DEF AllSound
    <3>3. WordSound(w)'
        BY <2>1, <3>1, <3>2 DEF WordSound
    <3>4. cache'[Place(LineOf(w))].line = LineOf(w) <=> CacheHit(w)
        BY <2>1, <3>1 DEF CacheHit
    <3> QED
        BY <2>1, <2>4, <3>3, <3>4
  <2> QED
      BY <2>3, <2>4
<1>6. AllSound'
    BY <1>5 DEF AllSound
<1>7. \A w \in Words : c.line # LineOf(w) /\ (~CacheHit(w) \/ Place(LineOf(w)) = k) =>
         cache'[Place(LineOf(w))].line # LineOf(w)
    BY <1>5
<1> QED
    BY <1>1, <1>4, <1>6, <1>7

(* A line of memory, and no line, as an entry of the cache.                *)
LEMMA LoadedLine ==
    ASSUME NEW m \in [Words -> BOOLEAN], NEW w \in Words, NEW c, c = Loaded(m, LineOf(w))
    PROVE  /\ c \in Entries /\ c.line = LineOf(w) /\ c.dirty = FALSE
           /\ \A v \in Words : LineOf(v) = LineOf(w) => c.data[v % LineWords] = m[v]
<1>1. LineOf(w) \in Lines /\ LineOf(w) \in 0..(MemLines - 1)
    BY WordPlace
<1>2. ASSUME NEW j \in Offsets PROVE LineOf(w) * LineWords + j \in Words
  <2>1. LineWords \in Nat \ {0} /\ MemLines \in Nat /\ MemLines >= 1
      BY <1>1, CacheSizes
  <2>2. ASSUME NEW a \in Int, NEW b \in Int, a <= b PROVE a * LineWords <= b * LineWords
      BY <2>1, <2>2
  <2>3. LineOf(w) * LineWords <= (MemLines - 1) * LineWords
          /\ 0 * LineWords <= LineOf(w) * LineWords
      BY <1>1, <2>1, <2>2
  <2>4. /\ (MemLines - 1) * LineWords = MemLines * LineWords - LineWords
        /\ MemLines * LineWords \in Int /\ LineOf(w) * LineWords \in Int
      BY <1>1, <2>1
  <2> QED
      BY <2>1, <2>3, <2>4 DEF Offsets, Words
<1>3. PICK d : d = [j \in Offsets |-> m[LineOf(w) * LineWords + j]]
    OBVIOUS
<1>4. d \in [Offsets -> BOOLEAN]
    BY <1>2, <1>3
<1>5. c = [line |-> LineOf(w), dirty |-> FALSE, data |-> d]
    BY <1>3 DEF Loaded, Offsets
<1>6. c \in Entries /\ c.line = LineOf(w) /\ c.dirty = FALSE /\ c.data = d
    BY <1>1, <1>4, <1>5 DEF Entries
<1>7. ASSUME NEW v \in Words, LineOf(v) = LineOf(w) PROVE c.data[v % LineWords] = m[v]
    BY <1>3, <1>6, <1>7, WordPlace
<1> QED
    BY <1>6, <1>7

LEMMA EmptyEntry == Empty \in Entries /\ Empty.line = NoLine
BY CacheSizes DEF Empty, Entries, Offsets

(* Between two steps of a flush: what it has brought to memory stays there,*)
(* and what it has taken out of the cache stays out.                       *)
LEMMA FlushKept ==
    ASSUME FlushInv, UNCHANGED <<flushda, flush>>,
           flush.op # "none" => \A w \in Words \ IsrWords : memory[w] => memory'[w],
           flush.op = "remap" => \A w \in RegionWords(flush.region) :
             ~CacheHit(w) => cache'[Place(LineOf(w))].line # LineOf(w)
    PROVE  FlushInv'
<1>1. \A l : Flushed(l)' <=> Flushed(l)
    BY DEF Flushed, FirstLine, NextLine, ByPlace
<1>2. FlushLoop => FlushLoop'
    BY DEF FlushLoop, Trimmed, RegionWords
<1>3. flush.op = "remap" =>
         /\ flush.region \in CacheBlocks
         /\ \A w \in RegionWords(flush.region) : Flushed(LineOf(w)) => ~CacheHit(w)
    BY DEF FlushInv
<1>4. flush.op \in {"flush", "all", "remap"} =>
         \A w \in Words \ IsrWords : Flushed(LineOf(w)) => memory[w]
    BY DEF FlushInv
<1>5. flush'.op = "remap" =>
         /\ flush'.region \in CacheBlocks
         /\ \A w \in RegionWords(flush'.region) : Flushed(LineOf(w))' => ~CacheHit(w)'
    BY <1>1, <1>3 DEF CacheHit
<1>6. flush'.op \in {"flush", "all", "remap"} =>
         \A w \in Words \ IsrWords : Flushed(LineOf(w))' => memory'[w]
    BY <1>1, <1>4
<1>7. flush' = [op |-> flush'.op, region |-> flush'.region, i |-> flush'.i, end |-> flush'.end,
                more |-> flush'.more]
    BY DEF FlushInv
<1>8. /\ flush'.op \in {"none", "flush", "discard", "all", "remap"}
      /\ flush'.op # "none" => FlushLoop'
    BY <1>2 DEF FlushInv
<1> QED
    BY <1>5, <1>6, <1>7, <1>8 DEF FlushInv

(* A block that fills its lines has all the words of each.                 *)
LEMMA BlockLines ==
    ASSUME BlocksAssumed, NEW b \in CacheBlocks, NEW w \in RegionWords(b)
    PROVE  w \in Words /\ \A v \in Words : LineOf(v) = LineOf(w) => v \in RegionWords(b)
<1>1. /\ b.start \in Words /\ b.len \in Nat /\ b.start + b.len - 1 \in Words
      /\ b.start % LineWords = 0 /\ b.len % LineWords = 0
    BY CacheAssumption DEF BlocksAssumed
<1>2. LineWords \in Nat \ {0} /\ b.start \in Int /\ b.len \in Int /\ MemLines * LineWords \in Int
  <2>1. LineWords \in Nat \ {0} /\ MemLines \in Nat /\ Words \subseteq Nat
      BY CacheSizes
  <2>2. MemLines * LineWords \in Int
      BY <2>1
  <2>3. b.start \in Nat
      BY <1>1, <2>1
  <2>4. b.len \in Nat
      BY <1>1
  <2> QED
      BY <2>1, <2>2, <2>3, <2>4
<1>3. w \in Words
    BY <1>1, <1>2 DEF RegionWords, Words
<1>4. PICK a \in Int : b.start = a * LineWords
  <2>1. b.start \div LineWords \in Int
          /\ b.start = (b.start \div LineWords) * LineWords + (b.start % LineWords)
      BY <1>2, Quotients
  <2>2. (b.start \div LineWords) * LineWords \in Int
      BY <1>2, <2>1
  <2> QED
      BY <1>1, <2>1, <2>2
<1>5. PICK n \in Int : b.len = n * LineWords
  <2>1. b.len \div LineWords \in Int
          /\ b.len = (b.len \div LineWords) * LineWords + (b.len % LineWords)
      BY <1>2, Quotients
  <2>2. (b.len \div LineWords) * LineWords \in Int
      BY <1>2, <2>1
  <2> QED
      BY <1>1, <2>1, <2>2
<1>6. ASSUME NEW v \in Words, LineOf(v) = LineOf(w) PROVE v \in RegionWords(b)
  <2>1. PICK l \in Int, i \in Offsets, j \in Offsets :
          w = l * LineWords + i /\ v = l * LineWords + j
      BY <1>3, <1>6, WordPlace, CacheSizes, ZenonT(30)
  <2>2. ASSUME NEW d \in Int, d >= 1 PROVE d * LineWords >= LineWords
      BY <1>2, <2>2
  <2>3. /\ b.start <= w /\ w <= b.start + b.len - 1 /\ w \in Int /\ v \in Int
      BY <1>1, <1>2, <1>3, CacheSizes DEF RegionWords
  <2>4. l >= a
    <3>1. SUFFICES ASSUME a - l >= 1 PROVE FALSE
        OBVIOUS
    <3>2. (a - l) * LineWords = a * LineWords - l * LineWords /\ (a - l) * LineWords >= LineWords
        BY <1>2, <2>2, <3>1
    <3> QED
        BY <1>2, <1>4, <2>1, <2>3, <3>2 DEF Offsets
  <2>5. l <= a + n - 1
    <3>1. SUFFICES ASSUME l - (a + n) >= 0 PROVE FALSE
        OBVIOUS
    <3>2. (l - (a + n)) * LineWords = l * LineWords - a * LineWords - n * LineWords
        BY <1>2
    <3>3. (l - (a + n)) * LineWords >= 0
        BY <1>2, <3>1
    <3> QED
        BY <1>2, <1>4, <1>5, <2>1, <2>3, <3>2, <3>3 DEF Offsets
  <2>6. (l - a) * LineWords = l * LineWords - a * LineWords /\ (l - a) * LineWords >= 0
      BY <1>2, <2>4
  <2>7. /\ (a + n - 1 - l) * LineWords = a * LineWords + n * LineWords - LineWords - l * LineWords
        /\ (a + n - 1 - l) * LineWords >= 0
      BY <1>2, <2>5
  <2> QED
      BY <1>2, <1>4, <1>5, <2>1, <2>3, <2>6, <2>7 DEF RegionWords, Offsets
<1> QED
    BY <1>3, <1>6

(* No line of a block that is being remapped is loaded again: the routines *)
(* that run in between do not use it.                                      *)
LEMMA NotOfBlock ==
    ASSUME BlocksAssumed, CacheInv, NEW w \in Words, MayRun(w), flush.op = "remap",
           NEW v \in RegionWords(flush.region)
    PROVE  v \in Words /\ LineOf(v) # LineOf(w)
<1>1. w \in IsrWords /\ flush.region \in CacheBlocks
    BY DEF MayRun, CacheInv, FlushInv
<1>2. v \in Words /\ \A x \in Words : LineOf(x) = LineOf(v) => x \in RegionWords(flush.region)
    BY <1>1, BlockLines
<1>3. w \notin RegionWords(flush.region)
    BY <1>1 DEF BlocksAssumed
<1> QED
    BY <1>2, <1>3

LEMMA ReadInv == ASSUME BlocksAssumed, CacheInv, NEW w \in Words, Read(w) PROVE CacheInv'
<1>1. PICK k \in Places : k = Place(LineOf(w))
    BY WordPlace
<1>2. /\ MayRun(w) /\ w \notin uncached /\ memory' = WrittenBack(k)
      /\ cache' = [cache EXCEPT ![k] = Loaded(memory', LineOf(w))]
      /\ UNCHANGED <<flushda, uncached, flush>>
    BY <1>1 DEF Read
<1>3. CacheTyped /\ AllSound /\ FlushInv
    BY DEF CacheInv
<1>4. memory' \in [Words -> BOOLEAN]
    BY <1>2, <1>3, WrittenBackTrue
<1>5. PICK c : c = Loaded(memory', LineOf(w))
    OBVIOUS
<1>6. /\ c \in Entries /\ c.line = LineOf(w)
      /\ \A v \in Words : LineOf(v) = LineOf(w) => c.data[v % LineWords] = memory'[v]
    BY <1>4, <1>5, LoadedLine, ZenonT(30)
<1>7. \A v \in Words : LineOf(v) = LineOf(w) => v \notin uncached
    BY <1>2 DEF CacheInv
<1>a. cache' = [cache EXCEPT ![k] = c] /\ UNCHANGED <<flushda, uncached>>
    BY <1>2, <1>5
<1>b. c.line # NoLine => /\ Place(c.line) = k
                         /\ \A v \in Words : LineOf(v) = c.line =>
                              v \notin uncached /\ c.data[v % LineWords] = memory'[v]
    BY <1>1, <1>6, <1>7
<1>c. memory' = WrittenBack(k)
    BY <1>2
<1>8. /\ CacheTyped' /\ AllSound'
      /\ \A v \in Words : memory[v] => memory'[v]
      /\ \A v \in Words : c.line # LineOf(v) /\ ~CacheHit(v) =>
           cache'[Place(LineOf(v))].line # LineOf(v)
    BY <1>3, <1>6, <1>a, <1>b, <1>c, Replaced
<1>9. flush.op = "remap" => \A v \in RegionWords(flush.region) :
             ~CacheHit(v) => cache'[Place(LineOf(v))].line # LineOf(v)
    BY <1>2, <1>6, <1>8, NotOfBlock
<1>10. FlushInv'
    BY <1>2, <1>3, <1>8, <1>9, FlushKept
<1> QED
    BY <1>2, <1>8, <1>10 DEF CacheInv

LEMMA WriteInv == ASSUME BlocksAssumed, CacheInv, NEW w \in Words, Write(w) PROVE CacheInv'
<1>1. PICK k \in Places : k = Place(LineOf(w))
    BY WordPlace
<1>2. PICK old : old = IF CacheHit(w) THEN memory ELSE WrittenBack(k)
    OBVIOUS
<1>3. PICK held : held = IF CacheHit(w) THEN cache[k] ELSE Loaded(old, LineOf(w))
    OBVIOUS
<1>4. PICK c : c = [held EXCEPT !.dirty = TRUE, !.data[w % LineWords] = TRUE]
    OBVIOUS
<1>5. /\ MayRun(w) /\ w \notin uncached /\ UNCHANGED <<flushda, uncached, flush>>
      /\ memory' = [old EXCEPT ![w] = FALSE] /\ cache' = [cache EXCEPT ![k] = c]
    BY <1>1, <1>2, <1>3, <1>4 DEF Write
<1>6. CacheTyped /\ AllSound /\ FlushInv
    BY DEF CacheInv
<1>7. /\ memory \in [Words -> BOOLEAN] /\ cache \in [Places -> Entries] /\ flushda \in BOOLEAN
      /\ \A j \in Places : cache[j].line # NoLine => Place(cache[j].line) = j
      /\ uncached \subseteq Words
    BY <1>6, TypedCache
<1>8. /\ old \in [Words -> BOOLEAN]
      /\ \A v \in Words : memory[v] => old[v]
      /\ \A v \in Words : Place(LineOf(v)) = k => old[v] \/ CacheHit(w)
    BY <1>2, <1>6, <1>7, WrittenBackTrue
<1>9. \A v \in Words : LineOf(v) = LineOf(w) => v \notin uncached
    BY <1>5 DEF CacheInv
<1>10. /\ held \in Entries /\ held.line = LineOf(w)
       /\ \A v \in Words : LineOf(v) = LineOf(w) => held.data[v % LineWords]
  <2>1. CASE CacheHit(w)
    <3>1. held = cache[k] /\ held \in Entries /\ held.line = LineOf(w)
        BY <1>1, <1>3, <1>7, <2>1 DEF CacheHit
    <3>2. ASSUME NEW v \in Words, LineOf(v) = LineOf(w) PROVE held.data[v % LineWords]
      <4>1. CacheHit(v) /\ v \notin uncached /\ WordSound(v)
          BY <1>1, <1>6, <1>9, <2>1, <3>1, <3>2 DEF CacheHit, AllSound
      <4> QED
          BY <1>1, <3>1, <3>2, <4>1 DEF WordSound
    <3> QED
        BY <3>1, <3>2
  <2>2. CASE ~CacheHit(w)
    <3>1. held = Loaded(old, LineOf(w))
        BY <1>3, <2>2
    <3>o. old \in [Words -> BOOLEAN]
        BY <1>8
    <3>2. /\ held \in Entries /\ held.line = LineOf(w)
          /\ \A v \in Words : LineOf(v) = LineOf(w) => held.data[v % LineWords] = old[v]
        BY <3>o, <3>1, LoadedLine, ZenonT(30)
    <3>3. \A v \in Words : LineOf(v) = LineOf(w) => old[v]
        BY <1>1, <1>8, <2>2
    <3> QED
        BY <3>2, <3>3
  <2> QED
      BY <2>1, <2>2
<1>11. /\ c \in Entries /\ c.line = LineOf(w) /\ c.dirty
       /\ \A v \in Words : LineOf(v) = LineOf(w) => c.data[v % LineWords]
  <2>1. PICK d \in [Offsets -> BOOLEAN] : d = held.data
      BY <1>10 DEF Entries
  <2>2. w % LineWords \in Offsets
      BY WordPlace
  <2>3. PICK e : e = [d EXCEPT ![w % LineWords] = TRUE]
      OBVIOUS
  <2>4. /\ e \in [Offsets -> BOOLEAN] /\ \A j \in Offsets : d[j] => e[j]
      BY <2>1, <2>2, <2>3
  <2>5. c = [held EXCEPT !.dirty = TRUE, !.data = e]
      BY <1>4, <1>10, <2>1, <2>3 DEF Entries
  <2>6. c \in Entries /\ c.line = LineOf(w) /\ c.dirty = TRUE /\ c.data = e
      BY <1>10, <2>4, <2>5 DEF Entries
  <2>7. \A v \in Words : v % LineWords \in Offsets
      BY WordPlace
  <2> QED
      BY <1>10, <2>1, <2>4, <2>6, <2>7
<1>12. /\ cache' \in [Places -> Entries]
       /\ \A j \in Places : cache'[j] = IF j = k THEN c ELSE cache[j]
    BY <1>5, <1>7, <1>11
<1>13. memory' \in [Words -> BOOLEAN] /\ \A v \in Words : v # w => memory'[v] = old[v]
    BY <1>5, <1>8
<1>14. LineOf(w) # NoLine
    BY WordPlace
<1>15. CacheTyped'
    BY <1>1, <1>5, <1>7, <1>11, <1>12, <1>13, TypedCacheNext
<1>16. ASSUME NEW v \in Words PROVE WordSound(v)'
  <2>1. PICK p \in Places : p = Place(LineOf(v))
      BY WordPlace
  <2>2. WordSound(v)
      BY <1>6 DEF AllSound
  <2>3. CASE p = k /\ LineOf(v) = LineOf(w)
    <3>1. cache'[p] = c /\ CacheHit(v)' /\ v \notin uncached'
        BY <1>5, <1>9, <1>11, <1>12, <2>1, <2>3 DEF CacheHit
    <3> QED
        BY <1>11, <2>1, <2>3, <3>1 DEF WordSound
  <2>4. CASE p = k /\ LineOf(v) # LineOf(w)
    <3>1. cache'[p] = c /\ ~CacheHit(v)' /\ memory'[v] = old[v]
        BY <1>11, <1>12, <1>13, <2>1, <2>4 DEF CacheHit
    <3>2. CacheHit(w) => ~CacheHit(v)
        BY <1>1, <2>1, <2>4 DEF CacheHit
    <3>3. CacheHit(w) => memory[v]
        BY <2>2, <3>2 DEF WordSound
    <3>4. old[v]
        BY <1>8, <2>1, <2>4, <3>3
    <3> QED
        BY <3>1, <3>4 DEF WordSound
  <2>5. CASE p # k
    <3>1. cache'[p] = cache[p] /\ (CacheHit(v)' <=> CacheHit(v)) /\ v # w
        BY <1>1, <1>12, <2>1, <2>5 DEF CacheHit
    <3>2. memory[v] => memory'[v]
        BY <1>8, <1>13, <3>1
    <3> QED
        BY <1>5, <2>1, <2>2, <3>1, <3>2 DEF WordSound
  <2> QED
      BY <2>3, <2>4, <2>5
<1>17. AllSound'
    BY <1>16 DEF AllSound
<1>18. flush.op = "remap" => \A v \in RegionWords(flush.region) :
             ~CacheHit(v) => cache'[Place(LineOf(v))].line # LineOf(v)
  <2>1. SUFFICES ASSUME flush.op = "remap", NEW v \in RegionWords(flush.region), ~CacheHit(v)
                 PROVE  cache'[Place(LineOf(v))].line # LineOf(v)
      OBVIOUS
  <2>2. v \in Words /\ LineOf(v) # LineOf(w)
      BY <1>5, <2>1, NotOfBlock
  <2>3. Place(LineOf(v)) \in Places
      BY <2>2, WordPlace
  <2> QED
      BY <1>11, <1>12, <2>1, <2>2, <2>3 DEF CacheHit
<1>19. flush.op # "none" => \A v \in Words \ IsrWords : memory[v] => memory'[v]
    BY <1>5, <1>8, <1>13 DEF MayRun
<1>20. FlushInv'
    BY <1>5, <1>6, <1>18, <1>19, FlushKept
<1> QED
    BY <1>5, <1>15, <1>17, <1>20 DEF CacheInv

LEMMA WriteUncachedInv == ASSUME CacheInv, NEW w \in Words, WriteUncached(w) PROVE CacheInv'
<1>1. CacheTyped /\ AllSound /\ FlushInv /\ WordSound(w)
    BY DEF CacheInv, AllSound
<1>2. ~CacheHit(w) /\ w \in uncached
    BY <1>1 DEF WriteUncached, WordSound
<1>3. memory' = [memory EXCEPT ![w] = TRUE] /\ UNCHANGED <<cache, flushda, uncached, flush>>
    BY <1>2 DEF WriteUncached
<1>4. memory' \in [Words -> BOOLEAN] /\ \A v \in Words : memory[v] => memory'[v]
    BY <1>1, <1>3, TypedCache
<1>5. CacheTyped'
    BY <1>1, <1>3, <1>4, TypedCache, TypedCacheNext
<1>6. ASSUME NEW v \in Words PROVE WordSound(v)'
  <2>1. WordSound(v) /\ (CacheHit(v)' <=> CacheHit(v)) /\ (memory[v] => memory'[v])
      BY <1>1, <1>3, <1>4 DEF AllSound, CacheHit
  <2> QED
      BY <1>3, <2>1 DEF WordSound
<1>7. AllSound'
    BY <1>6 DEF AllSound
<1>8. FlushInv'
    BY <1>1, <1>3, <1>4, FlushKept DEF CacheHit
<1> QED
    BY <1>3, <1>5, <1>7, <1>8 DEF CacheInv

(* Every place is met on as many lines running as there are places.        *)
LEMMA Residues ==
    ASSUME NEW C \in Nat \ {0}, NEW s \in Int, NEW l \in Int
    PROVE  \E m \in s..(s + C - 1) : m % C = l % C
<1>1. PICK p \in 0..(C - 1) : p = l % C
    BY Quotients
<1>2. PICK d \in Int : d = p - s
    OBVIOUS
<1>3. d \div C \in Int /\ d % C \in 0..(C - 1) /\ d = (d \div C) * C + (d % C)
    BY Quotients
<1>4. PICK q \in Int, r \in 0..(C - 1) : d = q * C + r
    BY <1>3
<1>5. PICK m \in Int, t \in Int : m = s + r /\ t = 0 - q
    OBVIOUS
<1>6. (0 - q) * C = 0 - q * C /\ q * C \in Int
    OBVIOUS
<1>7. m = t * C + p
    BY <1>2, <1>4, <1>5, <1>6
<1>8. (t * C + p) % C = p
    BY Quotients
<1>9. m \in s..(s + C - 1)
    BY <1>5
<1> QED
    BY <1>1, <1>7, <1>8, <1>9

(* At its end a flush has met every line of what it was called for.        *)
LEMMA Covered ==
    ASSUME FlushInv, flush.op \in {"flush", "all", "remap"}, ~Again,
           NEW w \in Nat, flush.op # "all" => w \in RegionWords(flush.region)
    PROVE  Flushed(LineOf(w))
<1>1. PICK a \in Nat : a = flush.region.start
    BY DEF FlushInv, FlushLoop
<1>2. PICK i \in Nat : i = flush.i
    BY DEF FlushInv, FlushLoop
<1>3. PICK n \in Nat : n = flush.region.len
    BY DEF FlushInv, FlushLoop
<1>4. /\ LineWords \in Nat \ {0} /\ CacheLines \in Nat \ {0}
      /\ LineOf(a) \in Nat /\ LineOf(i) \in Nat /\ LineOf(w) \in Nat
    BY CacheSizes
<1>5. /\ i >= flush.end /\ flush.end \in Nat /\ ~flush.more /\ i >= a
      /\ i % LineWords = a % LineWords
    BY <1>1, <1>2 DEF FlushInv, FlushLoop, Again
<1>6. FirstLine = LineOf(a) /\ NextLine = IF a % LineWords # 0 THEN LineOf(i) + 1 ELSE LineOf(i)
    BY <1>1, <1>2, <1>5 DEF FirstLine, NextLine
<1>7. CacheSize \in Nat /\ CacheSize = CacheLines * LineWords
    BY <1>4 DEF CacheSize
<1>8. CASE ByPlace /\ flush.end = a + CacheSize
  <2>1. PICK q \in Int, j \in 0..(LineWords - 1) : a = q * LineWords + j /\ q = LineOf(a)
      BY <1>4, Quotients DEF LineOf
  <2>2. a + CacheSize = (q + CacheLines) * LineWords + j
      BY <1>4, <1>7, <2>1
  <2>a. PICK Q \in Int : Q = q + CacheLines
      BY <1>4
  <2>b. (Q * LineWords + j) \div LineWords = Q
      BY <1>4, Quotients
  <2>3. LineOf(a + CacheSize) = q + CacheLines
      BY <2>2, <2>a, <2>b DEF LineOf
  <2>c. a + CacheSize \in Int /\ i \in Int /\ a + CacheSize <= i
      BY <1>5, <1>7, <1>8
  <2>4. LineOf(a + CacheSize) <= LineOf(i)
      BY <1>4, <2>c, Quotients DEF LineOf
  <2>5. NextLine - 1 >= FirstLine + CacheLines - 1 /\ NextLine \in Int /\ FirstLine \in Int
      BY <1>4, <1>6, <2>1, <2>3, <2>4
  <2>d. LineOf(w) \in Int /\ CacheLines \in Nat \ {0}
      BY <1>4
  <2>6. PICK m \in FirstLine..(FirstLine + CacheLines - 1) : m % CacheLines = LineOf(w) % CacheLines
      BY <2>5, <2>d, Residues
  <2>7. m \in FirstLine..(NextLine - 1)
      BY <1>4, <2>5, <2>6
  <2> QED
      BY <1>8, <2>6, <2>7 DEF Flushed, Place
<1>9. CASE flush.op # "all" /\ flush.end = a + n
  <2>1. a <= w /\ w <= a + n - 1
      BY <1>1, <1>3, <1>9 DEF RegionWords
  <2>2. w < i
      BY <1>5, <1>9, <2>1
  <2>b. a \in Int /\ w \in Int /\ i \in Int /\ a <= w /\ w <= i
      BY <2>1, <2>2
  <2>3. LineOf(a) <= LineOf(w) /\ LineOf(w) <= LineOf(i)
      BY <1>4, <2>b, Quotients DEF LineOf
  <2>4. a % LineWords = 0 => LineOf(w) < LineOf(i)
    <3>1. SUFFICES ASSUME i % LineWords = 0, LineOf(w) = LineOf(i) PROVE FALSE
        BY <1>4, <1>5, <2>3
    <3>2. /\ i = LineOf(i) * LineWords + (i % LineWords)
               /\ w = LineOf(w) * LineWords + (w % LineWords)
          /\ w % LineWords \in 0..(LineWords - 1)
        BY <1>4, <2>b, Quotients DEF LineOf
    <3>3. LineOf(i) * LineWords \in Int
        BY <1>4
    <3> QED
        BY <1>4, <2>2, <3>1, <3>2, <3>3
  <2>5. LineOf(w) \in FirstLine..(NextLine - 1)
      BY <1>4, <1>6, <2>3, <2>4
  <2> QED
      BY <2>5 DEF Flushed
<1>10. (ByPlace /\ flush.end = a + CacheSize) \/ (flush.op # "all" /\ flush.end = a + n)
  <2>1. CASE flush.op = "all"
      BY <1>1, <1>7, <2>1 DEF FlushInv, FlushLoop, ByPlace, NoRegion
  <2>2. CASE flush.op # "all"
    <3>1. flush.end = a + Trimmed(n)
        BY <1>1, <1>3, <2>2 DEF FlushInv, FlushLoop
    <3> QED
        BY <2>2, <3>1 DEF Trimmed, ByPlace
  <2> QED
      BY <2>1, <2>2
<1> QED
    BY <1>8, <1>9, <1>10

(* One line more.                                                          *)
LEMMA NextFlushed ==
    ASSUME FlushInv, FlushStep
    PROVE  /\ FlushLoop' /\ flush'.op = flush.op /\ flush'.region = flush.region
           /\ flush' = [op |-> flush'.op, region |-> flush'.region, i |-> flush'.i,
                        end |-> flush'.end, more |-> flush'.more]
           /\ \A l : Flushed(l)' =>
                \/ Flushed(l)
                \/ IF ByPlace THEN Place(LineOf(flush.i)) = Place(l) ELSE LineOf(flush.i) = l
<1>1. /\ flush.op # "none" /\ Again /\ flushda' = flushda /\ FlushLoop
      /\ flush' = IF flush.i >= flush.end /\ flush.more THEN [flush EXCEPT !.more = FALSE]
                  ELSE [flush EXCEPT !.i = @ + LineWords]
    BY DEF FlushInv, FlushStep
<1>2. PICK r, i, e, m, o :
        /\ r = flush.region /\ i = flush.i /\ e = flush.end /\ m = flush.more /\ o = flush.op
        /\ i \in Nat /\ e \in Nat /\ m \in BOOLEAN
        /\ flush = [op |-> o, region |-> r, i |-> i, end |-> e, more |-> m]
    BY <1>1 DEF FlushInv, FlushLoop
<1>i. i \in Nat /\ e \in Nat /\ m \in BOOLEAN /\ i \in Int
    BY <1>2
<1>3. LineWords \in Nat \ {0}
    BY CacheSizes
<1>4. /\ r.start \in Nat /\ i >= r.start /\ i % LineWords = r.start % LineWords
      /\ m => r.start % LineWords # 0
      /\ r.start % LineWords # 0 /\ i < e => m
      /\ i < e \/ m
    BY <1>1, <1>2 DEF FlushLoop, Again
<1>5. NextLine = LineOf(i) /\ LineOf(i) \in Nat /\ FirstLine = LineOf(r.start)
        /\ LineOf(r.start) \in Nat
    BY <1>2, <1>4, CacheSizes DEF NextLine, FirstLine
<1>q. (i + LineWords) \div LineWords = (i \div LineWords) + 1
        /\ (i + LineWords) % LineWords = i % LineWords
    BY <1>3, <1>i, Quotients
<1>6. /\ (i + LineWords) % LineWords = i % LineWords /\ LineOf(i + LineWords) = LineOf(i) + 1
      /\ i + LineWords \in Nat
    BY <1>3, <1>i, <1>q DEF LineOf
<1>7. PICK j, n :
        /\ flush' = [op |-> o, region |-> r, i |-> j, end |-> e, more |-> n]
        /\ \/ i >= e /\ m /\ j = i /\ n = FALSE
           \/ ~(i >= e /\ m) /\ j = i + LineWords /\ n = m
  <2>1. CASE i >= e /\ m
    <3>1. flush' = [op |-> o, region |-> r, i |-> i, end |-> e, more |-> FALSE]
        BY <1>1, <1>2, <2>1
    <3> QED
        BY <2>1, <3>1, Zenon
  <2>2. CASE ~(i >= e /\ m)
    <3>1. flush' = [op |-> o, region |-> r, i |-> i + LineWords, end |-> e, more |-> m]
        BY <1>1, <1>2, <2>2
    <3> QED
        BY <2>2, <3>1, Zenon
  <2> QED
      BY <2>1, <2>2
<1>n. n \in BOOLEAN /\ j \in Nat
    BY <1>i, <1>6, <1>7
<1>8. /\ flush'.op = o /\ flush'.region = r /\ flush'.i = j /\ flush'.end = e /\ flush'.more = n
      /\ flush' = [op |-> flush'.op, region |-> flush'.region, i |-> flush'.i, end |-> flush'.end,
                        more |-> flush'.more]
    BY <1>7
<1>9. NextLine' = LineOf(i) + 1 /\ FirstLine' = FirstLine
  <2>1. FirstLine' = LineOf(r.start)
      BY <1>8 DEF FirstLine
  <2>2. NextLine' = IF r.start % LineWords # 0 /\ ~n THEN LineOf(j) + 1 ELSE LineOf(j)
      BY <1>8 DEF NextLine
  <2> QED
      BY <1>4, <1>5, <1>6, <1>7, <2>1, <2>2
<1>10. ByPlace' = ByPlace
    BY <1>1, <1>2, <1>8 DEF ByPlace
<1>11. ASSUME NEW l, Flushed(l)'
       PROVE  \/ Flushed(l)
              \/ IF ByPlace THEN Place(LineOf(flush.i)) = Place(l) ELSE LineOf(flush.i) = l
  <2>1. PICK x \in FirstLine'..(NextLine' - 1) : IF ByPlace THEN Place(x) = Place(l) ELSE x = l
      BY <1>10, <1>11 DEF Flushed
  <2>2. x \in FirstLine..(NextLine - 1) \/ x = LineOf(i)
      BY <1>5, <1>9, <2>1
  <2> QED
      BY <1>2, <2>1, <2>2 DEF Flushed
<1>12. FlushLoop'
  <2>1. /\ j >= r.start /\ j % LineWords = r.start % LineWords
        /\ n => r.start % LineWords # 0
        /\ r.start % LineWords # 0 /\ j < e => n
    <3>1. CASE i >= e /\ m /\ j = i /\ n = FALSE
        BY <1>4, <1>i, <3>1
    <3>2. CASE ~(i >= e /\ m) /\ j = i + LineWords /\ n = m
      <4>1. j >= r.start /\ j % LineWords = r.start % LineWords
          BY <1>3, <1>4, <1>6, <1>i, <3>2
      <4>2. n => r.start % LineWords # 0
          BY <1>4, <3>2
      <4>3. j < e => i < e
          BY <1>3, <1>i, <3>2
      <4> QED
          BY <1>4, <3>2, <4>1, <4>2, <4>3
    <3> QED
        BY <1>7, <3>1, <3>2
  <2>2. /\ r.len \in Nat /\ RegionWords(r) \subseteq Words
        /\ CASE o = "all" -> r = NoRegion /\ e = CacheSize
           [] o = "discard" -> r \in Discarded /\ e = r.start + r.len
           [] OTHER -> e = r.start + Trimmed(r.len)
      BY <1>1, <1>2 DEF FlushLoop
  <2>3. Trimmed(r.len)' = Trimmed(r.len)
      BY <1>1, <1>8 DEF Trimmed
  <2> QED
      BY <1>1, <1>4, <1>n, <1>8, <2>1, <2>2, <2>3, ZenonT(30) DEF FlushLoop, Trimmed, RegionWords
<1> QED
    BY <1>2, <1>8, <1>11, <1>12

(* What leaves the memory, the cache and the blocks alone.                 *)
LEMMA StoreKept ==
    ASSUME CacheInv, UNCHANGED <<flushda, memory, cache, uncached>>, FlushInv'
    PROVE  CacheInv'
<1>1. CacheTyped'
    BY TypedCache, TypedCacheNext DEF CacheInv
<1>2. ASSUME NEW w \in Words PROVE WordSound(w)'
  <2>1. WordSound(w) /\ (CacheHit(w)' <=> CacheHit(w))
      BY DEF CacheInv, AllSound, CacheHit
  <2> QED
      BY <2>1 DEF WordSound
<1>3. AllSound'
    BY <1>2 DEF AllSound
<1> QED
    BY <1>1, <1>3 DEF CacheInv

LEMMA RegionSound ==
    ASSUME NEW r \in Regions \union Discarded \union CacheBlocks
    PROVE  r.start \in Nat /\ r.len \in Nat /\ RegionWords(r) \subseteq Words
<1>1. r.start \in Words /\ r.len \in Nat /\ r.start + r.len - 1 \in Words
    BY CacheAssumption
<1>2. LineWords \in Nat /\ MemLines \in Nat /\ Words \subseteq Nat
    BY CacheSizes
<1>3. MemLines * LineWords \in Nat
    BY <1>2
<1>4. r.start \in Nat
    BY <1>1, <1>2
<1> QED
    BY <1>1, <1>3, <1>4 DEF RegionWords, Words

(* A call: nothing is flushed yet.                                         *)
LEMMA CallInv ==
    ASSUME NEW op \in {"flush", "discard", "all", "remap"}, NEW r, NEW len \in Nat,
           Call(op, r, len),
           r.start \in Nat, r.len \in Nat, RegionWords(r) \subseteq Words, flushda' = flushda,
           op = "all" => r = NoRegion /\ len = CacheSize,
           op = "discard" => r \in Discarded /\ len = r.len,
           op \in {"flush", "remap"} => len = Trimmed(r.len),
           op = "remap" => r \in CacheBlocks
    PROVE  FlushInv'
<1>1. PICK s \in Nat, e \in Nat : s = r.start /\ e = s + len
    OBVIOUS
<1>2. PICK m : m = (s % LineWords # 0)
    OBVIOUS
<1>3. m \in BOOLEAN /\ (m <=> s % LineWords # 0)
    BY <1>2
<1>4. flush' = [op |-> op, region |-> r, i |-> s, end |-> e, more |-> m]
    BY <1>1, <1>2 DEF Call
<1>5. flush'.op = op /\ flush'.region = r /\ flush'.i = s /\ flush'.end = e /\ flush'.more = m
    BY <1>4
<1>6. flush' = [op |-> flush'.op, region |-> flush'.region, i |-> flush'.i, end |-> flush'.end,
                more |-> flush'.more]
    BY <1>4, <1>5
<1>7. FlushLoop'
  <2>1. CASE op = "all"
    <3>1. r = NoRegion /\ e = CacheSize
        BY <1>1, <2>1 DEF NoRegion
    <3> QED
        BY <1>1, <1>3, <1>5, <2>1, <3>1 DEF FlushLoop, RegionWords
  <2>2. CASE op = "discard"
    <3>1. r \in Discarded /\ e = r.start + r.len
        BY <1>1, <2>2
    <3> QED
        BY <1>1, <1>3, <1>5, <2>2, <3>1 DEF FlushLoop, RegionWords
  <2>3. CASE op \in {"flush", "remap"}
    <3>1. e = r.start + Trimmed(r.len)
        BY <1>1, <2>3
    <3> QED
        BY <1>1, <1>3, <1>5, <2>3, <3>1 DEF FlushLoop, RegionWords, Trimmed
  <2> QED
      BY <2>1, <2>2, <2>3
<1>8. FirstLine' = LineOf(s) /\ NextLine' = LineOf(s) /\ LineOf(s) \in Int
  <2>1. FirstLine' = LineOf(s) /\ LineOf(s) \in Int
      BY <1>1, <1>5, CacheSizes DEF FirstLine
  <2>2. NextLine' = IF s % LineWords # 0 /\ ~m THEN LineOf(s) + 1 ELSE LineOf(s)
      BY <1>1, <1>5 DEF NextLine
  <2> QED
      BY <1>3, <2>1, <2>2
<1>9. \A l : ~Flushed(l)'
    BY <1>8 DEF Flushed
<1>10. flush'.op = "remap" =>
         /\ flush'.region \in CacheBlocks
         /\ \A w \in RegionWords(flush'.region) : Flushed(LineOf(w))' => ~CacheHit(w)'
    BY <1>5, <1>9
<1>11. \A w \in Words \ IsrWords : Flushed(LineOf(w))' => memory'[w]
    BY <1>9
<1>12. flush'.op \in {"none", "flush", "discard", "all", "remap"}
    BY <1>5
<1> QED
    BY <1>6, <1>7, <1>10, <1>11, <1>12 DEF FlushInv

LEMMA BeginInv == ASSUME CacheInv, CacheBegin PROVE CacheInv'
<1>1. /\ UNCHANGED <<flushda, memory, cache, uncached>>
      /\ FlushRegion \/ Discard \/ FlushAll \/ Remap
    BY DEF CacheBegin
<1>2. CacheSize \in Nat
    BY CacheSizes DEF CacheSize
<1>3. CASE FlushRegion
  <2>1. PICK r \in Regions : Call("flush", r, Trimmed(r.len))
      BY <1>3 DEF FlushRegion
  <2>2. r.start \in Nat /\ r.len \in Nat /\ RegionWords(r) \subseteq Words /\ Trimmed(r.len) \in Nat
      BY <1>2, RegionSound DEF Trimmed
  <2>3. FlushInv'
      BY <1>1, <2>1, <2>2, CallInv
  <2> QED
      BY <1>1, <2>3, StoreKept
<1>4. CASE Discard
  <2>1. PICK r \in Discarded : Call("discard", r, r.len)
      BY <1>4 DEF Discard
  <2>2. r.start \in Nat /\ r.len \in Nat /\ RegionWords(r) \subseteq Words
      BY RegionSound
  <2>3. FlushInv'
      BY <1>1, <2>1, <2>2, CallInv
  <2> QED
      BY <1>1, <2>3, StoreKept
<1>5. CASE FlushAll
  <2>1. NoRegion.start \in Nat /\ NoRegion.len \in Nat /\ RegionWords(NoRegion) \subseteq Words
      BY DEF NoRegion, RegionWords
  <2>2. Call("all", NoRegion, CacheSize)
      BY <1>5 DEF FlushAll
  <2>3. FlushInv'
      BY <1>1, <1>2, <2>1, <2>2, CallInv
  <2> QED
      BY <1>1, <2>3, StoreKept
<1>6. CASE Remap
  <2>1. PICK r \in CacheBlocks : Call("remap", r, Trimmed(r.len))
      BY <1>6 DEF Remap, RemapLength
  <2>2. r.start \in Nat /\ r.len \in Nat /\ RegionWords(r) \subseteq Words /\ Trimmed(r.len) \in Nat
      BY <1>2, RegionSound DEF Trimmed
  <2>3. FlushInv'
      BY <1>1, <2>1, <2>2, CallInv
  <2> QED
      BY <1>1, <2>3, StoreKept
<1> QED
    BY <1>1, <1>3, <1>4, <1>5, <1>6

(* A discard: every word of the line that goes was asked for.              *)
LEMMA DiscardSound ==
    ASSUME CacheInv, flush.op = "discard", Again, CacheHit(flush.i),
           NEW k, k = Place(LineOf(flush.i)),
           memory' = Asked(flush.region, memory), cache' = [cache EXCEPT ![k] = Empty],
           UNCHANGED <<flushda, uncached>>
    PROVE  CacheTyped' /\ AllSound'
<1>1. CacheTyped /\ AllSound /\ FlushInv /\ FlushLoop
    BY DEF CacheInv, FlushInv
<1>2. /\ cache \in [Places -> Entries] /\ flushda \in BOOLEAN /\ uncached \subseteq Words
      /\ \A j \in Places : cache[j].line # NoLine => Place(cache[j].line) = j
      /\ memory \in [Words -> BOOLEAN]
    BY <1>1, TypedCache
<1>3. flush.i \in Nat /\ LineOf(flush.i) \in Int /\ k \in Places
    BY <1>1, CacheSizes DEF FlushLoop
<1>4. /\ cache' \in [Places -> Entries]
      /\ \A j \in Places : cache'[j] = IF j = k THEN Empty ELSE cache[j]
    BY <1>2, <1>3, EmptyEntry
<1>5. flush.i \in RegionWords(flush.region)
  <2>1. flush.region \in Discarded /\ flush.end = flush.region.start + flush.region.len
      BY <1>1 DEF FlushLoop
  <2>2. flush.region.start % LineWords = 0
      BY <2>1, CacheAssumption
  <2>3. ~flush.more /\ flush.i < flush.end
      BY <1>1, <2>2 DEF FlushLoop, Again
  <2>4. flush.region.start \in Nat /\ flush.region.len \in Nat /\ flush.i >= flush.region.start
      BY <1>1 DEF FlushLoop
  <2> QED
      BY <1>3, <2>1, <2>3, <2>4 DEF RegionWords
<1>6. LineOf(flush.i) \in {LineOf(v) : v \in RegionWords(flush.region)}
    BY <1>5
<1>7. /\ memory' \in [Words -> BOOLEAN]
      /\ \A w \in Words : (memory[w] => memory'[w]) /\ (LineOf(w) = LineOf(flush.i) => memory'[w])
  <2>1. memory' = [w \in Words |->
                  \/ memory[w]
                  \/ LineOf(w) = LineOf(flush.i)
                       /\ LineOf(w) \in {LineOf(v) : v \in RegionWords(flush.region)}]
      BY DEF Asked
  <2> QED
      BY <1>6, <2>1, Zenon
<1>8. CacheTyped'
    BY <1>2, <1>4, <1>7, EmptyEntry, TypedCacheNext
<1>9. ASSUME NEW w \in Words PROVE WordSound(w)'
  <2>1. PICK p \in Places : p = Place(LineOf(w))
      BY WordPlace
  <2>2. LineOf(w) # NoLine /\ WordSound(w)
      BY <1>1, WordPlace DEF AllSound
  <2>3. CASE p = k
    <3>1. ~CacheHit(w)'
        BY <1>4, <2>1, <2>2, <2>3, EmptyEntry DEF CacheHit
    <3>2. LineOf(w) # LineOf(flush.i) => ~CacheHit(w)
        BY <2>1, <2>3 DEF CacheHit
    <3>3. LineOf(w) # LineOf(flush.i) => memory[w]
        BY <2>2, <3>2 DEF WordSound
    <3>4. memory'[w]
        BY <1>7, <3>3
    <3> QED
        BY <3>1, <3>4 DEF WordSound
  <2>4. CASE p # k
    <3>1. cache'[p] = cache[p] /\ (CacheHit(w)' <=> CacheHit(w)) /\ (memory[w] => memory'[w])
        BY <1>4, <1>7, <2>1, <2>4 DEF CacheHit
    <3> QED
        BY <2>1, <2>2, <3>1 DEF WordSound
  <2> QED
      BY <2>3, <2>4
<1>10. AllSound'
    BY <1>9 DEF AllSound
<1> QED
    BY <1>8, <1>10

LEMMA FlushStepInv == ASSUME BlocksAssumed, CacheInv, FlushStep PROVE CacheInv'
<1>1. CacheTyped /\ AllSound /\ FlushInv /\ FlushLoop
    BY DEF CacheInv, FlushInv, FlushStep
<1>2. /\ FlushLoop' /\ flush'.op = flush.op /\ flush'.region = flush.region
      /\ flush' = [op |-> flush'.op, region |-> flush'.region, i |-> flush'.i, end |-> flush'.end,
                        more |-> flush'.more]
      /\ \A l : Flushed(l)' =>
           \/ Flushed(l)
           \/ IF ByPlace THEN Place(LineOf(flush.i)) = Place(l) ELSE LineOf(flush.i) = l
    BY <1>1, NextFlushed
<1>3. PICK k : k = Place(LineOf(flush.i))
    OBVIOUS
<1>4. k \in Places
    BY <1>1, <1>3, CacheSizes DEF FlushLoop
<1>5. flush.op \in {"flush", "discard", "all", "remap"}
    BY <1>1 DEF FlushStep, FlushInv
<1>6. UNCHANGED <<flushda, uncached>> /\ FlushLine /\ Again
    BY DEF FlushStep
<1>7. flush.op = "remap" =>
         /\ flush.region \in CacheBlocks
         /\ \A w \in RegionWords(flush.region) : Flushed(LineOf(w)) => ~CacheHit(w)
    BY <1>1 DEF FlushInv
<1>8. flush.op \in {"flush", "all", "remap"} =>
         \A w \in Words \ IsrWords : Flushed(LineOf(w)) => memory[w]
    BY <1>1 DEF FlushInv
<1>9. RegionWords(flush.region) \subseteq Words
    BY <1>1 DEF FlushLoop
(* It is enough that the line whose turn it is comes to memory, and out of *)
(* the cache.                                                              *)
<1>10. ASSUME CacheTyped', AllSound',
              flush.op # "discard" => \A w \in Words :
                /\ memory[w] => memory'[w]
                /\ ~CacheHit(w) => ~CacheHit(w)'
                /\ (IF ByPlace THEN k = Place(LineOf(w)) ELSE LineOf(flush.i) = LineOf(w)) =>
                     memory'[w] /\ ~CacheHit(w)'
       PROVE  CacheInv'
  <2>1. flush'.op = "remap" =>
         /\ flush'.region \in CacheBlocks
         /\ \A w \in RegionWords(flush'.region) : Flushed(LineOf(w))' => ~CacheHit(w)'
      BY <1>2, <1>3, <1>7, <1>9, <1>10
  <2>2. flush'.op \in {"flush", "all", "remap"} =>
         \A w \in Words \ IsrWords : Flushed(LineOf(w))' => memory'[w]
      BY <1>2, <1>3, <1>8, <1>10
  <2>3. FlushInv'
      BY <1>2, <1>5, <2>1, <2>2 DEF FlushInv
  <2> QED
      BY <1>6, <1>10, <2>3 DEF CacheInv
<1>11. CASE flush.op = "discard" /\ CacheHit(flush.i)
  <2>1. memory' = Asked(flush.region, memory) /\ cache' = [cache EXCEPT ![k] = Empty]
      BY <1>3, <1>6, <1>11 DEF FlushLine, Cleaned
  <2>2. CacheTyped' /\ AllSound'
      BY <1>3, <1>6, <1>11, <2>1, DiscardSound
  <2> QED
      BY <1>10, <1>11, <2>2
<1>12. CASE flush.op # "discard" /\ (CacheHit(flush.i) \/ ByPlace)
  <2>1. memory' = WrittenBack(k) /\ cache' = [cache EXCEPT ![k] = Empty]
      BY <1>3, <1>6, <1>12 DEF FlushLine, Cleaned, ByPlace
  <2>2. PICK c \in Entries : c = Empty /\ c.line = NoLine
      BY EmptyEntry
  <2>3. cache' = [cache EXCEPT ![k] = c] /\ memory' = WrittenBack(k)
      BY <2>1, <2>2
  <2>4. /\ CacheTyped' /\ AllSound'
        /\ \A w \in Words : (memory[w] => memory'[w]) /\ (Place(LineOf(w)) = k => memory'[w])
        /\ \A w \in Words : c.line # LineOf(w) /\ (~CacheHit(w) \/ Place(LineOf(w)) = k) =>
             cache'[Place(LineOf(w))].line # LineOf(w)
      BY <1>1, <1>4, <1>6, <2>2, <2>3, Replaced
  <2>5. \A w \in Words : ~CacheHit(w) \/ Place(LineOf(w)) = k => ~CacheHit(w)'
      BY <2>2, <2>4, WordPlace DEF CacheHit
  <2> QED
      BY <1>3, <1>10, <2>4, <2>5
<1>13. CASE \/ flush.op = "discard" /\ ~CacheHit(flush.i)
            \/ flush.op # "discard" /\ ~CacheHit(flush.i) /\ ~ByPlace
  <2>1. UNCHANGED <<memory, cache>>
      BY <1>6, <1>13 DEF FlushLine, ByPlace
  <2>2. CacheTyped'
      BY <1>1, <1>6, <2>1, TypedCache, TypedCacheNext
  <2>3. \A w \in Words : WordSound(w) /\ (CacheHit(w)' <=> CacheHit(w))
      BY <1>1, <2>1 DEF AllSound, CacheHit
  <2>4. ASSUME NEW w \in Words PROVE WordSound(w)'
      BY <1>6, <2>1, <2>3 DEF WordSound
  <2>5. AllSound'
      BY <2>4 DEF AllSound
  <2>6. \A w \in Words : ~CacheHit(w) => memory[w]
      BY <2>3 DEF WordSound
  <2>7. flush.op # "discard" => \A w \in Words : LineOf(flush.i) = LineOf(w) => ~CacheHit(w)
      BY <1>13 DEF CacheHit
  <2> QED
      BY <1>10, <1>13, <2>1, <2>2, <2>3, <2>5, <2>6, <2>7
<1> QED
    BY <1>5, <1>11, <1>12, <1>13

(* The words a flush is called for.                                        *)
AskedFor == IF flush.op = "all" THEN Words ELSE RegionWords(flush.region)

(* At its end what a flush was called for is in memory, and a block that   *)
(* is being remapped is not in the cache.                                  *)
LEMMA EndReaches ==
    ASSUME CacheInv, FlushEnd
    PROVE  flush.op # "discard" =>
             /\ \A w \in AskedFor \ IsrWords :
                  w \in Words /\ memory[w]
             /\ flush.op = "remap" => \A w \in RegionWords(flush.region) : ~CacheHit(w)
<1>1. SUFFICES ASSUME flush.op # "discard",
                      NEW w \in AskedFor
               PROVE  /\ w \notin IsrWords => w \in Words /\ memory[w]
                      /\ flush.op = "remap" => ~CacheHit(w)
    BY DEF AskedFor
<1>2. FlushInv /\ FlushLoop /\ ~Again /\ flush.op \in {"flush", "all", "remap"}
    BY <1>1 DEF CacheInv, FlushInv, FlushEnd
<1>3. w \in Words /\ w \in Nat
    BY <1>1, <1>2, CacheSizes DEF FlushLoop, AskedFor
<1>4. Flushed(LineOf(w))
    BY <1>1, <1>2, <1>3, Covered DEF AskedFor
<1> QED
    BY <1>1, <1>2, <1>3, <1>4 DEF FlushInv, AskedFor

LEMMA EndInv == ASSUME BlocksAssumed, CacheInv, FlushEnd PROVE CacheInv'
<1>1. /\ UNCHANGED <<flushda, memory, cache>> /\ flush' = CacheIdle
      /\ uncached' = IF flush.op = "remap" THEN uncached \union RegionWords(flush.region)
                     ELSE uncached
    BY DEF FlushEnd
<1>2. FlushInv'
    BY <1>1 DEF FlushInv, CacheIdle
<1>3. CASE flush.op # "remap"
    BY <1>1, <1>2, <1>3, StoreKept
<1>4. CASE flush.op = "remap"
  <2>1. flush.region \in CacheBlocks
      BY <1>4 DEF CacheInv, FlushInv
  <2>2. \A w \in RegionWords(flush.region) : w \notin IsrWords
      BY <2>1 DEF BlocksAssumed
  <2>3. ASSUME NEW w \in RegionWords(flush.region) PROVE w \in Words /\ memory[w] /\ ~CacheHit(w)
      BY <1>4, <2>2, EndReaches DEF AskedFor
  <2>4. CacheTyped' /\ CacheTyped
      BY <1>1, <1>4, <2>3, TypedCache, TypedCacheNext DEF CacheInv
  <2>5. ASSUME NEW w \in Words PROVE WordSound(w)'
    <3>1. WordSound(w) /\ (CacheHit(w)' <=> CacheHit(w)) /\ memory'[w] = memory[w]
        BY <1>1 DEF CacheInv, AllSound, CacheHit
    <3>2. CASE w \in RegionWords(flush.region)
        BY <1>1, <1>4, <2>3, <3>1, <3>2 DEF WordSound
    <3>3. CASE w \notin RegionWords(flush.region)
        BY <1>1, <1>4, <3>1, <3>3 DEF WordSound
    <3> QED
        BY <3>2, <3>3
  <2>6. AllSound'
      BY <2>5 DEF AllSound
  <2>7. \A w \in uncached', v \in Words : LineOf(v) = LineOf(w) => v \in uncached'
      BY <1>1, <1>4, <2>1, BlockLines DEF CacheInv
  <2> QED
      BY <1>2, <2>4, <2>6, <2>7 DEF CacheInv
<1> QED
    BY <1>3, <1>4

LEMMA RemapCachedInv == ASSUME BlocksAssumed, CacheInv, RemapCached PROVE CacheInv'
<1>1. PICK b \in CacheBlocks :
        /\ RegionWords(b) \subseteq uncached /\ uncached' = uncached \ RegionWords(b)
        /\ flush.op = "none" /\ UNCHANGED <<flushda, memory, cache, flush>>
    BY DEF RemapCached
<1>2. FlushInv'
    BY <1>1 DEF CacheInv, FlushInv
<1>3. CacheTyped'
    BY <1>1, TypedCache, TypedCacheNext DEF CacheInv
<1>4. ASSUME NEW w \in Words PROVE WordSound(w)'
  <2>1. WordSound(w) /\ (CacheHit(w)' <=> CacheHit(w)) /\ memory'[w] = memory[w]
      BY <1>1 DEF CacheInv, AllSound, CacheHit
  <2>2. CASE w \in RegionWords(b)
      BY <1>1, <2>1, <2>2 DEF WordSound
  <2>3. CASE w \notin RegionWords(b)
      BY <1>1, <2>1, <2>3 DEF WordSound
  <2> QED
      BY <2>2, <2>3
<1>5. AllSound'
    BY <1>4 DEF AllSound
<1>6. ASSUME NEW w \in uncached', NEW v \in Words, LineOf(v) = LineOf(w) PROVE v \in uncached'
  <2>1. w \in uncached /\ w \notin RegionWords(b) /\ v \in uncached
      BY <1>1, <1>6 DEF CacheInv
  <2>2. w \in Words
      BY <2>1, TypedCache DEF CacheInv
  <2>3. v \notin RegionWords(b)
      BY <1>6, <2>1, <2>2, BlockLines
  <2> QED
      BY <1>1, <2>1, <2>3
<1> QED
    BY <1>2, <1>3, <1>5, <1>6 DEF CacheInv

LEMMA CacheInitInv == CacheInit => CacheInv
<1> SUFFICES ASSUME CacheInit PROVE CacheInv
    OBVIOUS
<1>1. /\ flushda \in BOOLEAN /\ memory = [w \in Words |-> TRUE] /\ cache = [k \in Places |-> Empty]
      /\ uncached = {} /\ flush = CacheIdle
    BY DEF CacheInit, Places
<1>2. CacheTyped
    BY <1>1, EmptyEntry, TypedCache
<1>3. ASSUME NEW w \in Words PROVE WordSound(w)
  <2>1. Place(LineOf(w)) \in Places /\ LineOf(w) # NoLine
      BY WordPlace
  <2>2. ~CacheHit(w) /\ memory[w]
      BY <1>1, <2>1, EmptyEntry DEF CacheHit
  <2> QED
      BY <2>2 DEF WordSound
<1>4. FlushInv
    BY <1>1 DEF FlushInv, CacheIdle
<1> QED
    BY <1>1, <1>2, <1>3, <1>4 DEF CacheInv, AllSound

LEMMA CacheStepInv == ASSUME BlocksAssumed, CacheInv, [CacheNext]_cacheVars PROVE CacheInv'
<1>1. CASE UNCHANGED cacheVars
  <2>1. FlushInv'
      BY <1>1, FlushKept DEF CacheInv, cacheVars, CacheHit
  <2> QED
      BY <1>1, <2>1, StoreKept DEF cacheVars
<1>2. CASE \E w \in Words : Read(w) \/ Write(w) \/ WriteUncached(w)
    BY <1>2, ReadInv, WriteInv, WriteUncachedInv
<1> QED
    BY <1>1, <1>2, BeginInv, FlushStepInv, EndInv, RemapCachedInv DEF CacheNext

(* Only the end of a flush ends it.                                        *)
LEMMA OnlyEnd ==
    ASSUME CacheInv, [CacheNext]_cacheVars, flush.op # "none", flush'.op = "none" PROVE FlushEnd
<1>1. ASSUME FlushStep PROVE flush'.op = flush.op
    BY <1>1, NextFlushed DEF CacheInv
<1>2. ASSUME flush' = flush PROVE FALSE
    BY <1>2
<1> QED
    BY <1>1, <1>2 DEF CacheNext, cacheVars, Read, Write, WriteUncached, CacheBegin, RemapCached

LEMMA ReadsLast == CacheInv => NothingLost
<1> SUFFICES ASSUME CacheInv, NEW w \in Words
             PROVE  IF w \in uncached THEN memory[w] ELSE CachedRead(w)
    BY DEF NothingLost
<1>1. WordSound(w)
    BY DEF CacheInv, AllSound
<1> QED
    BY <1>1 DEF WordSound, CachedRead

(* When a flush returns, memory holds what was last written to each word   *)
(* it was called for, and the program reads of every word the value last   *)
(* written to it (alt_dcache_flush, alt_dcache_flush_no_writeback,         *)
(* alt_dcache_flush_all, alt_remap_uncached, alt_remap_cached): with any   *)
(* lines, places, regions, blocks and words of the interrupt routines.     *)
THEOREM WritesKeptAlways == ASSUME BlocksAssumed PROVE CacheSpec => WritesKept
<1>1. CacheInit => CacheInv
    BY CacheInitInv
<1>2. CacheInv /\ [CacheNext]_cacheVars => CacheInv'
    BY CacheStepInv
<1>3. CacheInv => NothingLost
    BY ReadsLast
<1>4. CacheInv /\ [CacheNext]_cacheVars =>
        [flush.op # "none" /\ flush'.op = "none" =>
         LET region == IF flush.op = "all" THEN Words ELSE RegionWords(flush.region)
         IN flush.op # "discard" => \A w \in region \ IsrWords : memory'[w]]_cacheVars
  <2> SUFFICES ASSUME CacheInv, [CacheNext]_cacheVars, flush.op # "none", flush'.op = "none",
                      flush.op # "discard",
                      NEW w \in AskedFor \ IsrWords
               PROVE  memory'[w]
      BY DEF AskedFor
  <2>1. FlushEnd
      BY OnlyEnd
  <2>2. memory[w] /\ memory' = memory
      BY <2>1, EndReaches DEF FlushEnd
  <2> QED
      BY <2>2
<1> QED
    BY <1>1, <1>2, <1>3, <1>4, PTL DEF CacheSpec, WritesKept, FlushReaches
-----------------------------------------------------------------------------
(* The alarms, for any number of them, any length of the counter and any   *)
(* callbacks.  A ring of n elements: q in this order and the head.         *)
Spot(q, n, i) == IF i \in 1..n THEN q[i] ELSE ListHead
Ring(l, q, n) ==
    /\ q \in [1..n -> Alarms] /\ \A i, j \in 1..n : q[i] = q[j] => i = j
    /\ \A i \in 0..n : /\ l[Spot(q, n, i)].next = Spot(q, n, i + 1)
                       /\ l[Spot(q, n, i + 1)].prev = Spot(q, n, i)
AllLinks == [Elements -> [next : Elements \union {NoAlarm}, prev : Elements \union {NoAlarm}]]

LEMMA SpotElements ==
    ASSUME NEW n \in Nat, NEW q \in [1..n -> Alarms], \A i, j \in 1..n : q[i] = q[j] => i = j
    PROVE  /\ \A i \in Int : Spot(q, n, i) \in Elements
           /\ \A i \in 1..n : /\ Spot(q, n, i) = q[i]
                              /\ Spot(q, n, i) \in Alarms /\ Spot(q, n, i) # ListHead
           /\ Spot(q, n, 0) = ListHead /\ Spot(q, n, n + 1) = ListHead
           /\ \A i, j \in 0..n : Spot(q, n, i) = Spot(q, n, j) => i = j
           /\ \A i, j \in 1..(n + 1) : Spot(q, n, i) = Spot(q, n, j) => i = j
<1>1. ListHead \notin Alarms /\ Elements = Alarms \union {ListHead}
    BY AlarmAssumption DEF Elements
<1>2. \A i \in 1..n : Spot(q, n, i) = q[i] /\ q[i] \in Alarms /\ q[i] # ListHead
    BY <1>1 DEF Spot
<1>3. \A i \in Int : i \notin 1..n => Spot(q, n, i) = ListHead
    BY DEF Spot
<1>4. ASSUME NEW i \in 0..n, NEW j \in 0..n, Spot(q, n, i) = Spot(q, n, j) PROVE i = j
  <2>1. CASE i \in 1..n /\ j \in 1..n
      BY <1>2, <1>4, <2>1
  <2>2. CASE i = 0 \/ j = 0
      BY <1>2, <1>3, <1>4, <2>2
  <2> QED
      BY <2>1, <2>2
<1>5. ASSUME NEW i \in 1..(n + 1), NEW j \in 1..(n + 1), Spot(q, n, i) = Spot(q, n, j) PROVE i = j
  <2>1. CASE i \in 1..n /\ j \in 1..n
      BY <1>2, <1>5, <2>1
  <2>2. CASE i = n + 1 \/ j = n + 1
      BY <1>2, <1>3, <1>5, <2>2
  <2> QED
      BY <2>1, <2>2
<1>6. \A i \in Int : Spot(q, n, i) \in Elements
    BY <1>1, <1>2, <1>3
<1> QED
    BY <1>2, <1>3, <1>4, <1>5, <1>6

(* What alt_llist_insert writes.                                           *)
LEMMA InsertedLinks ==
    ASSUME NEW l \in AllLinks, NEW e \in Alarms, NEW first \in Elements, first = l[ListHead].next,
           first # e, NEW k, k = Inserted(l, e)
    PROVE  /\ k \in AllLinks
           /\ k[e].next = first /\ k[e].prev = ListHead
           /\ k[ListHead].next = e /\ k[first].prev = e
           /\ \A x \in Elements : /\ x # e /\ x # ListHead => k[x].next = l[x].next
                                  /\ x # e /\ x # first => k[x].prev = l[x].prev
                                  /\ x # e /\ x # ListHead /\ x # first => k[x] = l[x]
<1>1. ListHead \in Elements /\ e \in Elements /\ e # ListHead
    BY AlarmAssumption DEF Elements
<1> DEFINE Link == [next : Elements \union {NoAlarm}, prev : Elements \union {NoAlarm}]
<1>2. PICK one : one = [l EXCEPT ![e] = [next |-> first, prev |-> ListHead]]
    OBVIOUS
<1>3. one \in [Elements -> Link] /\ one[e].next = first /\ one[e].prev = ListHead
      /\ \A x \in Elements : x # e => one[x] = l[x]
    BY <1>1, <1>2 DEF AllLinks
<1>4. PICK two : two = [one EXCEPT ![first].prev = e]
    OBVIOUS
<1>5. two \in [Elements -> Link] /\ two[first].prev = e /\ two[first].next = one[first].next
      /\ \A x \in Elements : x # first => two[x] = one[x]
    BY <1>1, <1>3, <1>4
<1>6. k = [two EXCEPT ![ListHead].next = e]
    BY <1>2, <1>4 DEF Inserted
<1>7. k \in [Elements -> Link] /\ k[ListHead].next = e /\ k[ListHead].prev = two[ListHead].prev
      /\ \A x \in Elements : x # ListHead => k[x] = two[x]
    BY <1>1, <1>5, <1>6
<1> QED
    BY <1>1, <1>3, <1>5, <1>7 DEF AllLinks

(* What alt_llist_remove writes, for an element that is not its own        *)
(* neighbour, and for one that is.                                         *)
LEMMA RemovedLinks ==
    ASSUME NEW l \in AllLinks, NEW e \in Alarms, NEW after \in Elements, NEW before \in Elements,
           after = l[e].next, before = l[e].prev, after # e, before # e, NEW k, k = Removed(l, e)
    PROVE  /\ k \in AllLinks /\ k[e] = [next |-> e, prev |-> e]
           /\ k[before].next = after /\ k[after].prev = before
           /\ \A x \in Elements : /\ x # e /\ x # before => k[x].next = l[x].next
                                  /\ x # e /\ x # after => k[x].prev = l[x].prev
                                  /\ x # e /\ x # before /\ x # after => k[x] = l[x]
<1>1. e \in Elements
    BY DEF Elements
<1> DEFINE Link == [next : Elements \union {NoAlarm}, prev : Elements \union {NoAlarm}]
<1>2. PICK one : one = [l EXCEPT ![after].prev = before]
    OBVIOUS
<1>3. one \in [Elements -> Link] /\ one[after].prev = before /\ one[after].next = l[after].next
      /\ \A x \in Elements : x # after => one[x] = l[x]
    BY <1>1, <1>2 DEF AllLinks
<1>4. PICK two : two = [one EXCEPT ![before].next = after]
    OBVIOUS
<1>5. two \in [Elements -> Link] /\ two[before].next = after /\ two[before].prev = one[before].prev
      /\ \A x \in Elements : x # before => two[x] = one[x]
    BY <1>1, <1>3, <1>4
<1>6. k = [two EXCEPT ![e] = [next |-> e, prev |-> e]]
  <2>1. one[e] = l[e]
      BY <1>1, <1>3
  <2> QED
      BY <1>2, <1>4, <2>1 DEF Removed
<1>7. k \in [Elements -> Link] /\ k[e] = [next |-> e, prev |-> e]
      /\ \A x \in Elements : x # e => k[x] = two[x]
    BY <1>1, <1>5, <1>6
<1> QED
    BY <1>1, <1>3, <1>5, <1>7 DEF AllLinks

LEMMA RemovedLoose ==
    ASSUME NEW l \in AllLinks, NEW e \in Alarms, l[e] = [next |-> e, prev |-> e]
    PROVE  Removed(l, e) = l
<1>1. e \in Elements /\ l[e].next = e /\ l[e].prev = e
    BY DEF Elements
<1>2. [l EXCEPT ![e].prev = e] = l
    BY <1>1 DEF AllLinks
<1>3. [l EXCEPT ![e].next = e] = l
    BY <1>1 DEF AllLinks
<1>4. [l EXCEPT ![e] = [next |-> e, prev |-> e]] = l
    BY <1>1 DEF AllLinks
<1> QED
    BY <1>1, <1>2, <1>3, <1>4 DEF Removed

(* alt_llist_insert puts an element of no ring first.                      *)
Ahead(q, n, e) == [i \in 1..(n + 1) |-> IF i = 1 THEN e ELSE q[i - 1]]
LEMMA InsertRing ==
    ASSUME NEW l \in AllLinks, NEW n \in Nat, NEW q, Ring(l, q, n), NEW e \in Alarms,
           \A i \in 1..n : q[i] # e
    PROVE  /\ Inserted(l, e) \in AllLinks /\ Ring(Inserted(l, e), Ahead(q, n, e), n + 1)
           /\ \A x \in Alarms : x # e /\ (\A i \in 1..n : q[i] # x) => Inserted(l, e)[x] = l[x]
<1> DEFINE spot(i) == Spot(q, n, i)
           q1 == Ahead(q, n, e)
           spot1(i) == Spot(q1, n + 1, i)
           k == Inserted(l, e)
<1>1. /\ q \in [1..n -> Alarms] /\ \A i, j \in 1..n : q[i] = q[j] => i = j
      /\ \A i \in 0..n : l[spot(i)].next = spot(i + 1) /\ l[spot(i + 1)].prev = spot(i)
    BY DEF Ring
<1>2. /\ \A i \in Int : spot(i) \in Elements
      /\ \A i \in 1..n : spot(i) = q[i] /\ spot(i) \in Alarms /\ spot(i) # ListHead
      /\ spot(0) = ListHead /\ spot(n + 1) = ListHead
      /\ \A i, j \in 1..(n + 1) : spot(i) = spot(j) => i = j
    BY <1>1, SpotElements
<1>3. q1 \in [1..(n + 1) -> Alarms] /\ q1[1] = e /\ \A i \in 1..n : q1[i + 1] = q[i]
    BY <1>1 DEF Ahead
<1>4. ASSUME NEW i \in 1..(n + 1), NEW j \in 1..(n + 1), q1[i] = q1[j] PROVE i = j
  <2>1. /\ q1[i] = IF i = 1 THEN e ELSE q[i - 1]
        /\ q1[j] = IF j = 1 THEN e ELSE q[j - 1]
      BY DEF Ahead
  <2>2. (i # 1 => i - 1 \in 1..n) /\ (j # 1 => j - 1 \in 1..n)
      OBVIOUS
  <2>3. CASE i = 1 \/ j = 1
      BY <1>4, <2>1, <2>2, <2>3
  <2>4. CASE i # 1 /\ j # 1
    <3>1. PICK i1 \in 1..n, j1 \in 1..n : i1 = i - 1 /\ j1 = j - 1
        BY <2>2, <2>4
    <3>2. q[i1] = q[j1]
        BY <1>4, <2>1, <2>4, <3>1
    <3>3. i1 = j1
        BY <1>1, <3>2
    <3> QED
        BY <3>1, <3>3
  <2> QED
      BY <2>3, <2>4
<1>5. spot1(0) = ListHead /\ spot1(1) = e /\ \A i \in 1..(n + 1) : spot1(i + 1) = spot(i)
  <2>1. \A i \in 1..n : spot1(i + 1) = q[i]
      BY <1>3 DEF Spot
  <2>2. spot1(n + 1 + 1) = ListHead /\ spot1(0) = ListHead
      BY DEF Spot
  <2>3. spot1(1) = e
      BY <1>3 DEF Spot
  <2>4. ASSUME NEW i \in 1..(n + 1) PROVE spot1(i + 1) = spot(i)
    <3>1. CASE i \in 1..n
        BY <1>2, <2>1, <3>1
    <3>2. CASE i = n + 1
        BY <1>2, <2>2, <3>2
    <3> QED
        BY <3>1, <3>2
  <2> QED
      BY <2>2, <2>3, <2>4
<1>6. l[ListHead].next = spot(1) /\ spot(1) \in Elements /\ spot(1) # e /\ e # ListHead
  <2>1. 0 \in 0..n /\ spot(0 + 1) = spot(1)
      OBVIOUS
  <2>2. e # ListHead
      BY AlarmAssumption
  <2>3. CASE n = 0
      BY <1>1, <1>2, <2>1, <2>2, <2>3
  <2>4. CASE n # 0
      BY <1>1, <1>2, <2>1, <2>2, <2>4
  <2> QED
      BY <2>3, <2>4
<1> HIDE DEF spot, q1, spot1, k
<1>7. /\ k \in AllLinks
      /\ k[e].next = spot(1) /\ k[e].prev = ListHead
      /\ k[ListHead].next = e /\ k[spot(1)].prev = e
      /\ \A x \in Elements : /\ x # e /\ x # ListHead => k[x].next = l[x].next
                             /\ x # e /\ x # spot(1) => k[x].prev = l[x].prev
                             /\ x # e /\ x # ListHead /\ x # spot(1) => k[x] = l[x]
    BY <1>6, InsertedLinks DEF k
<1>8. ASSUME NEW i \in 0..(n + 1)
      PROVE  k[spot1(i)].next = spot1(i + 1) /\ k[spot1(i + 1)].prev = spot1(i)
  <2>1. CASE i = 0
      BY <1>5, <1>7, <2>1
  <2>2. CASE i = 1
    <3>1. spot1(1 + 1) = spot(1)
        BY <1>5
    <3> QED
        BY <1>5, <1>7, <2>2, <3>1
  <2>3. CASE i > 1
    <3>1. PICK j \in 1..n : i = j + 1
      <4>1. i - 1 \in 1..n /\ i = (i - 1) + 1
          BY <2>3
      <4> QED
          BY <4>1
    <3>2. spot1(i) = spot(j) /\ spot1(i + 1) = spot(j + 1)
      <4>1. j \in 1..(n + 1) /\ j + 1 \in 1..(n + 1)
          OBVIOUS
      <4> QED
          BY <1>5, <3>1, <4>1
    <3>3. spot(j) # ListHead /\ spot(j) # e /\ spot(j) \in Elements
        BY <1>2
    <3>4. spot(j + 1) # spot(1) /\ spot(j + 1) \in Elements /\ spot(j + 1) # e
      <4>1. j + 1 \in 1..(n + 1) /\ 1 \in 1..(n + 1) /\ j + 1 # 1
          OBVIOUS
      <4>2. spot(j + 1) # spot(1)
          BY <1>2, <4>1
      <4>3. CASE j + 1 \in 1..n
          BY <1>2, <4>2, <4>3
      <4>4. CASE j + 1 = n + 1
          BY <1>2, <1>6, <4>2, <4>4
      <4> QED
          BY <4>1, <4>3, <4>4
    <3>5. l[spot(j)].next = spot(j + 1) /\ l[spot(j + 1)].prev = spot(j)
        BY <1>1
    <3> QED
        BY <1>7, <3>2, <3>3, <3>4, <3>5
  <2> QED
      BY <2>1, <2>2, <2>3
<1>9. ASSUME NEW x \in Alarms, x # e, \A i \in 1..n : q[i] # x PROVE k[x] = l[x]
  <2>1. x # ListHead /\ x \in Elements
      BY AlarmAssumption DEF Elements
  <2>2. x # spot(1)
    <3>1. 1 \in 1..n \/ 1 = n + 1
        OBVIOUS
    <3> QED
        BY <1>2, <1>9, <2>1, <3>1
  <2> QED
      BY <1>7, <1>9, <2>1, <2>2
<1> QED
    BY <1>3, <1>4, <1>7, <1>8, <1>9 DEF Ring, k, spot1, q1

(* alt_llist_remove takes any element out of the ring it is in.            *)
Without(q, n, p) == [i \in 1..(n - 1) |-> IF i < p THEN q[i] ELSE q[i + 1]]
LEMMA RemoveRing ==
    ASSUME NEW l \in AllLinks, NEW n \in Nat, NEW q, Ring(l, q, n), NEW p \in 1..n
    PROVE  /\ Removed(l, q[p]) \in AllLinks /\ Ring(Removed(l, q[p]), Without(q, n, p), n - 1)
           /\ Removed(l, q[p])[q[p]] = [next |-> q[p], prev |-> q[p]]
           /\ \A x \in Alarms : (\A i \in 1..n : q[i] # x) => Removed(l, q[p])[x] = l[x]
<1> DEFINE spot(i) == Spot(q, n, i)
           q1 == Without(q, n, p)
           spot1(i) == Spot(q1, n - 1, i)
           e == q[p]
           k == Removed(l, e)
<1>1. /\ q \in [1..n -> Alarms] /\ \A i, j \in 1..n : q[i] = q[j] => i = j
      /\ \A i \in 0..n : l[spot(i)].next = spot(i + 1) /\ l[spot(i + 1)].prev = spot(i)
    BY DEF Ring
<1>2. /\ \A i \in Int : spot(i) \in Elements
      /\ \A i \in 1..n : spot(i) = q[i] /\ spot(i) \in Alarms /\ spot(i) # ListHead
      /\ spot(0) = ListHead /\ spot(n + 1) = ListHead
      /\ \A i, j \in 0..n : spot(i) = spot(j) => i = j
      /\ \A i, j \in 1..(n + 1) : spot(i) = spot(j) => i = j
  <2>1. /\ \A i \in Int : Spot(q, n, i) \in Elements
        /\ \A i \in 1..n : /\ Spot(q, n, i) = q[i]
                           /\ Spot(q, n, i) \in Alarms /\ Spot(q, n, i) # ListHead
        /\ Spot(q, n, 0) = ListHead /\ Spot(q, n, n + 1) = ListHead
        /\ \A i, j \in 0..n : Spot(q, n, i) = Spot(q, n, j) => i = j
        /\ \A i, j \in 1..(n + 1) : Spot(q, n, i) = Spot(q, n, j) => i = j
      BY <1>1, SpotElements
  <2> QED
      BY <2>1
<1>3. /\ q1 \in [1..(n - 1) -> Alarms]
      /\ \A i \in 1..(n - 1) : q1[i] = IF i < p THEN q[i] ELSE q[i + 1]
  <2>1. \A i \in 1..(n - 1) : i \in 1..n /\ i + 1 \in 1..n
      OBVIOUS
  <2> QED
      BY <1>1, <2>1 DEF Without
<1>4. ASSUME NEW i \in 1..(n - 1), NEW j \in 1..(n - 1), q1[i] = q1[j] PROVE i = j
  <2>1. PICK i1 \in 1..n : i1 = IF i < p THEN i ELSE i + 1
      OBVIOUS
  <2>2. PICK j1 \in 1..n : j1 = IF j < p THEN j ELSE j + 1
      OBVIOUS
  <2>3. q[i1] = q[j1]
      BY <1>3, <1>4, <2>1, <2>2
  <2>4. i1 = j1
      BY <1>1, <2>3
  <2> QED
      BY <2>1, <2>2, <2>4
<1>5. \A i \in 0..n : spot1(i) = spot(IF i < p THEN i ELSE i + 1)
  <2>1. ASSUME NEW i \in 0..n PROVE spot1(i) = spot(IF i < p THEN i ELSE i + 1)
    <3>1. CASE i = 0
        BY <1>2, <3>1 DEF Spot
    <3>2. CASE i = n
        BY <1>2, <3>2 DEF Spot
    <3>3. CASE i \in 1..(n - 1)
      <4>1. spot1(i) = IF i < p THEN q[i] ELSE q[i + 1]
          BY <1>3, <3>3 DEF Spot
      <4>2. i \in 1..n /\ i + 1 \in 1..n
          BY <3>3
      <4> QED
          BY <1>2, <4>1, <4>2
    <3> QED
        BY <3>1, <3>2, <3>3
  <2> QED
      BY <2>1
<1> HIDE DEF spot, q1, spot1
<1>6. /\ e \in Alarms /\ e = spot(p) /\ p + 1 \in 1..(n + 1) /\ p - 1 \in 0..n /\ (p - 1) + 1 = p
      /\ l[e].next = spot(p + 1) /\ l[e].prev = spot(p - 1)
      /\ spot(p + 1) # e /\ spot(p - 1) # e /\ spot(p + 1) \in Elements /\ spot(p - 1) \in Elements
  <2>1. p \in 0..n /\ p + 1 \in 1..(n + 1) /\ p - 1 \in 0..n /\ (p - 1) + 1 = p /\ p \in 1..(n + 1)
      OBVIOUS
  <2>2. e = spot(p) /\ e \in Alarms
      BY <1>2
  <2>3. l[spot(p)].next = spot(p + 1)
      BY <1>1, <2>1
  <2>4. l[spot(p)].prev = spot(p - 1)
      BY <1>1, <2>1
  <2>5. spot(p + 1) # spot(p)
      BY <1>2, <2>1
  <2>6. spot(p - 1) # spot(p)
      BY <1>2, <2>1
  <2> QED
      BY <1>2, <2>1, <2>2, <2>3, <2>4, <2>5, <2>6
<1> HIDE DEF e, k
<1>7. /\ k \in AllLinks
      /\ k[spot(p - 1)].next = spot(p + 1) /\ k[spot(p + 1)].prev = spot(p - 1)
      /\ \A x \in Elements : /\ x # e /\ x # spot(p - 1) => k[x].next = l[x].next
                             /\ x # e /\ x # spot(p + 1) => k[x].prev = l[x].prev
                             /\ x # e /\ x # spot(p - 1) /\ x # spot(p + 1) => k[x] = l[x]
      /\ k[e] = [next |-> e, prev |-> e]
  <2>1. PICK a \in Elements, b \in Elements :
            a = spot(p + 1) /\ b = spot(p - 1) /\ a # e /\ b # e /\ a = l[e].next /\ b = l[e].prev
      BY <1>6
  <2>2. k = Removed(l, e) /\ e \in Alarms
      BY <1>6 DEF k
  <2>3. /\ k \in AllLinks /\ k[e] = [next |-> e, prev |-> e]
        /\ k[b].next = a /\ k[a].prev = b
        /\ \A x \in Elements : /\ x # e /\ x # b => k[x].next = l[x].next
                               /\ x # e /\ x # a => k[x].prev = l[x].prev
                               /\ x # e /\ x # b /\ x # a => k[x] = l[x]
      BY <2>1, <2>2, RemovedLinks
  <2> QED
      BY <2>1, <2>3
<1>8. ASSUME NEW i \in 0..(n - 1)
      PROVE  k[spot1(i)].next = spot1(i + 1) /\ k[spot1(i + 1)].prev = spot1(i)
  <2>1. i \in 0..n /\ i + 1 \in 0..n /\ i + 1 \in 1..(n + 1) /\ p \in 0..n /\ p \in 1..(n + 1)
      OBVIOUS
  <2>2. CASE i + 1 < p
    <3>1. spot1(i) = spot(i) /\ spot1(i + 1) = spot(i + 1)
        BY <1>5, <2>1, <2>2
    <3>2. spot(i) # e /\ spot(i) # spot(p - 1)
        BY <1>2, <1>6, <2>1, <2>2
    <3>3. spot(i + 1) # e /\ spot(i + 1) # spot(p + 1)
        BY <1>2, <1>6, <2>1, <2>2
    <3>4. l[spot(i)].next = spot(i + 1) /\ l[spot(i + 1)].prev = spot(i)
        BY <1>1, <2>1
    <3> QED
        BY <1>2, <1>7, <3>1, <3>2, <3>3, <3>4
  <2>3. CASE i + 1 = p
    <3>1. spot1(i) = spot(p - 1) /\ spot1(i + 1) = spot(p + 1)
      <4>1. i = p - 1 /\ i < p /\ ~(i + 1 < p) /\ (i + 1) + 1 = p + 1
          BY <2>3
      <4> QED
          BY <1>5, <2>1, <4>1
    <3> QED
        BY <1>7, <3>1
  <2>4. CASE i + 1 > p
    <3>1. PICK j \in 1..n : j = i + 1 /\ j > p
        BY <2>4
    <3>2. spot1(i) = spot(j) /\ spot1(i + 1) = spot(j + 1)
      <4>1. ~(i < p) /\ ~(i + 1 < p) /\ (i + 1) + 1 = j + 1
          BY <2>4, <3>1
      <4> QED
          BY <1>5, <2>1, <3>1, <4>1
    <3>3. j \in 0..n /\ j + 1 \in 1..(n + 1) /\ j # p /\ j # p - 1 /\ j + 1 # p /\ j + 1 # p + 1
        BY <3>1
    <3>4. spot(j) # e /\ spot(j) # spot(p - 1)
        BY <1>2, <1>6, <2>1, <3>3
    <3>5. spot(j + 1) # e /\ spot(j + 1) # spot(p + 1)
        BY <1>2, <1>6, <2>1, <3>3
    <3>6. l[spot(j)].next = spot(j + 1) /\ l[spot(j + 1)].prev = spot(j)
        BY <1>1, <3>3
    <3> QED
        BY <1>2, <1>7, <3>2, <3>3, <3>4, <3>5, <3>6
  <2> QED
      BY <2>2, <2>3, <2>4
<1>9. ASSUME NEW x \in Alarms, \A i \in 1..n : q[i] # x PROVE k[x] = l[x]
  <2>1. x # ListHead /\ x \in Elements
      BY AlarmAssumption DEF Elements
  <2>2. x # spot(p + 1) /\ x # spot(p - 1)
    <3>1. (p + 1 \in 1..n \/ p + 1 = n + 1) /\ (p - 1 \in 1..n \/ p - 1 = 0)
        OBVIOUS
    <3> QED
        BY <1>2, <1>9, <2>1, <3>1
  <2>3. x # e
      BY <1>9 DEF e
  <2> QED
      BY <1>7, <2>1, <2>2, <2>3
<1> QED
    BY <1>3, <1>4, <1>7, <1>8, <1>9 DEF Ring, k, spot1, q1, e

(* The ring l of the alarms G, and a place x from which P are to come.     *)
FromAt(l, x, G, P, n, q, p) ==
    Ring(l, q, n) /\ G = {q[i] : i \in 1..n} /\ x = Spot(q, n, p) /\ P = {q[i] : i \in p..n}
From(l, x, G, P) ==
    \E n \in Nat : \E q \in [1..n -> Alarms] : \E p \in 1..(n + 1) : FromAt(l, x, G, P, n, q, p)

LEMMA FromFirst ==
    ASSUME NEW l, NEW x, NEW G, NEW P, From(l, x, G, P) PROVE From(l, l[ListHead].next, G, G)
<1>n. PICK n \in Nat : \E q \in [1..n -> Alarms] : \E p \in 1..(n + 1) : FromAt(l, x, G, P, n, q, p)
    BY DEF From
<1>q. PICK q \in [1..n -> Alarms] : \E p \in 1..(n + 1) : FromAt(l, x, G, P, n, q, p)
    BY <1>n
<1>p. PICK p \in 1..(n + 1) : FromAt(l, x, G, P, n, q, p)
    BY <1>q
<1>1. Ring(l, q, n) /\ G = {q[i] : i \in 1..n}
    BY <1>p DEF FromAt
<1>2. \A i \in 0..n : l[Spot(q, n, i)].next = Spot(q, n, i + 1)
    BY <1>1 DEF Ring
<1>3. Spot(q, n, 0) = ListHead /\ 0 \in 0..n /\ 0 + 1 = 1 /\ 1 \in 1..(n + 1)
    BY DEF Spot
<1>4. l[ListHead].next = Spot(q, n, 1)
    BY <1>2, <1>3
<1> QED
    BY <1>1, <1>3, <1>4 DEF From, FromAt

LEMMA FromHere ==
    ASSUME NEW l, NEW x, NEW G, NEW P, From(l, x, G, P)
    PROVE  /\ x \in Elements /\ G \subseteq Alarms /\ P \subseteq G
           /\ x = ListHead => P = {}
           /\ x \in Alarms => x \in P
<1>n. PICK n \in Nat : \E q \in [1..n -> Alarms] : \E p \in 1..(n + 1) : FromAt(l, x, G, P, n, q, p)
    BY DEF From
<1>q. PICK q \in [1..n -> Alarms] : \E p \in 1..(n + 1) : FromAt(l, x, G, P, n, q, p)
    BY <1>n
<1>p. PICK p \in 1..(n + 1) : FromAt(l, x, G, P, n, q, p)
    BY <1>q
<1>1. Ring(l, q, n) /\ G = {q[i] : i \in 1..n} /\ x = Spot(q, n, p) /\ P = {q[i] : i \in p..n}
    BY <1>p DEF FromAt
<1>2. \A i, j \in 1..n : q[i] = q[j] => i = j
    BY <1>1 DEF Ring
<1>3. /\ \A i \in Int : Spot(q, n, i) \in Elements
      /\ \A i \in 1..n : Spot(q, n, i) = q[i] /\ Spot(q, n, i) # ListHead
      /\ Spot(q, n, n + 1) = ListHead
    BY <1>2, SpotElements
<1>4. p \in 1..n \/ p = n + 1
    OBVIOUS
<1>5. \A i \in p..n : i \in 1..n
    OBVIOUS
<1>6. G \subseteq Alarms /\ P \subseteq G
    BY <1>1, <1>5
<1>7. CASE p \in 1..n
  <2>1. x = q[p] /\ x # ListHead /\ p \in p..n
      BY <1>1, <1>3, <1>7
  <2> QED
      BY <1>1, <1>3, <1>6, <2>1
<1>8. CASE p = n + 1
  <2>1. p..n = {}
      BY <1>8
  <2>2. x = ListHead /\ ListHead \notin Alarms
      BY <1>1, <1>3, <1>8, AlarmAssumption
  <2> QED
      BY <1>1, <1>3, <1>6, <2>1, <2>2
<1> QED
    BY <1>4, <1>7, <1>8

LEMMA FromNext ==
    ASSUME NEW l, NEW x \in Alarms, NEW G, NEW P, From(l, x, G, P)
    PROVE  From(l, l[x].next, G, P \ {x}) /\ l[x].next # x
<1>n. PICK n \in Nat : \E q \in [1..n -> Alarms] : \E p \in 1..(n + 1) : FromAt(l, x, G, P, n, q, p)
    BY DEF From
<1>q. PICK q \in [1..n -> Alarms] : \E p \in 1..(n + 1) : FromAt(l, x, G, P, n, q, p)
    BY <1>n
<1>p. PICK p \in 1..(n + 1) : FromAt(l, x, G, P, n, q, p)
    BY <1>q
<1>1. Ring(l, q, n) /\ G = {q[i] : i \in 1..n} /\ x = Spot(q, n, p) /\ P = {q[i] : i \in p..n}
    BY <1>p DEF FromAt
<1>2. \A i, j \in 1..n : q[i] = q[j] => i = j
    BY <1>1 DEF Ring
<1>3. /\ \A i \in 1..n : Spot(q, n, i) = q[i] /\ Spot(q, n, i) # ListHead
      /\ Spot(q, n, n + 1) = ListHead
      /\ \A i, j \in 1..(n + 1) : Spot(q, n, i) = Spot(q, n, j) => i = j
    BY <1>2, SpotElements
<1>4. p \in 1..n /\ p \in 0..n /\ p + 1 \in 1..(n + 1) /\ p \in 1..(n + 1)
  <2>1. x # ListHead
      BY AlarmAssumption
  <2>2. p # n + 1
      BY <1>1, <1>3, <2>1
  <2> QED
      BY <2>2
<1>5. l[x].next = Spot(q, n, p + 1)
    BY <1>1, <1>4 DEF Ring
<1>6. Spot(q, n, p + 1) # x
    BY <1>1, <1>3, <1>4
<1>7. P \ {x} = {q[i] : i \in (p + 1)..n}
  <2>1. x = q[p]
      BY <1>1, <1>3, <1>4
  <2>2. \A i \in p..n : i \in 1..n /\ (i = p \/ i \in (p + 1)..n)
      OBVIOUS
  <2>3. \A i \in (p + 1)..n : i \in 1..n /\ i \in p..n /\ i # p
      OBVIOUS
  <2> QED
      BY <1>1, <1>2, <1>4, <2>1, <2>2, <2>3
<1> QED
    BY <1>1, <1>4, <1>5, <1>6, <1>7 DEF From, FromAt

LEMMA FromInsert ==
    ASSUME NEW l \in AllLinks, NEW x, NEW G, NEW P, From(l, x, G, P), NEW e \in Alarms \ G
    PROVE  /\ Inserted(l, e) \in AllLinks /\ From(Inserted(l, e), x, G \union {e}, P)
           /\ \A a \in Alarms \ (G \union {e}) : Inserted(l, e)[a] = l[a]
<1>n. PICK n \in Nat : \E q \in [1..n -> Alarms] : \E p \in 1..(n + 1) : FromAt(l, x, G, P, n, q, p)
    BY DEF From
<1>q. PICK q \in [1..n -> Alarms] : \E p \in 1..(n + 1) : FromAt(l, x, G, P, n, q, p)
    BY <1>n
<1>p. PICK p \in 1..(n + 1) : FromAt(l, x, G, P, n, q, p)
    BY <1>q
<1>1. Ring(l, q, n) /\ G = {q[i] : i \in 1..n} /\ x = Spot(q, n, p) /\ P = {q[i] : i \in p..n}
    BY <1>p DEF FromAt
<1>2. PICK k, q1 : k = Inserted(l, e) /\ q1 = Ahead(q, n, e)
    OBVIOUS
<1>3. \A i \in 1..n : q[i] # e
    BY <1>1
<1>4. /\ k \in AllLinks /\ Ring(k, q1, n + 1)
      /\ \A a \in Alarms : a # e /\ (\A i \in 1..n : q[i] # a) => k[a] = l[a]
    BY <1>1, <1>2, <1>3, InsertRing
<1>5. q1 \in [1..(n + 1) -> Alarms] /\ q1[1] = e
      /\ \A i \in 1..n : q1[i + 1] = q[i]
      /\ \A j \in 2..(n + 1) : q1[j] = q[j - 1]
  <2>1. q1 \in [1..(n + 1) -> Alarms]
      BY <1>4 DEF Ring
  <2>2. \A i \in 1..(n + 1) : q1[i] = IF i = 1 THEN e ELSE q[i - 1]
      BY <1>2 DEF Ahead
  <2> QED
      BY <2>1, <2>2
<1>6. G \union {e} = {q1[i] : i \in 1..(n + 1)}
  <2>1. ASSUME NEW i \in 1..(n + 1) PROVE q1[i] \in G \union {e}
    <3>1. i = 1 \/ (i \in 2..(n + 1) /\ i - 1 \in 1..n)
        OBVIOUS
    <3> QED
        BY <1>1, <1>5, <3>1
  <2>2. ASSUME NEW i \in 1..n PROVE \E j \in 1..(n + 1) : q1[j] = q[i]
    <3>1. i + 1 \in 1..(n + 1)
        OBVIOUS
    <3> QED
        BY <1>5, <3>1
  <2>3. \E j \in 1..(n + 1) : q1[j] = e
    <3>1. 1 \in 1..(n + 1)
        OBVIOUS
    <3> QED
        BY <1>5, <3>1
  <2> QED
      BY <1>1, <2>1, <2>2, <2>3
<1>7. P = {q1[i] : i \in (p + 1)..(n + 1)}
  <2>1. \A i \in (p + 1)..(n + 1) : i \in 2..(n + 1) /\ i - 1 \in p..n
      OBVIOUS
  <2>2. \A i \in p..n : i + 1 \in (p + 1)..(n + 1) /\ i \in 1..n
      OBVIOUS
  <2> QED
      BY <1>1, <1>5, <2>1, <2>2, SMTT(30)
<1>8. x = Spot(q1, n + 1, p + 1) /\ p + 1 \in 1..(n + 1 + 1) /\ n + 1 \in Nat
  <2>1. CASE p \in 1..n
    <3>1. Spot(q, n, p) = q[p] /\ Spot(q1, n + 1, p + 1) = q1[p + 1]
        BY <2>1 DEF Spot
    <3> QED
        BY <1>1, <1>5, <2>1, <3>1
  <2>2. CASE p = n + 1
      BY <1>1, <2>2 DEF Spot
  <2> QED
      BY <2>1, <2>2
<1>9. From(k, x, G \union {e}, P)
    BY <1>4, <1>5, <1>6, <1>7, <1>8 DEF From, FromAt
<1>10. \A a \in Alarms \ (G \union {e}) : k[a] = l[a]
    BY <1>1, <1>4
<1> QED
    BY <1>2, <1>4, <1>9, <1>10

LEMMA FromRemove ==
    ASSUME NEW l \in AllLinks, NEW x, NEW G, NEW P, From(l, x, G, P), NEW e \in G, e # x,
           NEW k, k = Removed(l, e)
    PROVE  /\ k \in AllLinks /\ From(k, x, G \ {e}, P \ {e}) /\ k[e] = [next |-> e, prev |-> e]
           /\ \A a \in Alarms \ G : k[a] = l[a]
<1>n. PICK n \in Nat : \E q \in [1..n -> Alarms] : \E p \in 1..(n + 1) : FromAt(l, x, G, P, n, q, p)
    BY DEF From
<1>q. PICK q \in [1..n -> Alarms] : \E p \in 1..(n + 1) : FromAt(l, x, G, P, n, q, p)
    BY <1>n
<1>p. PICK p \in 1..(n + 1) : FromAt(l, x, G, P, n, q, p)
    BY <1>q
<1>1. Ring(l, q, n) /\ G = {q[i] : i \in 1..n} /\ x = Spot(q, n, p) /\ P = {q[i] : i \in p..n}
    BY <1>p DEF FromAt
<1>2. PICK m \in 1..n : e = q[m]
    BY <1>1
<1>3. PICK q1 : q1 = Without(q, n, m)
    OBVIOUS
<1>4. /\ k \in AllLinks /\ Ring(k, q1, n - 1) /\ k[e] = [next |-> e, prev |-> e]
      /\ \A a \in Alarms : (\A i \in 1..n : q[i] # a) => k[a] = l[a]
    BY <1>1, <1>2, <1>3, RemoveRing
<1>5. \A i, j \in 1..n : q[i] = q[j] => i = j
    BY <1>1 DEF Ring
<1>6. q1 \in [1..(n - 1) -> Alarms] /\ n - 1 \in Nat
      /\ \A i \in 1..(n - 1) : q1[i] = IF i < m THEN q[i] ELSE q[i + 1]
  <2>1. q1 \in [1..(n - 1) -> Alarms]
      BY <1>4 DEF Ring
  <2> QED
      BY <1>3, <2>1 DEF Without
<1>7. \A i \in 1..n : i # m <=> q[i] # e
    BY <1>2, <1>5
<1>8. ASSUME NEW s \in 1..(n + 1), NEW t \in 1..n, t = IF s > m THEN s - 1 ELSE s
      PROVE  {q[i] : i \in s..n} \ {e} = {q1[i] : i \in t..(n - 1)}
  <2>1. ASSUME NEW i \in s..n, q[i] # e PROVE \E j \in t..(n - 1) : q1[j] = q[i]
    <3>1. i \in 1..n /\ i # m
        BY <1>2, <2>1
    <3>2. CASE i < m
      <4>1. i \in t..(n - 1) /\ i \in 1..(n - 1)
          BY <1>8, <3>1, <3>2
      <4> QED
          BY <1>6, <3>2, <4>1
    <3>3. CASE i > m
      <4>1. i - 1 \in t..(n - 1) /\ i - 1 \in 1..(n - 1) /\ ~(i - 1 < m) /\ (i - 1) + 1 = i
          BY <1>8, <3>1, <3>3
      <4>2. q1[i - 1] = q[(i - 1) + 1]
          BY <1>6, <4>1
      <4> QED
          BY <4>1, <4>2
    <3> QED
        BY <3>1, <3>2, <3>3
  <2>2. ASSUME NEW j \in t..(n - 1) PROVE \E i \in s..n : q[i] = q1[j] /\ q[i] # e
    <3>1. j \in 1..(n - 1) /\ j \in 1..n /\ j + 1 \in 1..n
        OBVIOUS
    <3>2. CASE j < m
      <4>1. j \in s..n /\ j # m
          BY <1>8, <3>1, <3>2
      <4> QED
          BY <1>6, <1>7, <3>1, <3>2, <4>1
    <3>3. CASE ~(j < m)
      <4>1. j + 1 \in s..n /\ j + 1 # m
          BY <1>8, <3>1, <3>3
      <4> QED
          BY <1>6, <1>7, <3>1, <3>3, <4>1
    <3> QED
        BY <3>2, <3>3
  <2>3. ASSUME NEW z, z \in {q[i] : i \in s..n}, z # e PROVE z \in {q1[j] : j \in t..(n - 1)}
    <3>1. PICK i \in s..n : z = q[i]
        BY <2>3
    <3> QED
        BY <2>1, <2>3, <3>1
  <2>4. ASSUME NEW z, z \in {q1[j] : j \in t..(n - 1)} PROVE z \in {q[i] : i \in s..n} \ {e}
    <3>1. PICK j \in t..(n - 1) : z = q1[j]
        BY <2>4
    <3> QED
        BY <2>2, <3>1
  <2> QED
      BY <2>3, <2>4
<1>9. G \ {e} = {q1[i] : i \in 1..(n - 1)}
  <2>1. 1 \in 1..(n + 1) /\ 1 \in 1..n /\ 1 = IF 1 > m THEN 1 - 1 ELSE 1
      OBVIOUS
  <2>2. {q[i] : i \in 1..n} \ {e} = {q1[i] : i \in 1..(n - 1)}
      BY <1>8, <2>1
  <2> QED
      BY <1>1, <2>2
<1>10. p # m
  <2>1. p = m => Spot(q, n, p) = q[m]
      BY DEF Spot
  <2> QED
      BY <1>1, <1>2, <2>1
<1>11. PICK t \in 1..n : t = IF p > m THEN p - 1 ELSE p
    BY <1>10
<1>12. P \ {e} = {q1[i] : i \in t..(n - 1)}
    BY <1>1, <1>8, <1>11
<1>13. x = Spot(q1, n - 1, t) /\ t \in 1..((n - 1) + 1)
  <2>1. CASE p = n + 1
    <3>1. t = n /\ t \notin 1..(n - 1)
        BY <1>11, <2>1
    <3>2. x = ListHead
        BY <1>1, <2>1 DEF Spot
    <3> QED
        BY <3>1, <3>2 DEF Spot
  <2>2. CASE p \in 1..n
    <3>1. t \in 1..(n - 1) /\ (t < m => t = p) /\ (~(t < m) => t + 1 = p)
        BY <1>10, <1>11, <2>2
    <3>2. Spot(q1, n - 1, t) = q1[t] /\ Spot(q, n, p) = q[p]
        BY <2>2, <3>1 DEF Spot
    <3>3. q1[t] = q[p]
        BY <1>6, <3>1
    <3> QED
        BY <1>1, <3>1, <3>2, <3>3
  <2> QED
      BY <2>1, <2>2
<1>14. From(k, x, G \ {e}, P \ {e})
  <2>1. FromAt(k, x, G \ {e}, P \ {e}, n - 1, q1, t)
      BY <1>4, <1>9, <1>12, <1>13 DEF FromAt
  <2>2. PICK h \in Nat : h = n - 1
      BY <1>6
  <2>3. FromAt(k, x, G \ {e}, P \ {e}, h, q1, t) /\ q1 \in [1..h -> Alarms] /\ t \in 1..(h + 1)
      BY <1>6, <1>13, <2>1, <2>2
  <2> QED
      BY <2>3 DEF From
<1>15. \A a \in Alarms \ G : k[a] = l[a]
    BY <1>1, <1>4
<1> QED
    BY <1>3, <1>4, <1>14, <1>15

(* The time of an alarm whose callback is d ticks away, outside alt_tick   *)
(* and before it has looked at the alarm: d is less than a turn of the     *)
(* counter, and the rollover marks a time behind the counter.              *)
Settled(now, t, r, d) == d \in 1..(TickMod - 1) /\ t = Wrap(now + d) /\ (r <=> t < now)
Pending(now, t, r, d) == d \in 0..(TickMod - 2) /\ t = Wrap(now + d) /\ (r <=> t < Wrap(now - 1))

LEMMA WrapTicks ==
    \A x \in Int : /\ x \in 0..(TickMod - 1) => Wrap(x) = x
                   /\ x \in TickMod..(2 * TickMod - 1) => Wrap(x) = x - TickMod
                   /\ x = -1 => Wrap(x) = TickMod - 1
<1>1. TickMod \in Nat \ {0} /\ TickMod > 1
    BY AlarmAssumption
<1>2. /\ \A q \in Int, j \in 0..(TickMod - 1) :
            (q * TickMod + j) \div TickMod = q /\ (q * TickMod + j) % TickMod = j
      /\ \A a \in Int : (a + TickMod) \div TickMod = (a \div TickMod) + 1
                        /\ (a + TickMod) % TickMod = a % TickMod
    BY <1>1, Quotients
<1>3. ASSUME NEW x \in 0..(TickMod - 1) PROVE x % TickMod = x
  <2>1. (0 * TickMod + x) % TickMod = x
      BY <1>2
  <2>2. 0 * TickMod + x = x
      BY <1>1
  <2> QED
      BY <2>1, <2>2
<1>4. ASSUME NEW x \in Int, x \in TickMod..(2 * TickMod - 1) PROVE x % TickMod = x - TickMod
  <2>1. PICK a \in 0..(TickMod - 1) : a = x - TickMod /\ x = a + TickMod
      BY <1>1, <1>4
  <2>2. x % TickMod = a % TickMod
      BY <1>2, <2>1
  <2> QED
      BY <1>3, <2>1, <2>2
<1>5. (-1) % TickMod = TickMod - 1
  <2>1. PICK a \in Int : a = -1
      OBVIOUS
  <2>2. PICK b \in 0..(TickMod - 1) : b = TickMod - 1
      BY <1>1
  <2>3. a + TickMod = b
      BY <1>1, <2>1, <2>2
  <2>4. (a + TickMod) % TickMod = a % TickMod
      BY <1>2
  <2> QED
      BY <1>3, <2>1, <2>2, <2>3, <2>4
<1> QED
    BY <1>3, <1>4, <1>5 DEF Wrap

LEMMA WrapSum ==
    ASSUME NEW now \in 0..(TickMod - 1), NEW d \in 0..(TickMod - 1)
    PROVE  /\ Wrap(now + d) = IF now + d < TickMod THEN now + d ELSE now + d - TickMod
           /\ Wrap(now + d) \in 0..(TickMod - 1)
           /\ Wrap(now - 1) = IF now = 0 THEN TickMod - 1 ELSE now - 1
           /\ Wrap(now + 1) = IF now = TickMod - 1 THEN 0 ELSE now + 1
<1>1. TickMod \in Nat /\ TickMod > 1
    BY AlarmAssumption
<1>2. Wrap(now + d) = IF now + d < TickMod THEN now + d ELSE now + d - TickMod
  <2>1. PICK x \in Int : x = now + d
      OBVIOUS
  <2>2. (x \in 0..(TickMod - 1) => Wrap(x) = x)
        /\ (x \in TickMod..(2 * TickMod - 1) => Wrap(x) = x - TickMod)
      BY WrapTicks
  <2> QED
      BY <1>1, <2>1, <2>2
<1>3. Wrap(now - 1) = IF now = 0 THEN TickMod - 1 ELSE now - 1
  <2>1. PICK x \in Int : x = now - 1
      OBVIOUS
  <2>2. (x \in 0..(TickMod - 1) => Wrap(x) = x) /\ (x = -1 => Wrap(x) = TickMod - 1)
      BY WrapTicks
  <2> QED
      BY <1>1, <2>1, <2>2
<1>4. Wrap(now + 1) = IF now = TickMod - 1 THEN 0 ELSE now + 1
  <2>1. PICK x \in Int : x = now + 1
      OBVIOUS
  <2>2. (x \in 0..(TickMod - 1) => Wrap(x) = x)
        /\ (x \in TickMod..(2 * TickMod - 1) => Wrap(x) = x - TickMod)
      BY WrapTicks
  <2> QED
      BY <1>1, <2>1, <2>2
<1> QED
    BY <1>1, <1>2, <1>3, <1>4

(* alt_alarm_start, for any interval but the one of a whole turn.          *)
LEMMA StartSettled ==
    ASSUME NEW now \in 0..(TickMod - 1), NEW i \in Intervals, TickMod - 1 \notin Intervals,
           NEW t, t = Wrap(i + now + 1), NEW r, r <=> t < now
    PROVE  Settled(now, t, r, i + 1) /\ t \in 0..(TickMod - 1)
<1>1. i \in 0..(TickMod - 2) /\ TickMod \in Nat /\ TickMod > 1
    BY AlarmAssumption
<1>2. PICK d \in 1..(TickMod - 1) : d = i + 1 /\ now + d = i + now + 1
    BY <1>1
<1>3. Wrap(now + d) \in 0..(TickMod - 1)
    BY <1>1, WrapSum
<1> QED
    BY <1>2, <1>3 DEF Settled

(* The head of alt_tick moves the counter.                                 *)
LEMMA TickPending ==
    ASSUME NEW now \in 0..(TickMod - 1), NEW t, NEW r, NEW d, Settled(now, t, r, d)
    PROVE  Pending(Wrap(now + 1), t, r, d - 1)
<1>1. TickMod \in Nat /\ TickMod > 1
    BY AlarmAssumption
<1>2. d \in 1..(TickMod - 1) /\ t = Wrap(now + d) /\ (r <=> t < now)
    BY DEF Settled
<1>3. PICK n \in 0..(TickMod - 1), c \in 0..(TickMod - 2) : n = Wrap(now + 1) /\ c = d - 1
    BY <1>1, <1>2, WrapSum
<1>4. n = IF now = TickMod - 1 THEN 0 ELSE now + 1
    BY <1>1, <1>3, WrapSum
<1>5. Wrap(now + d) = IF now + d < TickMod THEN now + d ELSE now + d - TickMod
    BY <1>1, <1>2, WrapSum
<1>6. /\ Wrap(n + c) = IF n + c < TickMod THEN n + c ELSE n + c - TickMod
      /\ Wrap(n - 1) = IF n = 0 THEN TickMod - 1 ELSE n - 1
  <2>1. c \in 0..(TickMod - 1)
      BY <1>1
  <2> QED
      BY <2>1, WrapSum
<1>7. Wrap(n + c) = t
    BY <1>1, <1>2, <1>3, <1>4, <1>5, <1>6
<1>8. Wrap(n - 1) = now
    BY <1>1, <1>4, <1>6
<1> QED
    BY <1>2, <1>3, <1>7, <1>8 DEF Pending

(* The walk of alt_tick expires the alarms that are due, and no other, and *)
(* leaves those with a rollover that is right for this tick.               *)
LEMMA PendingExpires ==
    ASSUME NEW now \in 0..(TickMod - 1), NEW t, NEW r, NEW d, Pending(now, t, r, d)
    PROVE  /\ t \in 0..(TickMod - 1)
           /\ d = 0 => t = now
           /\ (t <= now /\ ~(r /\ now # 0)) <=> d = 0
           /\ d # 0 => Settled(now, t, r /\ now # 0, d)
<1>1. TickMod \in Nat /\ TickMod > 1
    BY AlarmAssumption
<1>2. d \in 0..(TickMod - 2) /\ t = Wrap(now + d) /\ (r <=> t < Wrap(now - 1))
    BY DEF Pending
<1>3. d \in 0..(TickMod - 1)
    BY <1>1, <1>2
<1>4. /\ t = IF now + d < TickMod THEN now + d ELSE now + d - TickMod
      /\ Wrap(now - 1) = IF now = 0 THEN TickMod - 1 ELSE now - 1
    BY <1>2, <1>3, WrapSum
<1>5. t \in 0..(TickMod - 1) /\ (d = 0 => t = now)
    BY <1>1, <1>2, <1>4
<1>6. (r /\ now # 0) <=> t < now - 1
    BY <1>1, <1>2, <1>4, <1>5
<1>7. t # now - 1
    BY <1>1, <1>2, <1>4
<1>8. (t <= now /\ ~(t < now - 1)) <=> d = 0
    BY <1>1, <1>2, <1>4
<1>9. t < now - 1 <=> t < now
    BY <1>1, <1>5, <1>7, <1>8
<1> QED
    BY <1>2, <1>3, <1>5, <1>6, <1>8, <1>9 DEF Settled

(* The new time of a callback that asks for one.                           *)
LEMMA RearmSettled ==
    ASSUME NEW now \in 0..(TickMod - 1), NEW i \in Returns, i # 0, NEW t, t = Wrap(now + i),
           NEW r, r <=> t < now
    PROVE  Settled(now, t, r, i) /\ t \in 0..(TickMod - 1)
<1>1. i \in 1..(TickMod - 1) /\ i \in 0..(TickMod - 1)
    BY AlarmAssumption
<1> QED
    BY <1>1, WrapSum DEF Settled

(* The alarms that are not in the ring are null, or removed.               *)
Loose(l, G) == \A a \in Alarms \ G : \/ l[a] = [next |-> NoAlarm, prev |-> NoAlarm]
                                     \/ l[a] = [next |-> a, prev |-> a]

(* What starting and stopping an alarm does to the list, wherever alt_tick *)
(* goes on: only an alarm that was started is stopped, and not that one.   *)
LEMMA Insertion ==
    ASSUME NEW l \in AllLinks, NEW x, NEW G, NEW P, From(l, x, G, P), Loose(l, G),
           NEW e \in Alarms \ G
    PROVE  /\ Inserted(l, e) \in AllLinks
           /\ From(Inserted(l, e), x, G \union {e}, P \intersect (G \union {e}))
           /\ Loose(Inserted(l, e), G \union {e})
<1>1. P \intersect (G \union {e}) = P
    BY FromHere
<1>2. PICK k : k = Inserted(l, e)
    OBVIOUS
<1>3. /\ k \in AllLinks /\ From(k, x, G \union {e}, P)
      /\ \A a \in Alarms \ (G \union {e}) : k[a] = l[a]
    BY <1>2, FromInsert
<1>4. Loose(k, G \union {e})
    BY <1>3 DEF Loose
<1> QED
    BY <1>1, <1>2, <1>3, <1>4

LEMMA Removal ==
    ASSUME NEW l \in AllLinks, NEW x, NEW G, NEW P, From(l, x, G, P), Loose(l, G),
           NEW e \in Alarms, e # x, e \in G \/ l[e].next # NoAlarm
    PROVE  /\ Removed(l, e) \in AllLinks
           /\ From(Removed(l, e), x, G \ {e}, P \intersect (G \ {e}))
           /\ Loose(Removed(l, e), G \ {e})
           /\ Removed(l, e)[e] = [next |-> e, prev |-> e]
<1>1. P \subseteq G
    BY FromHere
<1>2. PICK k : k = Removed(l, e)
    OBVIOUS
<1>3. CASE e \in G
  <2>1. /\ k \in AllLinks /\ From(k, x, G \ {e}, P \ {e}) /\ k[e] = [next |-> e, prev |-> e]
        /\ \A a \in Alarms \ G : k[a] = l[a]
      BY <1>2, <1>3, FromRemove
  <2>2. P \intersect (G \ {e}) = P \ {e}
      BY <1>1
  <2>3. Loose(k, G \ {e})
      BY <2>1 DEF Loose
  <2> QED
      BY <1>2, <2>1, <2>2, <2>3
<1>4. CASE e \notin G
  <2>1. l[e] = [next |-> e, prev |-> e]
      BY <1>4 DEF Loose
  <2>2. Removed(l, e) = l
      BY <2>1, RemovedLoose
  <2>3. G \ {e} = G /\ P \intersect (G \ {e}) = P
      BY <1>1, <1>4
  <2> QED
      BY <2>1, <2>2, <2>3
<1> QED
    BY <1>3, <1>4

(* What a callback may do to the list l of the alarms G, when the walk     *)
(* goes on at x, and what becomes of them.                                 *)
EffectMay(e, l, G, x) ==
    /\ e.kind = "start" => e.alarm \notin G
    /\ e.kind = "stop" => l[e.alarm].next # NoAlarm /\ e.alarm # x
EffectOf(e, l, G, k, S) ==
    /\ e.kind = "stop" => k = Removed(l, e.alarm) /\ S = G \ {e.alarm}
    /\ e.kind = "start" => k = Inserted(l, e.alarm) /\ S = G \union {e.alarm}
    /\ e.kind = "none" => k = l /\ S = G

LEMMA EffectLinks ==
    ASSUME NEW l \in AllLinks, NEW x, NEW G, NEW P, From(l, x, G, P), Loose(l, G),
           NEW a \in G, NEW e \in Effects, EffectMay(e, l, G, x),
           NEW k, NEW S, EffectOf(e, l, G, k, S)
    PROVE  /\ k \in AllLinks /\ From(k, x, S, P \intersect S) /\ Loose(k, S)
           /\ a \in S \/ k[a].next # NoAlarm
<1>1. e.kind \in {"none", "stop", "start"} /\ (e.kind # "none" => e.alarm \in Alarms)
    BY DEF Effects
<1>2. P \subseteq G /\ G \subseteq Alarms
    BY FromHere
<1>3. CASE e.kind = "stop"
  <2>1. k = Removed(l, e.alarm) /\ S = G \ {e.alarm} /\ e.alarm \in Alarms
        /\ e.alarm # x /\ l[e.alarm].next # NoAlarm
      BY <1>1, <1>3 DEF EffectMay, EffectOf
  <2>2. /\ k \in AllLinks /\ From(k, x, S, P \intersect S) /\ Loose(k, S)
        /\ k[e.alarm] = [next |-> e.alarm, prev |-> e.alarm]
      BY <2>1, Removal
  <2>3. a = e.alarm => k[a].next # NoAlarm
      BY <2>1, <2>2, AlarmAssumption
  <2> QED
      BY <2>1, <2>2, <2>3
<1>4. CASE e.kind = "start"
  <2>1. k = Inserted(l, e.alarm) /\ S = G \union {e.alarm} /\ e.alarm \in Alarms \ G
      BY <1>1, <1>4 DEF EffectMay, EffectOf
  <2> QED
      BY <2>1, Insertion
<1>5. CASE e.kind = "none"
  <2>1. k = l /\ S = G /\ P \intersect S = P
      BY <1>2, <1>5 DEF EffectOf
  <2> QED
      BY <2>1
<1> QED
    BY <1>1, <1>3, <1>4, <1>5

(* Where the walk of alt_tick is; outside it, at its end.  What is still   *)
(* to come of it has not been looked at in this tick, all else is settled. *)
WalkAt == IF alarmAt = NoAlarm THEN ListHead ELSE alarmAt
Timed(a, P) ==
    IF a \in P THEN Pending(alarmTicks, time[a], rollover[a], due[a])
    ELSE Settled(alarmTicks, time[a], rollover[a], due[a])
AlarmInv ==
    /\ AlarmTypeOK /\ Loose(links, running)
    /\ \E P : From(links, WalkAt, running, P) /\ \A a \in running : Timed(a, P)

LEMMA AlarmInitInv == AlarmInit => AlarmInv
<1> SUFFICES ASSUME AlarmInit PROVE AlarmInv
    OBVIOUS
<1> USE DEF AlarmInit
<1>1. TickMod \in Nat /\ TickMod > 1 /\ ListHead \notin Alarms /\ NoAlarm \notin Elements
      /\ ListHead \in Elements /\ Alarms \subseteq Elements
    BY AlarmAssumption DEF Elements
<1>2. /\ links[ListHead].next = ListHead /\ links[ListHead].prev = ListHead
      /\ \A a \in Alarms : links[a] = [next |-> NoAlarm, prev |-> NoAlarm]
    BY <1>1
<1>3. AlarmTypeOK
    BY <1>1 DEF AlarmTypeOK
<1>4. PICK q \in [1..0 -> Alarms] : TRUE
  <2>1. [i \in 1..0 |-> ListHead] \in [1..0 -> Alarms]
      OBVIOUS
  <2> QED
      BY <2>1
<1>5. /\ 1..0 = {} /\ 0 \in Nat /\ 1 \in 1..(0 + 1)
      /\ Spot(q, 0, 0) = ListHead /\ Spot(q, 0, 1) = ListHead /\ Spot(q, 0, 0 + 1) = ListHead
    BY DEF Spot
<1>6. Ring(links, q, 0)
  <2>1. ASSUME NEW i \in 0..0
        PROVE  /\ links[Spot(q, 0, i)].next = Spot(q, 0, i + 1)
               /\ links[Spot(q, 0, i + 1)].prev = Spot(q, 0, i)
    <3>1. i = 0
        OBVIOUS
    <3> QED
        BY <1>2, <1>5, <3>1
  <2> QED
      BY <1>5, <2>1 DEF Ring
<1>7. FromAt(links, ListHead, {}, {}, 0, q, 1)
    BY <1>5, <1>6 DEF FromAt
<1>8. From(links, ListHead, {}, {})
    BY <1>5, <1>7 DEF From
<1> QED
    BY <1>2, <1>3, <1>8 DEF AlarmInv, WalkAt, Loose

LEMMA StartKept ==
    ASSUME IntervalsAssumed, AlarmInv, NEW b \in Alarms, NEW i \in Intervals, AlarmStart(b, i)
    PROVE  AlarmInv'
<1> USE DEF AlarmStart, Started
<1>1. PICK P : From(links, WalkAt, running, P) /\ \A a \in running : Timed(a, P)
    BY DEF AlarmInv
<1>2. AlarmTypeOK /\ Loose(links, running) /\ links \in AllLinks
    BY DEF AlarmInv, AlarmTypeOK, AllLinks
<1>3. P \subseteq running /\ WalkAt = ListHead /\ WalkAt' = ListHead
    BY <1>1, FromHere DEF WalkAt
<1>4. b \in Alarms \ running /\ links' = Inserted(links, b) /\ running' = running \union {b}
    OBVIOUS
<1>5. /\ links' \in AllLinks
      /\ From(links', ListHead, running', P \intersect running')
      /\ Loose(links', running')
    BY <1>1, <1>2, <1>3, <1>4, Insertion
<1>6. P \intersect running' = P
    BY <1>3, <1>4
<1>7. alarmTicks \in 0..(TickMod - 1) /\ alarmTicks' = alarmTicks
      /\ time' = [time EXCEPT ![b] = StartTime(i)] /\ due' = [due EXCEPT ![b] = i + 1]
      /\ rollover' = [rollover EXCEPT ![b] = StartTime(i) < alarmTicks]
    BY <1>2 DEF AlarmTypeOK
<1>8. Settled(alarmTicks, StartTime(i), StartTime(i) < alarmTicks, i + 1)
      /\ StartTime(i) \in 0..(TickMod - 1)
  <2>1. TickMod - 1 \notin Intervals
      BY DEF IntervalsAssumed
  <2>2. PICK t : t = StartTime(i)
      OBVIOUS
  <2>3. PICK r \in BOOLEAN : r <=> t < alarmTicks
      OBVIOUS
  <2>4. Settled(alarmTicks, t, r, i + 1) /\ t \in 0..(TickMod - 1)
      BY <1>7, <2>1, <2>2, <2>3, StartSettled DEF StartTime
  <2> QED
      BY <2>2, <2>3, <2>4 DEF Settled
<1>9. i + 1 \in 0..TickMod
    BY AlarmAssumption
<1>10. AlarmTypeOK'
    BY <1>2, <1>4, <1>5, <1>7, <1>8, <1>9 DEF AlarmTypeOK, AllLinks
<1>11. ASSUME NEW a \in running' PROVE Timed(a, P)'
  <2>1. CASE a = b
    <3>1. a \notin P
        BY <1>3, <2>1
    <3>2. time'[a] = StartTime(i) /\ due'[a] = i + 1 /\ rollover'[a] = (StartTime(i) < alarmTicks)
        BY <1>2, <1>7, <2>1 DEF AlarmTypeOK
    <3> QED
        BY <1>7, <1>8, <3>1, <3>2 DEF Timed
  <2>2. CASE a # b
    <3>1. a \in running
        BY <1>4, <2>2
    <3>2. time'[a] = time[a] /\ due'[a] = due[a] /\ rollover'[a] = rollover[a]
        BY <1>2, <1>7, <2>2, <3>1 DEF AlarmTypeOK
    <3> QED
        BY <1>1, <1>7, <3>1, <3>2 DEF Timed
  <2> QED
      BY <2>1, <2>2
<1> QED
    BY <1>3, <1>5, <1>6, <1>10, <1>11 DEF AlarmInv

LEMMA StopKept ==
    ASSUME AlarmInv, NEW b \in Alarms, AlarmStop(b)
    PROVE  AlarmInv'
<1> USE DEF AlarmStop
<1>1. PICK P : From(links, WalkAt, running, P) /\ \A a \in running : Timed(a, P)
    BY DEF AlarmInv
<1>2. AlarmTypeOK /\ Loose(links, running) /\ links \in AllLinks
    BY DEF AlarmInv, AlarmTypeOK, AllLinks
<1>3. WalkAt = ListHead /\ WalkAt' = ListHead /\ b # ListHead
    BY AlarmAssumption DEF WalkAt
<1>4. links[b].next # NoAlarm /\ links' = Removed(links, b) /\ running' = running \ {b}
    OBVIOUS
<1>q. PICK Q : Q = P \intersect (running \ {b})
    OBVIOUS
<1>5. links' \in AllLinks /\ From(links', ListHead, running', Q) /\ Loose(links', running')
  <2>1. PICK l \in AllLinks : l = links
      BY <1>2
  <2>2. From(l, ListHead, running, P) /\ Loose(l, running) /\ l[b].next # NoAlarm
      BY <1>1, <1>2, <1>3, <1>4, <2>1
  <2>3. /\ Removed(l, b) \in AllLinks
        /\ From(Removed(l, b), ListHead, running \ {b}, P \intersect (running \ {b}))
        /\ Loose(Removed(l, b), running \ {b})
        /\ Removed(l, b)[b] = [next |-> b, prev |-> b]
      BY <1>3, <2>2, Removal
  <2> QED
      BY <1>4, <1>q, <2>1, <2>3
<1>6. due' = [due EXCEPT ![b] = 0] /\ UNCHANGED <<alarmTicks, time, rollover, alarmAt>>
    OBVIOUS
<1>7. 0 \in 0..TickMod
    BY AlarmAssumption
<1>8. AlarmTypeOK'
    BY <1>2, <1>4, <1>5, <1>6, <1>7 DEF AlarmTypeOK, AllLinks
<1>9. ASSUME NEW a \in running' PROVE Timed(a, Q)'
  <2>1. a \in running /\ a # b /\ (a \in Q <=> a \in P)
      BY <1>4, <1>q
  <2>2. due'[a] = due[a]
      BY <1>2, <1>6, <2>1 DEF AlarmTypeOK
  <2>3. Timed(a, P)
      BY <1>1, <2>1
  <2> QED
      BY <1>6, <2>1, <2>2, <2>3 DEF Timed
<1> QED
    BY <1>3, <1>5, <1>8, <1>9 DEF AlarmInv

LEMMA BeginKept ==
    ASSUME AlarmInv, TickBegin
    PROVE  AlarmInv'
<1> USE DEF TickBegin
<1>1. PICK P : From(links, WalkAt, running, P) /\ \A a \in running : Timed(a, P)
    BY DEF AlarmInv
<1>2. AlarmTypeOK /\ Loose(links, running)
    BY DEF AlarmInv
<1>3. WalkAt = ListHead /\ P = {}
    BY <1>1, FromHere DEF WalkAt
<1>4. From(links, links[ListHead].next, running, running)
    BY <1>1, FromFirst
<1>5. links[ListHead].next \in Elements
    BY <1>4, FromHere
<1>6. WalkAt' = links[ListHead].next
    BY <1>5, AlarmAssumption DEF WalkAt, Elements
<1>7. alarmTicks \in 0..(TickMod - 1) /\ alarmTicks' = Wrap(alarmTicks + 1)
      /\ due' = [a \in Alarms |-> IF a \in running THEN due[a] - 1 ELSE 0]
      /\ UNCHANGED <<links, time, rollover, running>>
    BY <1>2 DEF AlarmTypeOK, alarm
<1>8. ASSUME NEW a \in running
      PROVE  due'[a] \in 0..TickMod /\ Pending(alarmTicks', time'[a], rollover'[a], due'[a])
  <2>1. a \in Alarms /\ due'[a] = due[a] - 1 /\ time'[a] = time[a] /\ rollover'[a] = rollover[a]
      BY <1>2, <1>7 DEF AlarmTypeOK
  <2>2. Settled(alarmTicks, time[a], rollover[a], due[a])
      BY <1>1, <1>3 DEF Timed
  <2>3. Pending(Wrap(alarmTicks + 1), time[a], rollover[a], due[a] - 1)
      BY <1>7, <2>2, TickPending
  <2>4. due[a] - 1 \in 0..TickMod
      BY <2>3, AlarmAssumption DEF Pending
  <2> QED
      BY <1>7, <2>1, <2>3, <2>4
<1>9. AlarmTypeOK'
  <2>1. alarmTicks' \in 0..(TickMod - 1)
    <3>1. TickMod \in Nat /\ TickMod > 1
        BY AlarmAssumption
    <3> QED
        BY <1>7, <3>1, WrapSum
  <2>2. due' \in [Alarms -> 0..TickMod]
    <3>1. 0 \in 0..TickMod
        BY AlarmAssumption
    <3>2. \A a \in Alarms : due'[a] \in 0..TickMod
        BY <1>7, <1>8, <3>1
    <3> QED
        BY <1>7, <3>2
  <2> QED
      BY <1>2, <1>5, <1>7, <2>1, <2>2 DEF AlarmTypeOK
<1> QED
    BY <1>2, <1>4, <1>6, <1>7, <1>8, <1>9 DEF AlarmInv, Timed

(* The walk at an alarm: it is running, its turn is now, and it expires at *)
(* the tick that was asked for.                                            *)
LEMMA AtWalk ==
    ASSUME AlarmInv, alarmAt \in Alarms
    PROVE  /\ alarmAt \in running
           /\ Expired(alarmAt) <=> due[alarmAt] = 0
           /\ due[alarmAt] = 0 => time[alarmAt] = alarmTicks
           /\ due[alarmAt] # 0 => Settled(alarmTicks, time[alarmAt], StillRollover(alarmAt),
                                          due[alarmAt])
           /\ links[alarmAt].next \in Elements /\ links[alarmAt].next # alarmAt
           /\ \E P : /\ From(links, links[alarmAt].next, running, P)
                     /\ alarmAt \notin P
                     /\ \A a \in running \ {alarmAt} : Timed(a, P)
<1>1. PICK P : From(links, WalkAt, running, P) /\ \A a \in running : Timed(a, P)
    BY DEF AlarmInv
<1>2. AlarmTypeOK
    BY DEF AlarmInv
<1>3. WalkAt = alarmAt
    BY AlarmAssumption DEF WalkAt
<1>4. alarmAt \in running /\ alarmAt \in P
    BY <1>1, <1>3, FromHere
<1>5. Pending(alarmTicks, time[alarmAt], rollover[alarmAt], due[alarmAt])
    BY <1>1, <1>4 DEF Timed
<1>6. /\ due[alarmAt] = 0 => time[alarmAt] = alarmTicks
      /\ (time[alarmAt] <= alarmTicks /\ ~(rollover[alarmAt] /\ alarmTicks # 0)) <=> due[alarmAt] = 0
      /\ due[alarmAt] # 0 => Settled(alarmTicks, time[alarmAt], rollover[alarmAt] /\ alarmTicks # 0,
                                     due[alarmAt])
  <2>1. alarmTicks \in 0..(TickMod - 1)
      BY <1>2 DEF AlarmTypeOK
  <2> QED
      BY <1>5, <2>1, PendingExpires
<1>7. From(links, links[alarmAt].next, running, P \ {alarmAt}) /\ links[alarmAt].next # alarmAt
    BY <1>1, <1>3, FromNext
<1>8. links[alarmAt].next \in Elements
    BY <1>7, FromHere
<1>9. ASSUME NEW a \in running \ {alarmAt} PROVE Timed(a, P \ {alarmAt})
    BY <1>1, <1>9 DEF Timed
<1>10. PICK Q : Q = P \ {alarmAt}
    OBVIOUS
<1>11. /\ From(links, links[alarmAt].next, running, Q) /\ alarmAt \notin Q
       /\ \A a \in running \ {alarmAt} : Timed(a, Q)
    BY <1>7, <1>9, <1>10
<1> QED
    BY <1>4, <1>6, <1>7, <1>8, <1>11 DEF Expired, StillRollover

LEMMA PassKept ==
    ASSUME AlarmInv, PassBy
    PROVE  AlarmInv'
<1> USE DEF PassBy
<1>1. /\ alarmAt \in Alarms /\ alarmAt \in running /\ due[alarmAt] # 0
      /\ Settled(alarmTicks, time[alarmAt], StillRollover(alarmAt), due[alarmAt])
      /\ links[alarmAt].next \in Elements
    BY AtWalk
<1>2. PICK P : /\ From(links, links[alarmAt].next, running, P)
               /\ alarmAt \notin P
               /\ \A a \in running \ {alarmAt} : Timed(a, P)
    BY <1>1, AtWalk
<1>3. AlarmTypeOK /\ Loose(links, running)
    BY DEF AlarmInv
<1>4. WalkAt' = links[alarmAt].next
    BY <1>1, AlarmAssumption DEF WalkAt, Elements
<1>5. /\ rollover' = [rollover EXCEPT ![alarmAt] = StillRollover(alarmAt)]
      /\ UNCHANGED <<alarmTicks, links, time, due, running>>
    OBVIOUS
<1>6. AlarmTypeOK'
    BY <1>1, <1>3, <1>5 DEF AlarmTypeOK, StillRollover
<1>7. ASSUME NEW a \in running PROVE Timed(a, P)'
  <2>1. CASE a = alarmAt
    <3>1. a \notin P /\ rollover'[a] = StillRollover(alarmAt)
        BY <1>2, <1>3, <1>5, <2>1 DEF AlarmTypeOK
    <3> QED
        BY <1>1, <1>5, <2>1, <3>1 DEF Timed
  <2>2. CASE a # alarmAt
    <3>1. rollover'[a] = rollover[a] /\ Timed(a, P)
        BY <1>2, <1>3, <1>5, <2>2 DEF AlarmTypeOK
    <3> QED
        BY <1>5, <3>1 DEF Timed
  <2> QED
      BY <2>1, <2>2
<1> QED
    BY <1>2, <1>3, <1>4, <1>5, <1>6, <1>7 DEF AlarmInv

LEMMA EndKept ==
    ASSUME AlarmInv, TickEnd
    PROVE  AlarmInv'
<1> USE DEF TickEnd
<1>1. PICK P : From(links, WalkAt, running, P) /\ \A a \in running : Timed(a, P)
    BY DEF AlarmInv
<1>2. WalkAt = ListHead /\ WalkAt' = ListHead
    BY AlarmAssumption DEF WalkAt, Elements
<1>3. AlarmTypeOK'
    BY DEF AlarmInv, AlarmTypeOK, alarm
<1>4. \A a \in running : Timed(a, P)'
    BY <1>1 DEF Timed, alarm
<1> QED
    BY <1>1, <1>2, <1>3, <1>4 DEF AlarmInv, alarm

LEMMA CallbackKept ==
    ASSUME IntervalsAssumed, AlarmInv, NEW e \in Effects, NEW r \in Returns, Callback(e, r)
    PROVE  AlarmInv'
<1>1. /\ alarmAt \in Alarms /\ alarmAt \in running /\ due[alarmAt] = 0
      /\ time[alarmAt] = alarmTicks
      /\ links[alarmAt].next \in Elements /\ links[alarmAt].next # alarmAt
    BY AtWalk DEF Callback
<1>2. PICK P : /\ From(links, links[alarmAt].next, running, P)
               /\ alarmAt \notin P
               /\ \A a \in running \ {alarmAt} : Timed(a, P)
    BY <1>1, AtWalk
<1>3. AlarmTypeOK /\ Loose(links, running) /\ links \in AllLinks
    BY DEF AlarmInv, AlarmTypeOK, AllLinks
<1>4. PICK x \in Elements, c \in Alarms : x = links[alarmAt].next /\ c = alarmAt
    BY <1>1
<1>5. PICK last \in BOOLEAN : last <=> r = 0
    OBVIOUS
<1>6. PICK stopped, started, edited, next :
        /\ stopped = (IF e.kind = "stop" THEN {e.alarm} ELSE {}) \union (IF last THEN {c} ELSE {})
        /\ started = IF e.kind = "start" THEN {e.alarm} ELSE {}
        /\ edited = CASE e.kind = "stop" -> Removed(links, e.alarm)
                      [] e.kind = "start" -> Inserted(links, e.alarm)
                      [] OTHER -> links
        /\ next = Wrap(time[c] + r)
    OBVIOUS
<1>7. /\ links' = IF last THEN Removed(edited, c) ELSE edited
      /\ alarmAt' = x
      /\ running' = (running \union started) \ stopped
      /\ due' = [a \in Alarms |->
                   IF a \notin running' THEN 0
                   ELSE IF a = c THEN r
                   ELSE IF a \in started THEN e.interval + 1
                   ELSE due[a]]
      /\ time' = [a \in Alarms |-> IF a = c /\ r # 0 THEN next
                                   ELSE IF a \in started THEN StartTime(e.interval)
                                   ELSE time[a]]
      /\ rollover' = [a \in Alarms |->
                        IF a = c THEN r # 0 /\ RearmRollover(next)
                        ELSE IF a \in started THEN StartTime(e.interval) < alarmTicks
                        ELSE rollover[a]]
      /\ alarmTicks' = alarmTicks /\ fired' = c
    BY <1>4, <1>5, <1>6 DEF Callback
<1>8. /\ e.kind = "start" => e.alarm \notin running
      /\ e.kind = "stop" => links[e.alarm].next # NoAlarm /\ e.alarm # x
    BY <1>4 DEF Callback, Allowed
<1>9. PICK R1, Q : R1 = running' /\ Q = P \intersect R1
    OBVIOUS
<1>10. links' \in AllLinks /\ From(links', x, R1, Q) /\ Loose(links', R1)
  <2>1. PICK l \in AllLinks : l = links
      BY <1>3
  <2>2. PICK G : G = running
      OBVIOUS
  <2>3. PICK k : k = links'
      OBVIOUS
  <2>4. From(l, x, G, P) /\ Loose(l, G) /\ c # x /\ c \in G
      BY <1>1, <1>2, <1>3, <1>4, <2>1, <2>2
  <2>5. EffectMay(e, l, G, x)
      BY <1>8, <2>1, <2>2 DEF EffectMay
  <2>6. PICK m, S : /\ m = edited
                    /\ S = (G \union started) \ (IF e.kind = "stop" THEN {e.alarm} ELSE {})
      OBVIOUS
  <2>7. EffectOf(e, l, G, m, S)
    <3>1. e.kind = "stop" => m = Removed(l, e.alarm) /\ S = G \ {e.alarm}
        BY <1>6, <2>1, <2>6
    <3>2. e.kind = "start" => m = Inserted(l, e.alarm) /\ S = G \union {e.alarm}
        BY <1>6, <2>1, <2>6
    <3>3. e.kind = "none" => m = l /\ S = G
        BY <1>6, <2>1, <2>6
    <3> QED
        BY <3>1, <3>2, <3>3 DEF EffectOf
  <2>8. /\ m \in AllLinks /\ From(m, x, S, P \intersect S) /\ Loose(m, S)
        /\ c \in S \/ m[c].next # NoAlarm
      BY <2>4, <2>5, <2>7, EffectLinks
  <2>9. R1 = S \ (IF last THEN {c} ELSE {})
      BY <1>6, <1>7, <1>9, <2>2, <2>6
  <2>10. CASE last
    <3>1. k = Removed(m, c) /\ R1 = S \ {c}
        BY <1>7, <2>3, <2>6, <2>9, <2>10
    <3>2. PICK P1 : P1 = P \intersect S
        OBVIOUS
    <3>3. Q = P1 \intersect (S \ {c})
        BY <1>9, <3>1, <3>2
    <3>4. /\ Removed(m, c) \in AllLinks
          /\ From(Removed(m, c), x, S \ {c}, P1 \intersect (S \ {c}))
          /\ Loose(Removed(m, c), S \ {c})
          /\ Removed(m, c)[c] = [next |-> c, prev |-> c]
        BY <2>4, <2>8, <3>2, Removal
    <3> QED
        BY <2>3, <3>1, <3>3, <3>4
  <2>11. CASE ~last
    <3>1. k = m /\ R1 = S /\ Q = P \intersect S
        BY <1>7, <1>9, <2>3, <2>6, <2>9, <2>11
    <3> QED
        BY <2>3, <2>8, <3>1
  <2> QED
      BY <2>10, <2>11
<1>11. e.kind = "start" => e.alarm \in Alarms /\ e.interval \in Intervals
    BY DEF Effects
<1>12. alarmTicks \in 0..(TickMod - 1) /\ 0 \in 0..TickMod /\ Returns \subseteq 0..TickMod
       /\ \A i \in Intervals : i + 1 \in 0..TickMod
  <2>1. alarmTicks \in 0..(TickMod - 1)
      BY <1>3 DEF AlarmTypeOK
  <2>2. 0 \in 0..TickMod /\ Returns \subseteq 0..TickMod /\ \A i \in Intervals : i + 1 \in 0..TickMod
      BY AlarmAssumption
  <2> QED
      BY <2>1, <2>2
<1>13. ASSUME e.kind = "start"
       PROVE  Settled(alarmTicks, StartTime(e.interval), StartTime(e.interval) < alarmTicks,
                      e.interval + 1)
              /\ StartTime(e.interval) \in 0..(TickMod - 1)
  <2>1. TickMod - 1 \notin Intervals
      BY DEF IntervalsAssumed
  <2>2. PICK i \in Intervals : i = e.interval
      BY <1>11, <1>13
  <2>3. PICK t : t = StartTime(i)
      OBVIOUS
  <2>4. PICK b \in BOOLEAN : b <=> t < alarmTicks
      OBVIOUS
  <2>5. Settled(alarmTicks, t, b, i + 1) /\ t \in 0..(TickMod - 1)
      BY <1>12, <2>1, <2>3, <2>4, StartSettled DEF StartTime
  <2> QED
      BY <2>2, <2>3, <2>4, <2>5 DEF Settled
<1>14. ASSUME r # 0
       PROVE  Settled(alarmTicks, next, next < alarmTicks, r) /\ next \in 0..(TickMod - 1)
  <2>t. PICK t : t = next
      OBVIOUS
  <2>1. PICK now \in 0..(TickMod - 1) : now = alarmTicks
      BY <1>12
  <2>2. t = Wrap(now + r)
      BY <1>1, <1>4, <1>6, <2>1, <2>t
  <2>3. PICK b \in BOOLEAN : b <=> t < now
      OBVIOUS
  <2>4. Settled(now, t, b, r) /\ t \in 0..(TickMod - 1)
      BY <1>14, <2>2, <2>3, RearmSettled
  <2> QED
      BY <2>1, <2>t, <2>3, <2>4 DEF Settled
<1>15. running' = R1 /\ R1 = (running \union started) \ stopped
       /\ stopped \subseteq Alarms /\ started \subseteq Alarms /\ running \subseteq Alarms
  <2>1. running \subseteq Alarms
      BY <1>3 DEF AlarmTypeOK
  <2>2. e.kind = "stop" => e.alarm \in Alarms
      BY DEF Effects
  <2> QED
      BY <1>6, <1>7, <1>9, <1>11, <2>1, <2>2
<1>16. ASSUME NEW a \in Alarms
       PROVE  due'[a] = IF a \notin R1 THEN 0
                        ELSE IF a = c THEN r
                        ELSE IF a \in started THEN e.interval + 1
                        ELSE due[a]
    BY <1>7, <1>15
<1>17. ASSUME NEW a \in Alarms
       PROVE  /\ time'[a] = IF a = c /\ r # 0 THEN next
                            ELSE IF a \in started THEN StartTime(e.interval)
                            ELSE time[a]
              /\ rollover'[a] = IF a = c THEN r # 0 /\ RearmRollover(next)
                                ELSE IF a \in started THEN StartTime(e.interval) < alarmTicks
                                ELSE rollover[a]
    BY <1>7
<1>18. started # {} => e.kind = "start" /\ started = {e.alarm} /\ e.alarm \notin running
    BY <1>6, <1>8
<1>19. AlarmTypeOK'
  <2>1. links' \in [Elements -> [next : Elements \union {NoAlarm}, prev : Elements \union {NoAlarm}]]
      BY <1>10 DEF AllLinks
  <2>2. time' \in [Alarms -> 0..(TickMod - 1)]
    <3>1. ASSUME NEW a \in Alarms PROVE time'[a] \in 0..(TickMod - 1)
      <4>1. time[a] \in 0..(TickMod - 1)
          BY <1>3 DEF AlarmTypeOK
      <4>2. a \in started => StartTime(e.interval) \in 0..(TickMod - 1)
          BY <1>13, <1>18
      <4> QED
          BY <1>14, <1>17, <4>1, <4>2
    <3> QED
        BY <1>7, <3>1
  <2>3. rollover' \in [Alarms -> BOOLEAN]
    <3>1. ASSUME NEW a \in Alarms PROVE rollover'[a] \in BOOLEAN
      <4>1. rollover[a] \in BOOLEAN
          BY <1>3 DEF AlarmTypeOK
      <4>2. CASE a = c
          BY <1>17, <4>2
      <4>3. CASE a # c /\ a \in started
        <5>1. rollover'[a] = (StartTime(e.interval) < alarmTicks)
            BY <1>17, <4>3
        <5>2. (StartTime(e.interval) < alarmTicks) \in BOOLEAN
            OBVIOUS
        <5> QED
            BY <5>1, <5>2
      <4>4. CASE a # c /\ a \notin started
          BY <1>17, <4>1, <4>4
      <4> QED
          BY <4>2, <4>3, <4>4
    <3> QED
        BY <1>7, <3>1
  <2>4. due' \in [Alarms -> 0..TickMod]
    <3>1. ASSUME NEW a \in Alarms PROVE due'[a] \in 0..TickMod
      <4>1. due[a] \in 0..TickMod
          BY <1>3 DEF AlarmTypeOK
      <4>2. a \in started => e.interval + 1 \in 0..TickMod
          BY <1>11, <1>12, <1>18
      <4>3. r \in 0..TickMod /\ 0 \in 0..TickMod
          BY <1>12
      <4> QED
          BY <1>16, <4>1, <4>2, <4>3
    <3> QED
        BY <1>7, <3>1
  <2>5. running' \subseteq Alarms /\ alarmAt' \in Elements \union {NoAlarm}
        /\ fired' \in Alarms \union {NoAlarm} /\ alarmTicks' \in 0..(TickMod - 1)
      BY <1>7, <1>12, <1>15
  <2> QED
      BY <2>1, <2>2, <2>3, <2>4, <2>5 DEF AlarmTypeOK
<1>20. ASSUME NEW a \in R1 PROVE Timed(a, Q)'
  <2>1. a \in Alarms /\ (a \in Q <=> a \in P) /\ c \notin P /\ P \subseteq running
      BY <1>2, <1>4, <1>9, <1>15, FromHere
  <2>2. CASE a = c
    <3>1. r # 0
        BY <1>5, <1>6, <1>15, <2>2
    <3>2. due'[a] = r /\ time'[a] = next /\ a \notin Q
        BY <1>16, <1>17, <2>1, <2>2, <3>1
    <3>3. rollover'[a] <=> next < alarmTicks
        BY <1>17, <2>1, <2>2, <3>1 DEF RearmRollover
    <3> QED
        BY <1>7, <1>14, <3>1, <3>2, <3>3 DEF Timed, Settled
  <2>3. CASE a # c /\ a \in started
    <3>1. e.kind = "start" /\ a \notin P
        BY <1>18, <2>1, <2>3
    <3>2. due'[a] = e.interval + 1 /\ time'[a] = StartTime(e.interval) /\ a \notin Q
        BY <1>16, <1>17, <2>1, <2>3, <3>1
    <3>3. rollover'[a] <=> StartTime(e.interval) < alarmTicks
        BY <1>17, <2>1, <2>3
    <3> QED
        BY <1>7, <1>13, <3>1, <3>2, <3>3 DEF Timed, Settled
  <2>4. CASE a # c /\ a \notin started
    <3>1. a \in running \ {alarmAt} /\ Timed(a, P)
        BY <1>2, <1>4, <1>15, <2>4
    <3>2. due'[a] = due[a] /\ time'[a] = time[a] /\ rollover'[a] = rollover[a]
        BY <1>16, <1>17, <2>1, <2>4
    <3> QED
        BY <1>7, <2>1, <3>1, <3>2 DEF Timed
  <2> QED
      BY <2>2, <2>3, <2>4
<1>21. WalkAt' = x
    BY <1>7, AlarmAssumption DEF WalkAt, Elements
<1>22. From(links, WalkAt, running, Q)' /\ Loose(links, running)'
    BY <1>10, <1>15, <1>21
<1>23. \A a \in running' : Timed(a, Q)'
    BY <1>15, <1>20
<1> QED
    BY <1>19, <1>22, <1>23 DEF AlarmInv

LEMMA AlarmStepInv == ASSUME IntervalsAssumed, AlarmInv, [AlarmNext]_alarmVars PROVE AlarmInv'
<1>1. CASE \E a \in Alarms : AlarmStop(a) \/ \E i \in Intervals : AlarmStart(a, i)
    BY <1>1, StartKept, StopKept
<1>2. CASE TickBegin
    BY <1>2, BeginKept
<1>3. CASE AlarmTick
    BY <1>3, PassKept, EndKept, CallbackKept DEF AlarmTick
<1>4. CASE UNCHANGED alarmVars
  <2>1. PICK P : From(links, WalkAt, running, P) /\ \A a \in running : Timed(a, P)
      BY DEF AlarmInv
  <2>2. AlarmTypeOK' /\ Loose(links, running)'
      BY <1>4 DEF AlarmInv, AlarmTypeOK, alarmVars, alarm
  <2>3. From(links, WalkAt, running, P)' /\ \A a \in running' : Timed(a, P)'
      BY <1>4, <2>1 DEF WalkAt, Timed, alarmVars, alarm
  <2> QED
      BY <2>2, <2>3 DEF AlarmInv
<1> QED
    BY <1>1, <1>2, <1>3, <1>4 DEF AlarmNext

(* Outside alt_tick the ring of the invariant is the one of the property.  *)
LEMMA AlarmInvRing == ASSUME AlarmInv PROVE ListIsRunning
<1> SUFFICES ASSUME alarmAt = NoAlarm PROVE \E q \in SetToSeqs(running) : RingOf(q)
    BY DEF ListIsRunning
<1>1. PICK P : From(links, WalkAt, running, P)
    BY DEF AlarmInv
<1>2. PICK n \in Nat : \E q \in [1..n -> Alarms] : \E p \in 1..(n + 1) :
                           FromAt(links, WalkAt, running, P, n, q, p)
    BY <1>1 DEF From
<1>3. PICK q \in [1..n -> Alarms] : Ring(links, q, n) /\ running = {q[i] : i \in 1..n}
    BY <1>2 DEF FromAt
<1>4. /\ \A i, j \in 1..n : q[i] = q[j] => i = j
      /\ \A i \in 0..n : /\ links[Spot(q, n, i)].next = Spot(q, n, i + 1)
                         /\ links[Spot(q, n, i + 1)].prev = Spot(q, n, i)
    BY <1>3 DEF Ring
<1>5. q \in [1..n -> running] /\ \A i \in 1..n : q[i] \in running
    BY <1>3
<1>6. Cardinality(running) = n
  <2>1. q \in Bijection(1..n, running)
      BY <1>3, <1>4, <1>5 DEF Bijection, Injection, Surjection, IsInjective
  <2> QED
      BY <2>1, FS_CountingElements DEF ExistsBijection
<1>7. q \in SetToSeqs(running)
    BY <1>4, <1>5, <1>6 DEF SetToSeqs
<1>8. Len(q) = n /\ DOMAIN q = 1..n
  <2>1. q \in Seq(Alarms) /\ DOMAIN q = 1..n
      BY SeqDef
  <2> QED
      BY <2>1, LenProperties
<1>9. RingOf(q)
  <2>1. \A i \in Int : (IF i \in DOMAIN q THEN q[i] ELSE ListHead) = Spot(q, n, i)
      BY <1>8 DEF Spot
  <2> QED
      BY <1>4, <1>8, <2>1 DEF RingOf
<1> QED
    BY <1>7, <1>9

LEMMA AlarmInvDue == ASSUME AlarmInv PROVE NothingOverdue
<1>1. PICK P : From(links, WalkAt, running, P) /\ \A a \in running : Timed(a, P)
    BY DEF AlarmInv
<1>2. alarmAt = NoAlarm => P = {}
    BY <1>1, FromHere DEF WalkAt
<1>3. \A d \in 1..(TickMod - 1) : d > 0
    OBVIOUS
<1> QED
    BY <1>1, <1>2, <1>3 DEF NothingOverdue, Timed, Settled

(* alt_alarm_start, alt_alarm_stop and alt_tick keep what they promise,    *)
(* for any alarms, any length of the counter, any intervals but that of a  *)
(* whole turn of it, and any callbacks, whatever they start and stop: a    *)
(* callback runs at the tick it was asked for and at no other, none is     *)
(* missed, and the list is the ring of the running alarms.                 *)
THEOREM AlarmsOnTimeAlways == ASSUME IntervalsAssumed PROVE AlarmSpec => AlarmsOnTime
<1>1. AlarmInit => AlarmInv
    BY AlarmInitInv
<1>2. AlarmInv /\ [AlarmNext]_alarmVars => AlarmInv'
    BY AlarmStepInv
<1>3. AlarmInv => ListIsRunning /\ NothingOverdue
    BY AlarmInvRing, AlarmInvDue
<1>4. ASSUME AlarmInv, [AlarmNext]_alarmVars
      PROVE  [fired' # NoAlarm => fired' \in running /\ due[fired'] = 0]_alarmVars
  <2>1. ASSUME NEW e \in Effects, NEW r \in Returns, Callback(e, r)
        PROVE  fired' \in running /\ due[fired'] = 0
    <3>1. alarmAt \in Alarms /\ Expired(alarmAt) /\ fired' = alarmAt
        BY <2>1 DEF Callback
    <3> QED
        BY <1>4, <3>1, AtWalk
  <2>2. ASSUME ~\E e \in Effects, r \in Returns : Callback(e, r)
        PROVE  fired' = NoAlarm \/ UNCHANGED alarmVars
      BY <1>4, <2>2 DEF AlarmNext, AlarmTick, AlarmStart, AlarmStop, TickBegin, PassBy, TickEnd
  <2> QED
      BY <2>1, <2>2
<1> QED
    BY <1>1, <1>2, <1>3, <1>4, PTL DEF AlarmSpec, AlarmsOnTime, CallbackOnTime
-----------------------------------------------------------------------------
(* The times are in range whatever fills a word: a clock that was set back *)
(* to tick 0 is never before it again.                                     *)
TimeBounds ==
    /\ timeTicks \in 0..MaxTicks /\ tickRate \in {0, Rate}
    /\ reset.sec \in Int /\ reset.usec \in (1 - US)..(US - 1)
    /\ reset.sec + (timeTicks \div Rate) >= 0
    /\ timeCall.op \in {"none", "set", "get"} /\ timeCall.ticks \in 0..timeTicks
    /\ timeCall.op # "none" => tickRate = Rate
    /\ timeCall.op = "get" => reset.sec + (timeCall.ticks \div Rate) >= 0
    /\ timeCall.op = "set" => timeCall.t.sec \in Nat /\ timeCall.t.usec \in 0..(US - 1)
    /\ \A t \in timeGot : t.sec \in Nat /\ t.usec \in 0..(US - 1)

LEMMA ResetTyped ==
    ASSUME tickRate = Rate, NEW t, t.sec \in Nat, t.usec \in 0..(US - 1), NEW n \in 0..MaxTicks
    PROVE  /\ ResetTime(t, n).sec = t.sec - (n \div Rate)
           /\ ResetTime(t, n).usec \in (1 - US)..(US - 1)
<1>1. /\ US \in Nat \ {0} /\ PerTick \in Nat /\ TimeWord \in Nat \ {0} /\ n \in Nat
    BY TickSizes
<1>2. PICK m \in Nat : m = n * PerTick
    BY <1>1
<1>3. PICK k \in Nat : k = m % TimeWord
    BY <1>1
<1>4. PICK x \in 0..(US - 1) : x = k % US
    BY <1>1
<1>5. ResetTime(t, n) = [sec |-> t.sec - (n \div Rate), usec |-> t.usec - x]
    BY <1>2, <1>3, <1>4 DEF ResetTime
<1> QED
    BY <1>1, <1>4, <1>5

LEMMA NowTyped ==
    ASSUME tickRate = Rate, NEW n \in Nat, reset.sec \in Int, reset.usec \in (1 - US)..(US - 1),
           reset.sec + (n \div Rate) >= 0
    PROVE  Now(n).sec \in Nat /\ Now(n).usec \in 0..(US - 1)
<1>1. /\ US \in Nat \ {0} /\ PerTick \in Nat /\ Rate \in Nat \ {0}
    BY TickSizes
<1>2. PICK m \in Nat : m = n * PerTick
    BY <1>1
<1>3. PICK x \in 0..(US - 1) : x = m % US
    BY <1>1
<1>4. PICK s \in Nat : s = reset.sec + (n \div Rate)
  <2>1. n \div Rate \in Int
      BY <1>1
  <2> QED
      BY <2>1
<1>5. PICK u \in (1 - US)..(2 * US - 2) : u = reset.usec + x
    BY <1>1, <1>3
<1>6. PICK t : t = [sec |-> s, usec |-> u]
    OBVIOUS
<1>7. t.sec = s /\ t.usec = u /\ Now(n) = Carried(t)
    BY <1>2, <1>3, <1>4, <1>5, <1>6 DEF Now
<1> QED
    BY <1>1, <1>4, <1>5, <1>7 DEF Carried

LEMMA TimeTypesStep == ASSUME TimeBounds, [TimeNext]_timeVars PROVE TimeBounds'
<1>1. /\ US \in Nat /\ US >= 1 /\ MaxTicks \in Nat /\ Rate \in Nat \ {0} /\ SetSecs \subseteq Nat
      /\ timeTicks \in Nat /\ timeCall.ticks \in Nat /\ timeTicks \div Rate \in Int
      /\ timeCall.ticks \div Rate \in Int
    BY TickSizes, TimeAssumption DEF TimeBounds
<1>a. \A a, b \in Int : a \div Rate \in Int /\ (a <= b => a \div Rate <= b \div Rate)
    BY <1>1, Quotients
<1>2. CASE TimerInit
    BY <1>2, <1>1 DEF TimerInit, TimeBounds
<1>3. CASE TimeTick
  <2>1. PICK a \in Int, b \in Int : a = timeTicks \div Rate /\ b = (timeTicks + 1) \div Rate /\ a <= b
    <3>1. timeTicks + 1 \in Int /\ timeTicks <= timeTicks + 1 /\ timeTicks \in Int
        BY <1>1
    <3> QED
        BY <1>a, <3>1
  <2>2. timeTicks' = timeTicks + 1 /\ timeTicks' \in 0..MaxTicks /\ timeGot' = {}
        /\ UNCHANGED <<tickRate, reset, timeCall>>
      BY <1>1, <1>3 DEF TimeTick, TimeBounds
  <2>3. reset.sec + b >= 0 /\ timeTicks' \div Rate = b
      BY <2>1, <2>2 DEF TimeBounds
  <2>4. timeCall.ticks \in 0..timeTicks'
      BY <1>1, <2>2 DEF TimeBounds
  <2> QED
      BY <2>2, <2>3, <2>4 DEF TimeBounds
<1>4. ASSUME NEW op \in {"get", "set"}, NEW t, TimeBegin(op, t),
             op = "set" => t.sec \in Nat /\ t.usec \in 0..(US - 1)
      PROVE  TimeBounds'
  <2>1. /\ timeCall' = [op |-> op, ticks |-> timeTicks, t |-> t] /\ timeGot' = {}
        /\ UNCHANGED <<tickRate, timeTicks, reset>> /\ tickRate # 0
      BY <1>4 DEF TimeBegin
  <2>2. timeCall'.op = op /\ timeCall'.ticks = timeTicks /\ timeCall'.t = t
      BY <2>1
  <2> QED
      BY <1>1, <1>4, <2>1, <2>2 DEF TimeBounds
<1>5. CASE SetTimeOfDay
  <2>1. /\ reset' = ResetTime(timeCall.t, timeCall.ticks) /\ timeCall' = TimeIdle /\ timeGot' = {}
        /\ UNCHANGED <<tickRate, timeTicks>> /\ timeCall.op = "set"
      BY <1>5 DEF SetTimeOfDay
  <2>2. /\ tickRate = Rate /\ timeCall.t.sec \in Nat /\ timeCall.t.usec \in 0..(US - 1)
        /\ timeCall.ticks \in 0..MaxTicks /\ timeCall.ticks <= timeTicks
      BY <1>1, <2>1 DEF TimeBounds
  <2>3. timeCall.ticks \div Rate <= timeTicks \div Rate
      BY <1>1, <1>a, <2>2
  <2>4. /\ reset'.sec = timeCall.t.sec - (timeCall.ticks \div Rate)
        /\ reset'.usec \in (1 - US)..(US - 1)
      BY <2>1, <2>2, ResetTyped
  <2>5. reset'.sec \in Int /\ reset'.sec + (timeTicks \div Rate) >= 0
      BY <1>1, <2>2, <2>3, <2>4
  <2>6. timeCall'.op = "none" /\ timeCall'.ticks = 0
      BY <2>1 DEF TimeIdle
  <2> QED
      BY <1>1, <2>1, <2>4, <2>5, <2>6 DEF TimeBounds
<1>6. CASE GetTimeOfDay
  <2>1. /\ timeGot' = {Now(timeCall.ticks)} /\ timeCall' = [TimeIdle EXCEPT !.ticks = timeCall.ticks]
        /\ UNCHANGED <<tickRate, timeTicks, reset>> /\ timeCall.op = "get"
      BY <1>6 DEF GetTimeOfDay
  <2>2. timeCall'.op = "none" /\ timeCall'.ticks = timeCall.ticks
      BY <2>1 DEF TimeIdle
  <2>3. Now(timeCall.ticks).sec \in Nat /\ Now(timeCall.ticks).usec \in 0..(US - 1)
      BY <1>1, <2>1, NowTyped DEF TimeBounds
  <2> QED
      BY <2>1, <2>2, <2>3 DEF TimeBounds
<1>7. CASE UNCHANGED timeVars
    BY <1>7 DEF timeVars, TimeBounds
<1>8. ASSUME NEW s \in SetSecs, NEW u \in 0..(US - 1), TimeBegin("set", [sec |-> s, usec |-> u])
      PROVE  TimeBounds'
    BY <1>1, <1>4, <1>8
<1>9. CASE TimeBegin("get", TimeIdle.t)
    BY <1>4, <1>9
<1> QED
    BY <1>2, <1>3, <1>5, <1>6, <1>7, <1>8, <1>9 DEF TimeNext

LEMMA TimeBoundsInit == TimeInit => TimeBounds
<1>1. US \in Nat /\ US >= 1 /\ MaxTicks \in Nat /\ Rate \in Nat \ {0}
    BY TickSizes
<1>2. 0 \div Rate = 0
    BY <1>1
<1> QED
    BY <1>1, <1>2 DEF TimeInit, TimeIdle, TimeBounds

LEMMA TimeBoundsType == TimeBounds => TimeTypeOK
BY TickSizes DEF TimeBounds, TimeTypeOK
-----------------------------------------------------------------------------
(* The place of a flush is in the region, or one line past it.             *)
FlushBounds == flush.i \in Nat /\ flush.end \in Nat /\ flush.i < flush.end + LineWords

LEMMA FlushBoundsStep ==
    ASSUME CacheInv, FlushBounds, [CacheNext]_cacheVars
    PROVE  FlushBounds'
<1>1. LineWords \in Nat \ {0} /\ CacheSize \in Nat
    BY CacheSizes DEF CacheSize
<1>2. ASSUME NEW op, NEW r, NEW len \in Nat, r.start \in Nat, Call(op, r, len)
      PROVE  FlushBounds'
  <2>1. flush'.i = r.start /\ flush'.end = r.start + len
      BY <1>2 DEF Call
  <2> QED
      BY <1>1, <1>2, <2>1 DEF FlushBounds
<1>3. CASE CacheBegin
  <2>1. \A r \in Regions \union CacheBlocks \union Discarded :
          r.start \in Nat /\ r.len \in Nat /\ Trimmed(r.len) \in Nat
      BY <1>1, RegionSound DEF Trimmed
  <2>2. NoRegion.start \in Nat
      BY DEF NoRegion
  <2>3. FlushRegion \/ Discard \/ FlushAll \/ Remap
      BY <1>3 DEF CacheBegin
  <2> QED
      BY <1>1, <1>2, <2>1, <2>2, <2>3 DEF FlushRegion, Discard, FlushAll, Remap, RemapLength
<1>4. CASE FlushStep
  <2>1. PICK o, r, i, e, m : flush = [op |-> o, region |-> r, i |-> i, end |-> e, more |-> m]
      BY DEF CacheInv, FlushInv
  <2>2. \/ flush' = [flush EXCEPT !.more = FALSE]
        \/ flush.i < flush.end /\ flush' = [flush EXCEPT !.i = @ + LineWords]
      BY <1>1, <1>4 DEF FlushStep, Again, FlushBounds
  <2>3. \/ flush' = [op |-> o, region |-> r, i |-> i, end |-> e, more |-> FALSE]
        \/ i < e /\ flush' = [op |-> o, region |-> r, i |-> i + LineWords, end |-> e, more |-> m]
      BY <2>1, <2>2
  <2>4. flush.i = i /\ flush.end = e
      BY <2>1
  <2> QED
      BY <1>1, <2>3, <2>4 DEF FlushBounds
<1>5. CASE FlushEnd
    BY <1>1, <1>5 DEF FlushEnd, CacheIdle, FlushBounds
<1>6. CASE UNCHANGED flush
    BY <1>6 DEF FlushBounds
<1> QED
    BY <1>3, <1>4, <1>5, <1>6 DEF CacheNext, Read, Write, WriteUncached, RemapCached, cacheVars

LEMMA FlushBoundsInit == CacheInit => FlushBounds
BY CacheSizes DEF CacheInit, CacheIdle, FlushBounds

LEMMA FlushBoundsType == CacheInv /\ FlushBounds => CacheTypeOK
BY DEF CacheInv, CacheTyped, FlushInv, FlushBounds, CacheTypeOK
-----------------------------------------------------------------------------
(* The types of all of them, side by side: of each only its own steps move *)
(* it.                                                                     *)
LEMMA EachAlone ==
    /\ Init => AlarmInit /\ TimeInit /\ CacheInit /\ FileInit /\ I2cInit /\ FlashInit
    /\ [Next]_allVars =>
         /\ [AlarmNext]_alarmVars /\ [TimeNext]_timeVars /\ [CacheNext]_cacheVars
         /\ [FileNext]_fileVars /\ [I2cNext]_i2cVars /\ [FlashNext]_flashVars
<1>1. Init => AlarmInit /\ TimeInit /\ CacheInit /\ FileInit /\ I2cInit /\ FlashInit
    BY DEF Init
<1>2. ASSUME Next
      PROVE  /\ AlarmNext \/ UNCHANGED alarmVars
             /\ TimeNext \/ UNCHANGED timeVars
             /\ CacheNext \/ UNCHANGED cacheVars
             /\ FileNext \/ UNCHANGED fileVars
             /\ I2cNext \/ UNCHANGED i2cVars
             /\ FlashNext \/ UNCHANGED flashVars
    BY <1>2 DEF Next
<1>3. ASSUME UNCHANGED allVars
      PROVE  UNCHANGED <<alarmVars, timeVars, cacheVars, fileVars, i2cVars, flashVars>>
    BY <1>3 DEF allVars
<1> QED
    BY <1>1, <1>2, <1>3

(* In every behaviour of the run, whichever driver it is about, the        *)
(* variables of all of them keep to their types.                           *)
THEOREM DriversTypesAlways == PowersAssumed /\ Spec => []DriversTypeOK
<1> SUFFICES ASSUME PowersAssumed PROVE Spec => []DriversTypeOK
    OBVIOUS
<1> DEFINE Kept == /\ AlarmInv /\ TimeBounds /\ CacheInv /\ FlushBounds /\ FileInv
                   /\ I2cInv /\ FlashInv /\ LoopTyped /\ GotTyped
<1>1. Init => Kept
    BY EachAlone, AlarmInitInv, TimeBoundsInit, CacheInitInv, FlushBoundsInit, FileInitInv, I2cInitInv,
       FlashInitInv, FlashTypesInit
<1>2. Kept /\ [Next]_allVars => Kept'
  <2> SUFFICES ASSUME Kept, [Next]_allVars PROVE Kept'
      OBVIOUS
  <2>1. AlarmInv' /\ TimeBounds'
      BY EachAlone, IntervalsAssumption, AlarmStepInv, TimeTypesStep
  <2>2. CacheInv' /\ FlushBounds'
      BY EachAlone, BlocksAssumption, CacheStepInv, FlushBoundsStep
  <2>3. FileInv' /\ I2cInv'
      BY EachAlone, FileStepInv, I2cInvStep
  <2>4. FlashInv' /\ CallTyped'
      BY EachAlone, FlashStepInv DEF FlashInv
  <2>5. LoopTyped' /\ GotTyped'
      BY <2>4, EachAlone, FlashTypesStep
  <2> QED
      BY <2>1, <2>2, <2>3, <2>4, <2>5
<1>3. Kept => DriversTypeOK
  <2> SUFFICES ASSUME Kept PROVE DriversTypeOK
      OBVIOUS
  <2>1. AlarmTypeOK /\ FdTypeOK
      BY DEF AlarmInv, FileInv
  <2>2. TimeTypeOK /\ CacheTypeOK
      BY TimeBoundsType, FlushBoundsType
  <2>3. I2cTypeOK /\ FlashTypeOK
      BY I2cInvBus, FlashTypesRight
  <2> QED
      BY <2>1, <2>2, <2>3 DEF DriversTypeOK
<1> HIDE DEF Kept
<1> QED
    BY <1>1, <1>2, <1>3, PTL DEF Spec
=============================================================================

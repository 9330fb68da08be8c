------------------------ MODULE AdaptiveTimeoutProofs ------------------------
(***************************************************************************)
(* Proofs about AdaptiveTimeout, for every setting that RangeAssumption    *)
(* admits.                                                                 *)
(***************************************************************************)
EXTENDS AdaptiveTimeout, SpqrLemmas, TLAPS

\* The settings are positive.
LEMMA SettingsType ==
  /\ MIN_TIMEOUT \in Nat /\ MAX_TIMEOUT \in Nat /\ TIMEOUT \in Nat
  /\ TIME_UNIT \in Nat \ {0} /\ Tick \in Nat \ {0}
  /\ MIN_TIMEOUT <= TIMEOUT /\ TIMEOUT <= MAX_TIMEOUT
BY RangeAssumption

\* The multiple of w that a is rounded up to.
LEMMA RoundUp ==
  ASSUME NEW w \in Nat \ {0}, NEW a \in Nat
  PROVE  \E k \in Nat : /\ ((a + w - 1) \div w) * w = w * k
                       /\ a <= w * k /\ w * k < a + w
<1>1. a + w - 1 \in Nat  OBVIOUS
<1>2. PICK x \in Nat : x = a + w - 1  BY <1>1
<1>3. x \div w \in Nat /\ x % w \in 0 .. w-1 /\ x = w * (x \div w) + (x % w)
      BY DivMod
<1>4. PICK k \in Nat : k = x \div w  BY <1>3
<1>5. PICK r \in 0 .. w-1 : r = x % w  BY <1>3
<1>6. x = w * k + r  BY <1>3, <1>4, <1>5
<1>7. PICK m \in Nat : m = w * k  BY SMT
<1>8. k * w = m  BY <1>7, SMT
<1>9. a <= m /\ m < a + w  BY <1>2, <1>5, <1>6, <1>7
<1> QED  BY <1>2, <1>4, <1>7, <1>8, <1>9

\* A timeout the kernel rounds up is less than a tick longer, in whole ticks, and
\* not above any whole ticks it was not above before.
LEMMA TicksRoundUp ==
  ASSUME NEW t \in Nat
  PROVE  /\ Ticks(t) \in Nat /\ t <= Ticks(t) /\ Ticks(t) < t + Tick
         /\ Ticks(t) % Tick = 0
         /\ \A u \in Nat : t <= u /\ u % Tick = 0 => Ticks(t) <= u
<1>1. Tick \in Nat \ {0}  BY SettingsType
<1>2. PICK k \in Nat : Ticks(t) = Tick * k /\ t <= Tick * k /\ Tick * k < t + Tick
      BY <1>1, RoundUp DEF Ticks
<1>3. Tick * k \in Nat  BY <1>1, SMT
<1>4. Ticks(t) % Tick = 0  BY <1>1, <1>2, <1>3, ModUnique
<1>5. ASSUME NEW u \in Nat, t <= u, u % Tick = 0, u < Ticks(t)  PROVE FALSE
  <2>1. Ticks(t) >= u + Tick  BY <1>1, <1>2, <1>3, <1>4, <1>5, ModGap
  <2> QED  BY <1>1, <1>2, <1>3, <1>5, <2>1
<1> QED  BY <1>2, <1>3, <1>4, <1>5

\* A timeout in range stays there when it is increased, and grows while it can.
LEMMA IncreasedInRange ==
  ASSUME NEW t \in Nat, MIN_TIMEOUT <= t, t < MAX_TIMEOUT + Tick, t % Tick = 0,
         NEW e \in Nat, t >= Expected(e)
  PROVE  /\ Increased(t) \in Nat /\ Increased(t) % Tick = 0
         /\ MIN_TIMEOUT <= Increased(t) /\ Increased(t) < MAX_TIMEOUT + Tick
         /\ Increased(t) >= Expected(e + 1)
<1>1. t + TIME_UNIT \in Nat  BY SettingsType
<1>2. (e + 1) * TIME_UNIT = e * TIME_UNIT + TIME_UNIT /\ e * TIME_UNIT \in Nat
      BY SettingsType, SMT
<1>3. /\ Ticks(t + TIME_UNIT) \in Nat /\ t + TIME_UNIT <= Ticks(t + TIME_UNIT)
      /\ Ticks(t + TIME_UNIT) < t + TIME_UNIT + Tick /\ Ticks(t + TIME_UNIT) % Tick = 0
      BY <1>1, TicksRoundUp
<1>4. CASE t <= MAX_TIMEOUT - TIME_UNIT
  BY SettingsType, <1>2, <1>3, <1>4 DEF Increased, Expected, Least
<1>5. CASE ~(t <= MAX_TIMEOUT - TIME_UNIT)
  BY SettingsType, <1>2, <1>5 DEF Increased, Expected, Least
<1> QED  BY <1>4, <1>5

\* It stays there, too, when it is decreased.
LEMMA DecreasedInRange ==
  ASSUME NEW t \in Nat, MIN_TIMEOUT <= t, t < MAX_TIMEOUT + Tick, t % Tick = 0
  PROVE  /\ Decreased(t) \in Nat /\ Decreased(t) % Tick = 0
         /\ MIN_TIMEOUT <= Decreased(t) /\ Decreased(t) < MAX_TIMEOUT + Tick
<1>1. CASE t >= MIN_TIMEOUT + TIME_UNIT
  <2>1. t - TIME_UNIT \in Nat /\ t - TIME_UNIT <= t /\ t - TIME_UNIT >= MIN_TIMEOUT
        BY SettingsType, <1>1
  <2>2. /\ Ticks(t - TIME_UNIT) \in Nat /\ t - TIME_UNIT <= Ticks(t - TIME_UNIT)
        /\ Ticks(t - TIME_UNIT) <= t /\ Ticks(t - TIME_UNIT) % Tick = 0
        BY <2>1, TicksRoundUp
  <2> QED  BY SettingsType, <1>1, <2>1, <2>2 DEF Decreased
<1>2. CASE ~(t >= MIN_TIMEOUT + TIME_UNIT)  BY <1>2 DEF Decreased
<1> QED  BY <1>1, <1>2

\* TIMEOUT and MAX_TIMEOUT are in range, and no timeout is below Expected(0).
LEMMA SettingsInRange ==
  /\ Ticks(TIMEOUT) \in Nat /\ Ticks(MAX_TIMEOUT) \in Nat
  /\ Ticks(TIMEOUT) % Tick = 0 /\ Ticks(MAX_TIMEOUT) % Tick = 0 /\ 0 % Tick = 0
  /\ MIN_TIMEOUT <= Ticks(TIMEOUT) /\ Ticks(TIMEOUT) < MAX_TIMEOUT + Tick
  /\ \A t \in Nat : t >= MIN_TIMEOUT => t >= Expected(0)
<1>1. /\ Ticks(TIMEOUT) \in Nat /\ TIMEOUT <= Ticks(TIMEOUT) /\ Ticks(TIMEOUT) < TIMEOUT + Tick
      /\ Ticks(MAX_TIMEOUT) \in Nat
      /\ Ticks(TIMEOUT) % Tick = 0 /\ Ticks(MAX_TIMEOUT) % Tick = 0
      BY SettingsType, TicksRoundUp
<1>2. 0 % Tick = 0  BY SettingsType, ModSmall
<1>3. 0 * TIME_UNIT = 0  BY SettingsType
<1>4. \A t \in Nat : t >= MIN_TIMEOUT => t >= Expected(0)
      BY SettingsType, <1>3 DEF Expected, Least
<1> QED  BY SettingsType, <1>1, <1>2, <1>4

-----------------------------------------------------------------------------
\* Every step keeps the invariant.
LEMMA NextTimeout == TimeoutInv /\ [Next]_vars => TimeoutInv'
<1> SUFFICES ASSUME TimeoutInv, [Next]_vars  PROVE TimeoutInv'  OBVIOUS
<1> USE DEF TimeoutInv
<1>1. CASE UNCHANGED vars \/ Dead
  BY <1>1 DEF vars, Dead, TypeOK, WholeTicks, CommandsWaitForever, TimeoutInRange, TimeoutFollowsErrors
<1>2. CASE Get \/ StartTimesOut
  BY <1>2, SettingsInRange
     DEF Get, StartTimesOut, TypeOK, WholeTicks, CommandsWaitForever, TimeoutInRange,
         TimeoutFollowsErrors
<1>3. CASE NoTransfer \/ DrainEnds
  BY <1>3, SettingsInRange, ErrorsAssumption
     DEF NoTransfer, DrainEnds, AfterTransfer, TypeOK, WholeTicks, CommandsWaitForever,
         TimeoutInRange, TimeoutFollowsErrors
<1>4. CASE StartArrives
  BY <1>4, SettingsInRange, ErrorsAssumption
     DEF StartArrives, TypeOK, WholeTicks, CommandsWaitForever, TimeoutInRange,
         TimeoutFollowsErrors
<1>5. CASE AckTimesOut
  <2>1. /\ phase = "sending" /\ timeout \in Nat /\ errors \in Nat /\ silence + timeout \in Nat
        /\ errors + 1 \in 0 .. MAX_ERRORS
        BY <1>5, ErrorsAssumption DEF AckTimesOut, TypeOK
  <2>2. /\ MIN_TIMEOUT <= timeout /\ timeout < MAX_TIMEOUT + Tick /\ timeout >= Expected(errors)
        /\ timeout % Tick = 0
        BY <2>1 DEF TimeoutInRange, TimeoutFollowsErrors, WholeTicks
  <2>3. /\ Increased(timeout) \in Nat /\ Increased(timeout) % Tick = 0
        /\ MIN_TIMEOUT <= Increased(timeout) /\ Increased(timeout) < MAX_TIMEOUT + Tick
        /\ Increased(timeout) >= Expected(errors + 1)
        BY <2>1, <2>2, IncreasedInRange
  <2>4. CASE errors + 1 >= MAX_ERRORS
    BY <1>5, <2>1, <2>2, <2>4
       DEF AckTimesOut, TypeOK, WholeTicks, CommandsWaitForever, TimeoutInRange,
           TimeoutFollowsErrors
  <2>5. CASE ~(errors + 1 >= MAX_ERRORS)
    BY <1>5, <2>1, <2>3, <2>5, ErrorsAssumption
       DEF AckTimesOut, TypeOK, WholeTicks, CommandsWaitForever, TimeoutInRange,
           TimeoutFollowsErrors
  <2> QED  BY <2>4, <2>5
<1>6. CASE AckArrives
  <2>1. phase = "sending" /\ timeout \in Nat  BY <1>6 DEF AckArrives, TypeOK
  <2>2. MIN_TIMEOUT <= timeout /\ timeout < MAX_TIMEOUT + Tick /\ timeout % Tick = 0
        BY <2>1 DEF TimeoutInRange, WholeTicks
  <2>3. /\ Decreased(timeout) \in Nat /\ Decreased(timeout) % Tick = 0
        /\ MIN_TIMEOUT <= Decreased(timeout) /\ Decreased(timeout) < MAX_TIMEOUT + Tick
        BY <2>1, <2>2, DecreasedInRange
  <2>4. Decreased(timeout) >= Expected(0)  BY <2>3, SettingsInRange, SettingsType
  <2> QED  BY <1>6, <2>1, <2>3, <2>4, ErrorsAssumption
           DEF AckArrives, ErrorsAfterAck, TypeOK, WholeTicks, CommandsWaitForever,
               TimeoutInRange, TimeoutFollowsErrors
<1>7. CASE LastAckArrives
  BY <1>7, ErrorsAssumption
     DEF LastAckArrives, ErrorsAfterAck, TypeOK, WholeTicks, CommandsWaitForever,
         TimeoutInRange, TimeoutFollowsErrors
<1>8. CASE Put \/ ReceiveFails
  BY <1>8 DEF Put, ReceiveFails, TypeOK, WholeTicks, CommandsWaitForever, TimeoutInRange,
              TimeoutFollowsErrors
<1>9. CASE ReceiveEnds \/ CompletedArrives
  BY <1>9, SettingsInRange
     DEF ReceiveEnds, CompletedArrives, TypeOK, WholeTicks, CommandsWaitForever,
         TimeoutInRange, TimeoutFollowsErrors
<1> QED  BY <1>1, <1>2, <1>3, <1>4, <1>5, <1>6, <1>7, <1>8, <1>9 DEF Next

\* The invariant holds in the beginning.
LEMMA InitTimeout == Init => TimeoutInv
BY ErrorsAssumption, SettingsInRange
   DEF Init, TimeoutInv, TypeOK, WholeTicks, CommandsWaitForever, TimeoutInRange,
       TimeoutFollowsErrors

\* With every setting that has MIN_TIMEOUT <= TIMEOUT <= MAX_TIMEOUT, and whatever
\* the kernel's tick, a sender's timeout stays between the two (in ticks), ...
THEOREM TimeoutStaysInRange == Spec => []TimeoutInRange
<1>1. TimeoutInv => TimeoutInRange  BY DEF TimeoutInv
<1> QED  BY InitTimeout, <1>1, NextTimeout, PTL DEF Spec

\* ... grows at least with the timeouts in a row, ...
THEOREM TimeoutGrows == Spec => []TimeoutFollowsErrors
<1>1. TimeoutInv => TimeoutFollowsErrors  BY DEF TimeoutInv
<1> QED  BY InitTimeout, <1>1, NextTimeout, PTL DEF Spec

\* ... and is gone when the child waits for a command or receives a file.
THEOREM CommandsHaveNoTimeout == Spec => []CommandsWaitForever
<1>1. TimeoutInv => CommandsWaitForever  BY DEF TimeoutInv
<1> QED  BY InitTimeout, <1>1, NextTimeout, PTL DEF Spec

-----------------------------------------------------------------------------
\* The patience of a sender is what its definition says.
LEMMA PatienceIs ==
  /\ Patience[0] = 0
  /\ \A e \in Nat : Patience[e] \in Int /\ Patience[e + 1] = Patience[e] + Expected(e)
<1> DEFINE x == [e \in Nat |-> Expected(e)]
<1>1. \A e \in Nat : Expected(e) \in Int
  <2>1. \A e \in Nat : e * TIME_UNIT \in Nat  BY SettingsType, SMT
  <2> QED  BY SettingsType, <2>1 DEF Expected, Least
<1>2. x \in [Nat -> Int]  BY <1>1
<1>3. PICK f \in [Nat -> Int] : \A e \in Nat : f[e] = IF e = 0 THEN 0 ELSE f[e-1] + x[e-1]
  <2> HIDE DEF x
  <2> QED  BY <1>2, SumsExist
<1>4. \A e \in Nat : f[e] = IF e = 0 THEN 0 ELSE f[e-1] + Expected(e - 1)
  <2>1. \A e \in Nat : e # 0 => e - 1 \in Nat  OBVIOUS
  <2> QED  BY <1>3, <2>1
<1>5. f = [e \in Nat |-> IF e = 0 THEN 0 ELSE f[e-1] + Expected(e - 1)]  BY <1>4
<1>6. Patience = [e \in Nat |-> IF e = 0 THEN 0 ELSE Patience[e-1] + Expected(e - 1)]
  BY <1>5 DEF Patience
<1> DEFINE P == Patience
<1>7. \A e \in Nat : P[e] = IF e = 0 THEN 0 ELSE P[e-1] + Expected(e - 1)
  <2> HIDE DEF Patience
  <2> QED  BY <1>6
<1> HIDE DEF P
<1>8. P[0] = 0  BY <1>7
<1>9. \A e \in Nat : P[e + 1] = P[e] + Expected(e)
  <2> TAKE e \in Nat
  <2>1. e + 1 \in Nat /\ e + 1 # 0 /\ (e + 1) - 1 = e  OBVIOUS
  <2> QED  BY <1>7, <2>1
<1>10. \A e \in Nat : P[e] \in Int
  <2> DEFINE S == {e \in Nat : P[e] \in Int}
  <2>1. 0 \in S  BY <1>8
  <2>2. \A e \in Nat : e \in S => e + 1 \in S  BY <1>1, <1>9
  <2>3. Nat \subseteq S
    <3> HIDE DEF S
    <3> QED  BY <2>1, <2>2, NaturalsOf
  <2> QED  BY <2>3
<1> QED  BY <1>8, <1>9, <1>10 DEF P

\* No timeout in whole ticks is longer than that of MAX_TIMEOUT.
LEMMA LongestTimeout ==
  ASSUME NEW t \in Nat, t < MAX_TIMEOUT + Tick, t % Tick = 0
  PROVE  t <= Ticks(MAX_TIMEOUT)
<1>1. /\ Ticks(MAX_TIMEOUT) \in Nat /\ MAX_TIMEOUT <= Ticks(MAX_TIMEOUT)
      /\ Ticks(MAX_TIMEOUT) % Tick = 0
      BY SettingsType, TicksRoundUp
<1>2. ASSUME Ticks(MAX_TIMEOUT) < t  PROVE FALSE
  <2>1. t >= Ticks(MAX_TIMEOUT) + Tick  BY SettingsType, <1>1, <1>2, ModGap
  <2> QED  BY SettingsType, <1>1, <2>1
<1> QED  BY <1>1, <1>2

\* A row of timeouts that has begun is the silence since.
LEMMA NextSilence == TimeoutInv /\ SilenceIsBounded /\ [Next]_vars => SilenceIsBounded'
<1> SUFFICES ASSUME TimeoutInv, SilenceIsBounded, [Next]_vars  PROVE SilenceIsBounded'  OBVIOUS
<1> DEFINE longest == Ticks(MAX_TIMEOUT)
<1>1. longest \in Nat /\ 0 * longest = 0  BY SettingsInRange
<1>2. CASE UNCHANGED vars \/ Dead
  BY <1>2 DEF vars, Dead, SilenceIsBounded
<1>3. CASE AckTimesOut
  <2>1. /\ phase = "sending" /\ errors' = errors + 1 /\ silence' = silence + timeout
        /\ timeout \in Nat /\ errors \in Nat /\ silence \in Nat
        BY <1>3 DEF AckTimesOut, TimeoutInv, TypeOK
  <2>2. timeout >= Expected(errors) /\ timeout <= longest
        BY <2>1, LongestTimeout DEF TimeoutInv, TimeoutFollowsErrors, TimeoutInRange, WholeTicks
  <2>3. silence >= Patience[errors] /\ silence <= errors * longest
        BY <2>1 DEF SilenceIsBounded
  <2>4. /\ Patience[errors + 1] = Patience[errors] + Expected(errors)
        /\ Patience[errors] \in Int /\ Patience[errors + 1] \in Int
        BY <2>1, PatienceIs
  <2>5. (errors + 1) * longest = errors * longest + longest /\ errors * longest \in Nat
        BY <1>1, <2>1, SMT
  <2> HIDE DEF longest
  <2>6. Expected(errors) \in Int  BY <2>1, SettingsType, SMT DEF Expected, Least
  <2>7. silence' >= Patience[errors']
        BY <2>1, <2>2, <2>3, <2>4, <2>6
  <2>8. silence' <= errors' * longest
        BY <1>1, <2>1, <2>2, <2>3, <2>5
  <2> QED  BY <2>7, <2>8 DEF SilenceIsBounded, longest
<1>4. CASE AckArrives \/ LastAckArrives \/ StartArrives
  <2>1. errors' = 0 /\ silence' = 0
        BY <1>4 DEF AckArrives, LastAckArrives, StartArrives, ErrorsAfterAck
  <2> QED  BY <1>1, <2>1, PatienceIs DEF SilenceIsBounded
<1>5. CASE Get \/ StartTimesOut \/ NoTransfer \/ DrainEnds \/ Put \/ ReceiveFails \/ ReceiveEnds
           \/ CompletedArrives
  <2>1. phase' \notin {"sending", "draining"}
        BY <1>5 DEF Get, StartTimesOut, NoTransfer, DrainEnds, Put, ReceiveFails, ReceiveEnds,
                    CompletedArrives
  <2> QED  BY <2>1 DEF SilenceIsBounded
<1> QED  BY <1>2, <1>3, <1>4, <1>5 DEF Next

\* A sender that has seen e timeouts in a row has waited for at least Patience[e], the sum
\* of the shortest timeouts that may be: a receiver that answers sooner is not given up;
\* and one that never answers is, within MAX_ERRORS times the longest timeout.
THEOREM SilenceStaysBounded == Spec => []SilenceIsBounded
<1>1. Init => SilenceIsBounded  BY DEF Init, SilenceIsBounded
<1>2. Init => TimeoutInv  BY InitTimeout
<1> QED  BY <1>1, <1>2, NextTimeout, NextSilence, PTL DEF Spec
=============================================================================

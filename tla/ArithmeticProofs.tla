-------------------------- MODULE ArithmeticProofs --------------------------
(***************************************************************************)
(* Theorems about the modules whose state is numbers: BufferAlloc, for     *)
(* every length, default size and kind of buffer, AlarmTimer and           *)
(* ConditionMgr, for every resolution of the clock, every duration and     *)
(* every deadline, and Sha, for every size of block and every message.     *)
(*                                                                         *)
(* That no append leaves the block holds whatever fails; that nothing      *)
(* undefined happens and no block is lost holds where the buffer is well   *)
(* used.  The timer's theorems say when the answers of                     *)
(* alarm_timer_is_expired may be given, and for how long a timed wait on   *)
(* Windows sleeps.  Those about Sha say that the bytes absorbed are the    *)
(* bytes hashed, followed by the padding that the standard asks for.       *)
(***************************************************************************)
EXTENDS BufferAlloc, ConditionMgr, Sha, SequenceTheorems, TLAPS

-----------------------------------------------------------------------------
(* BufferAlloc *)


\* The block is at least as large as alloc_size says, and the content is within
\* alloc_size also while there is no block.
SizesInv ==
    /\ payload \in {"null", "live", "freed"}
    /\ {alloc_size, default_alloc, block, size} \subseteq Nat
    /\ size <= alloc_size
    /\ payload = "live" => block >= alloc_size /\ size + Terminator <= block

LEMMA SettingStep == [BufferNext]_bufferVars => kind' = kind /\ faults' = faults
BY DEF BufferNext, bufferVars, setting, Construct, ConstructFreed, FormatFails, Free

LEMMA LengthsAreNat == \A n \in Lengths \cup {0} : n \in Nat
BY BufferAllocAssumption

LEMMA SizesInit == BufferInit => SizesInv
BY DEF BufferInit, SizesInv

LEMMA SizesStep == SizesInv /\ [BufferNext]_bufferVars => SizesInv'
<1> SUFFICES ASSUME SizesInv, [BufferNext]_bufferVars PROVE SizesInv'
  OBVIOUS
<1>0. Terminator \in {0, 1} /\ Terminator' = Terminator
  BY SettingStep DEF Terminator
<1> USE <1>0, BufferAllocAssumption DEF SizesInv
<1>1. ASSUME NEW n \in Lengths \cup {0}, Construct(n) PROVE SizesInv'
  <2>0. n \in Nat
    BY LengthsAreNat
  <2>1. CASE Fresh(n)
    <3>1. NewDefault(n) \in Nat
      BY <2>0 DEF NewDefault
    <3>2. size = 0
      BY <2>1 DEF Fresh
    <3> QED BY <2>0, <2>1, <3>1, <3>2 DEF Fresh, Appended
  <2>2. CASE FreshFails(n)
    <3>1. NewDefault(n) \in Nat
      BY <2>0 DEF NewDefault
    <3> QED BY <2>0, <2>2, <3>1 DEF FreshFails
  <2>3. CASE Grow(n)
    BY <2>0, <2>3 DEF Grow, Grown, Appended
  <2>4. CASE GrowFails(n)
    BY <2>4 DEF GrowFails, PayloadAfterFailure
  <2>5. CASE Fits(n)
    BY <2>0, <2>5 DEF Fits, GrowNeeded, Appended
  <2> QED BY <1>1, <2>1, <2>2, <2>3, <2>4, <2>5 DEF Construct
<1>2. ASSUME NEW n \in Lengths \cup {0}, ConstructFreed(n) PROVE SizesInv'
  BY <1>2 DEF ConstructFreed
<1>3. ASSUME NEW n \in Lengths \cup {0}, FormatFails(n) PROVE SizesInv'
  <2>1. n \in Nat
    BY LengthsAreNat
  <2>2. NewDefault(n) \in Nat
    BY <2>1 DEF NewDefault
  <2>3. CASE alloc_size = 0
    BY <1>3, <2>1, <2>2, <2>3 DEF FormatFails
  <2>4. CASE alloc_size > 0 /\ GrowNeeded(n)
    BY <1>3, <2>1, <2>4 DEF FormatFails, Grown
  <2>5. CASE alloc_size > 0 /\ ~GrowNeeded(n)
    BY <1>3, <2>1, <2>5 DEF FormatFails
  <2> QED BY <2>3, <2>4, <2>5
<1>4. CASE Free
  BY <1>4 DEF Free, AllocAfterFree
<1>5. CASE UNCHANGED bufferVars
  BY <1>5 DEF bufferVars
<1> QED BY <1>1, <1>2, <1>3, <1>4, <1>5 DEF BufferNext

\* What BufferTypeOK says and SizesInv does not: the flags, the bound of the model, and
\* that a freed buffer is one of size 0 unless a format failed.
FlagsInv ==
    /\ kind \in {"string", "byte"} /\ faults \subseteq Faults
    /\ lost \in BOOLEAN /\ ub \in BOOLEAN
    /\ size <= MaxSize
    /\ payload = "freed" /\ "format" \notin faults => alloc_size = 0 /\ size = 0

LEMMA FlagsStep == SizesInv /\ FlagsInv /\ [BufferNext]_bufferVars => FlagsInv'
<1> SUFFICES ASSUME SizesInv, FlagsInv, [BufferNext]_bufferVars PROVE FlagsInv'
  OBVIOUS
<1>0. kind' \in {"string", "byte"} /\ faults' = faults /\ faults' \subseteq Faults
  BY SettingStep DEF FlagsInv
<1>1. lost \in BOOLEAN /\ ub \in BOOLEAN
  BY DEF FlagsInv
<1>2. ASSUME NEW n \in Lengths \cup {0}, Construct(n) PROVE FlagsInv'
  <2>1. lost' \in BOOLEAN
    BY <1>1, <1>2, Zenon DEF Construct, Fresh, FreshFails, Grow, GrowFails, Fits
  <2>2. ub' \in BOOLEAN
    BY <1>1, <1>2, Zenon DEF Construct, Fresh, FreshFails, Grow, GrowFails, Fits, Appended
  <2>3. n \in Nat /\ size + n <= MaxSize
    BY <1>2, LengthsAreNat DEF Construct, MayAppend
  <2>4. size' <= MaxSize
    BY <1>2, <2>3 DEF FlagsInv, Construct, Fresh, FreshFails, Grow, GrowFails, Fits, Appended
  <2>5. payload' = "freed" /\ "format" \notin faults' => alloc_size' = 0 /\ size' = 0
    BY <1>0, <1>2 DEF FlagsInv, Construct, Fresh, FreshFails, Grow, GrowFails, Fits, PayloadAfterFailure
  <2> QED BY <1>0, <2>1, <2>2, <2>4, <2>5 DEF FlagsInv
<1>3. ASSUME NEW n \in Lengths \cup {0}, ConstructFreed(n) PROVE FlagsInv'
  BY <1>0, <1>3 DEF FlagsInv, ConstructFreed
<1>4. ASSUME NEW n \in Lengths \cup {0}, FormatFails(n) PROVE FlagsInv'
  <2>1. lost' \in BOOLEAN
    BY <1>1, <1>4, Zenon DEF FormatFails
  <2>2. ub' \in BOOLEAN
    BY <1>1, <1>4, Zenon DEF FormatFails
  <2>3. size' = size /\ "format" \in faults
    BY <1>4 DEF FormatFails
  <2> QED BY <1>0, <2>1, <2>2, <2>3 DEF FlagsInv
<1>5. CASE Free
  <2>1. lost' \in BOOLEAN /\ ub' \in BOOLEAN
    BY <1>5, Zenon DEF Free
  <2>2. size' = 0 /\ alloc_size' = 0
    BY <1>5 DEF Free, AllocAfterFree
  <2> QED BY <1>0, <2>1, <2>2, BufferAllocAssumption DEF FlagsInv
<1>6. CASE UNCHANGED bufferVars
  BY <1>0, <1>6 DEF FlagsInv, bufferVars
<1> QED BY <1>2, <1>3, <1>4, <1>5, <1>6 DEF BufferNext

\* For every sequence of calls, whatever fails among them, string_buffer_construct,
\* string_buffer_construct_sprintf and byte_buffer_construct write within the
\* block of the buffer, and a text keeps room for its terminating zero.
THEOREM AppendsStayWithinBlock == BufferSpec => []WithinBlock
<1>1. SizesInv /\ FlagsInv => WithinBlock
  BY DEF SizesInv, FlagsInv, BufferTypeOK, WithinBlock
<1>2. ASSUME BufferInit PROVE FlagsInv
  <2>1. lost \in BOOLEAN /\ ub \in BOOLEAN
    BY <1>2, Zenon DEF BufferInit
  <2> QED BY <1>2, <2>1, BufferAllocAssumption DEF BufferInit, FlagsInv
<1> QED BY SizesInit, SizesStep, FlagsStep, <1>1, <1>2, PTL DEF BufferSpec

-----------------------------------------------------------------------------

\* While a buffer is well used it has a block exactly when alloc_size is not zero.
Owned ==
    /\ payload \in {"null", "live", "freed"}
    /\ alloc_size \in Nat /\ default_alloc \in Nat
    /\ payload = "live" <=> alloc_size > 0
    /\ lost = FALSE
    /\ ub = FALSE

OwnershipInv == kind \in {"string", "byte"} /\ (WellUsed => Owned)

LEMMA OwnershipStep == OwnershipInv /\ [BufferNext]_bufferVars => OwnershipInv'
<1> SUFFICES ASSUME kind \in {"string", "byte"}, WellUsed, Owned, [BufferNext]_bufferVars PROVE Owned'
  BY SettingStep DEF OwnershipInv, WellUsed
<1> USE BufferAllocAssumption DEF Owned
<1>1. ASSUME NEW n \in Lengths \cup {0}, Construct(n) PROVE Owned'
  <2>1. n \in Nat \ {0}
    BY <1>1 DEF Construct, MayAppend, WellUsed
  <2>2. CASE Fresh(n)
    <3>1. NewDefault(n) \in Nat
      BY <2>1 DEF NewDefault
    <3>2. payload # "live"
      BY <2>2 DEF Fresh
    <3>3. ub' = FALSE /\ lost' = FALSE
      BY <2>2, <3>2, Zenon DEF Fresh, Appended
    <3> QED BY <2>1, <2>2, <3>1, <3>3 DEF Fresh
  <2>3. CASE FreshFails(n)
    BY <2>3 DEF FreshFails, WellUsed
  <2>4. CASE Grow(n)
    <3>1. ub' = FALSE
      BY <2>4, Zenon DEF Grow, Appended
    <3> QED BY <2>1, <2>4, <3>1 DEF Grow, Grown
  <2>5. CASE GrowFails(n)
    BY <2>5 DEF GrowFails, PayloadAfterFailure
  <2>6. CASE Fits(n)
    BY <2>6 DEF Fits, Appended
  <2> QED BY <1>1, <2>2, <2>3, <2>4, <2>5, <2>6 DEF Construct
<1>2. ASSUME NEW n \in Lengths \cup {0}, ConstructFreed(n) PROVE Owned'
  BY <1>2 DEF ConstructFreed, MayAppend, Readable, WellUsed
<1>3. ASSUME NEW n \in Lengths \cup {0}, FormatFails(n) PROVE Owned'
  BY <1>3 DEF FormatFails, WellUsed
<1>4. CASE Free
  <2>1. payload' # "live" /\ payload' \in {"null", "freed"}
    BY <1>4 DEF Free, HasBlock
  <2>2. ~(HasBlock /\ payload = "freed")
    BY DEF HasBlock
  <2>3. ub' = FALSE /\ lost' = FALSE
    BY <1>4, <2>1, <2>2, Zenon DEF Free
  <2>4. default_alloc' \in Nat /\ alloc_size' = 0
    BY <1>4 DEF Free, AllocAfterFree
  <2> QED BY <2>1, <2>3, <2>4
<1>5. CASE UNCHANGED bufferVars
  BY <1>5 DEF bufferVars
<1> QED BY <1>1, <1>2, <1>3, <1>4, <1>5 DEF BufferNext

LEMMA InitOwned == BufferInit => OwnershipInv
BY DEF BufferInit, OwnershipInv, Owned

\* A well used buffer never touches freed memory or NULL and never frees a block
\* twice, also when realloc fails.
THEOREM NothingUndefined == BufferSpec => []NoUndefinedBehaviour
<1>1. OwnershipInv => NoUndefinedBehaviour
  BY DEF OwnershipInv, Owned, NoUndefinedBehaviour
<1> QED BY <1>1, InitOwned, OwnershipStep, PTL DEF BufferSpec

\* Every block of a well used buffer is freed or still in the buffer.
THEOREM BlocksAreFreed == BufferSpec => []NothingLost
<1>1. OwnershipInv => NothingLost
  BY DEF OwnershipInv, Owned, NothingLost
<1> QED BY <1>1, InitOwned, OwnershipStep, PTL DEF BufferSpec

-----------------------------------------------------------------------------
(* AlarmTimer *)


\* The instant, in ticks of the clock as it is set now, at which the timer began.
Began == clock + skew - elapsed

\* start_time is the second of that instant.
ClockInv ==
    /\ expire_sec \in Nat /\ start_time \in Nat
    /\ clock \in Nat /\ elapsed \in Nat /\ skew \in Nat
    /\ running \in BOOLEAN
    /\ running => Began \in Nat /\ start_time = Began \div Sub

\* The last answer is still the one the comparison gives.
AnswerInv ==
    /\ ret = "yes" /\ start_time <= Time => Time - start_time > expire_sec
    /\ ret = "no" /\ start_time <= Time => Time - start_time <= expire_sec

LEMMA DivBounds ==
    ASSUME NEW n \in Nat, NEW d \in Nat \ {0}
    PROVE  n \div d \in Nat /\ d * (n \div d) <= n /\ n < d * (n \div d) + d
BY SMT

\* Whole seconds x and y of two instants differ by more than e: so more than e
\* seconds lie between the instants.
LEMMA SecondsApart ==
    ASSUME NEW d \in Nat \ {0}, NEW m \in Nat, NEW n \in Nat,
           NEW x \in Nat, NEW y \in Nat, NEW e \in Nat,
           d * x <= m, n < d * y + d, x - y > e
    PROVE  m - n > d * e
<1>1. x >= y + e + 1
  OBVIOUS
<1>2. d * x >= d * (y + e + 1)
  BY <1>1, SMT
<1>3. d * (y + e + 1) = d * y + d * e + d
  BY SMT
<1> QED BY <1>2, <1>3

\* They differ by at most e: so less than e + 1 seconds lie between.
LEMMA SecondsClose ==
    ASSUME NEW d \in Nat \ {0}, NEW m \in Nat, NEW n \in Nat,
           NEW x \in Nat, NEW y \in Nat, NEW e \in Nat,
           m < d * x + d, d * y <= n, x <= y + e
    PROVE  m - n < d * (e + 1)
<1>1. d * x <= d * (y + e)
  BY SMT
<1>2. d * (y + e) = d * y + d * e /\ d * (e + 1) = d * e + d
  BY SMT
<1> QED BY <1>1, <1>2

LEMMA TimerStep == ClockInv /\ AnswerInv /\ [Next]_vars => ClockInv' /\ AnswerInv'
<1> SUFFICES ASSUME ClockInv, AnswerInv, [Next]_vars PROVE ClockInv' /\ AnswerInv'
  OBVIOUS
<1> USE AlarmTimerAssumption DEF ClockInv
<1>0. Time \in Nat
  BY DivBounds DEF Time
<1>1. CASE InitTimer
  BY <1>1 DEF InitTimer, AnswerInv
<1>2. ASSUME NEW d \in Durations, Start(d) PROVE ClockInv' /\ AnswerInv'
  <2>1. Began' = clock
    BY <1>2 DEF Start, Began
  <2> QED BY <1>0, <1>2, <2>1 DEF Start, AnswerInv, Time
<1>3. CASE Reset
  <2>1. Began' = clock
    BY <1>3 DEF Reset, Began
  <2> QED BY <1>0, <1>3, <2>1 DEF Reset, StartOver, AnswerInv, Time
<1>4. CASE IsExpired
  <2>1. Began' = Began /\ Time' = Time
    BY <1>4 DEF IsExpired, timer, Began, Time
  <2>2. ClockInv'
    BY <1>4, <2>1 DEF IsExpired, timer
  <2>3. AnswerInv'
    BY <1>0, <1>4, <2>1 DEF IsExpired, Expired, timer, AnswerInv
  <2> QED BY <2>2, <2>3
<1>5. CASE Tick
  <2>1. Began' = Began
    BY <1>5 DEF Tick, Began
  <2> QED BY <1>5, <2>1 DEF Tick, timer, AnswerInv
<1>6. CASE StepBack
  <2>1. Began' = Began
    BY <1>6 DEF StepBack, Began
  <2>2. clock' \in Nat /\ skew' \in Nat
    BY <1>6 DEF StepBack
  <2> QED BY <1>6, <2>1, <2>2 DEF StepBack, timer, AnswerInv
<1>7. CASE UNCHANGED vars
  <2>1. Began' = Began /\ Time' = Time
    BY <1>7 DEF vars, Began, Time
  <2> QED BY <1>7, <2>1 DEF vars, timer, AnswerInv
<1> QED BY <1>1, <1>2, <1>3, <1>4, <1>5, <1>6, <1>7 DEF Next

LEMMA TimerInvariant == Spec => [](ClockInv /\ AnswerInv)
<1>1. Init => ClockInv /\ AnswerInv
  <2> SUFFICES ASSUME Init PROVE ClockInv /\ AnswerInv
    OBVIOUS
  <2>1. ~running /\ running \in BOOLEAN
    BY DEF Init
  <2>2. clock \in Nat /\ expire_sec = 0 /\ start_time = 0 /\ elapsed = 0 /\ skew = 0
    BY AlarmTimerAssumption DEF Init
  <2>3. ClockInv
    BY <2>1, <2>2 DEF ClockInv
  <2>4. AnswerInv
    BY DEF Init, AnswerInv
  <2> QED BY <2>3, <2>4
<1> QED BY <1>1, TimerStep, PTL DEF Spec

\* alarm_timer_is_expired answers yes only after the whole duration, although it
\* sees whole seconds only and although the clock may be set back.
THEOREM TimerNeverEarly == Spec => []NeverEarly
<1>1. ClockInv /\ AnswerInv => NeverEarly
  <2> SUFFICES ASSUME ClockInv, AnswerInv, running, ret = "yes", start_time <= Time
               PROVE  elapsed > Sub * expire_sec
    BY DEF NeverEarly
  <2> USE AlarmTimerAssumption DEF ClockInv
  <2>1. Time \in Nat /\ Sub * Time <= clock
    BY DivBounds DEF Time
  <2>2. Began \in Nat /\ Began < Sub * start_time + Sub
    BY DivBounds
  <2>3. Time - start_time > expire_sec
    BY DEF AnswerInv
  <2>4. clock - Began > Sub * expire_sec
    BY <2>1, <2>2, <2>3, SecondsApart
  <2>5. Sub * expire_sec \in Nat
    OBVIOUS
  <2> QED BY <2>4, <2>5 DEF Began
<1> QED BY <1>1, TimerInvariant, PTL

\* It answers no for at most one second more than the duration, and for as long
\* as the clock was set back.
THEOREM TimerNeverLate == Spec => []NeverLate
<1>1. ClockInv /\ AnswerInv => NeverLate
  <2> SUFFICES ASSUME ClockInv, AnswerInv, running, ret = "no"
               PROVE  elapsed < Sub * (expire_sec + 1) + skew
    BY DEF NeverLate
  <2> USE AlarmTimerAssumption DEF ClockInv
  <2>1. Time \in Nat /\ clock < Sub * Time + Sub
    BY DivBounds DEF Time
  <2>2. Began \in Nat /\ Sub * start_time <= Began
    BY DivBounds
  <2>3. Time <= start_time + expire_sec
    BY <2>1 DEF AnswerInv
  <2>4. clock - Began < Sub * (expire_sec + 1)
    BY <2>1, <2>2, <2>3, SecondsClose
  <2>5. Sub * (expire_sec + 1) \in Nat
    OBVIOUS
  <2> QED BY <2>4, <2>5 DEF Began
<1> QED BY <1>1, TimerInvariant, PTL

-----------------------------------------------------------------------------
(* ConditionMgr *)

LEMMA TimeStepIsStep == [TimeNext]_allVars => [Next]_vars
<1> SUFFICES ASSUME [TimeNext]_allVars PROVE [Next]_vars
  OBVIOUS
<1>1. CASE UNCHANGED allVars
  BY <1>1 DEF allVars
<1>2. CASE client = "alarm" /\ Next
  BY <1>2
<1>3. ASSUME NEW d \in Deadlines, TimedWait(d) PROVE UNCHANGED vars
  BY <1>3 DEF TimedWait
<1>4. CASE Wait \/ TimesOut \/ Wakes
  BY <1>4 DEF Wait, TimesOut, Wakes
<1>5. CASE TickInWait \/ StepBackInWait
  BY <1>5 DEF TickInWait, StepBackInWait, Next
<1> QED BY <1>1, <1>2, <1>3, <1>4, <1>5 DEF TimeNext

\* The clock of ConditionMgr is that of AlarmTimer, whose invariant SleepsRight needs.
LEMMA ClockIsOfTimer == TimeSpec => Spec
<1>1. TimeInit => Init
  BY DEF TimeInit
<1> QED BY <1>1, TimeStepIsStep, PTL DEF TimeSpec, Spec

\* The bounds of the clock.
BoundsInv ==
    /\ clock \in 0 .. Horizon /\ skew \in 0 .. MaxSkew
    /\ expire_sec \in Durations \cup {0}
    /\ ret \in {"none", "yes", "no"}

\* What timespec_to_ms computes from a deadline and the clock at the call.
Left(d, at) == (((d \div Sub) - (at \div Sub)) * Sub + (d % Sub)) % DwordMod

\* The sleep is the one that was computed at the call, whatever happened to the
\* clock since.
WaitInv ==
    /\ client \in {"alarm", "condition"} /\ platform \in {"posix", "win"}
    /\ wait \in {"none", "timed", "wait"}
    /\ deadline \in Deadlines \cup {0}
    /\ called \in 0 .. Horizon /\ waited \in Nat
    /\ lasts \in 0 .. DwordMod - 1
    /\ platform = "win" /\ wait = "timed" =>
          deadline \in Deadlines /\ lasts = Left(deadline, called)

LEMMA ModBounds ==
    ASSUME NEW n \in Int, NEW d \in Nat \ {0}
    PROVE  n % d \in 0 .. d - 1
BY SMT

LEMMA ModSmall ==
    ASSUME NEW d \in Nat \ {0}, NEW n \in 0 .. d - 1
    PROVE  n % d = n
BY SMT

LEMMA DivMod ==
    ASSUME NEW n \in Nat, NEW d \in Nat \ {0}
    PROVE  n = d * (n \div d) + (n % d)
BY SMT

LEMMA BoundsStep == ClockInv /\ BoundsInv /\ [Next]_vars => BoundsInv'
<1> SUFFICES ASSUME ClockInv, BoundsInv, [Next]_vars PROVE BoundsInv'
  OBVIOUS
<1> USE AlarmTimerAssumption DEF BoundsInv
<1>1. CASE InitTimer
  BY <1>1 DEF InitTimer
<1>2. ASSUME NEW d \in Durations, Start(d) PROVE BoundsInv'
  BY <1>2 DEF Start
<1>3. CASE Reset
  BY <1>3 DEF Reset
<1>4. CASE IsExpired
  BY <1>4 DEF IsExpired, timer
<1>5. CASE Tick
  BY <1>5 DEF Tick, timer
<1>6. CASE StepBack
  BY <1>6 DEF StepBack, timer
<1>7. CASE UNCHANGED vars
  BY <1>7 DEF vars, timer
<1> QED BY <1>1, <1>2, <1>3, <1>4, <1>5, <1>6, <1>7 DEF Next

LEMMA WaitStep == BoundsInv /\ WaitInv /\ [TimeNext]_allVars => WaitInv'
<1> SUFFICES ASSUME BoundsInv, WaitInv, [TimeNext]_allVars PROVE WaitInv'
  OBVIOUS
<1> USE AlarmTimerAssumption, ConditionAssumption
<1>0. DwordMod \in Nat \ {0} /\ clock \in 0 .. Horizon
  BY DEF BoundsInv
<1>1. CASE UNCHANGED <<client, platform, waiter>>
  BY <1>1 DEF WaitInv, Left, waiter
<1>2. ASSUME NEW d \in Deadlines, TimedWait(d), UNCHANGED client PROVE WaitInv'
  <2>0. d \in Nat /\ clock \in Nat
    BY <1>0
  <2>1. (d \div Sub) \in Nat /\ (clock \div Sub) \in Nat /\ (d % Sub) \in Nat
    <3>1. (d \div Sub) \in Nat /\ (clock \div Sub) \in Nat
      BY <2>0, DivBounds
    <3>2. d % Sub \in 0 .. Sub - 1
      BY <2>0, ModBounds
    <3> QED BY <3>1, <3>2
  <2>2. ((d \div Sub) - (clock \div Sub)) * Sub + (d % Sub) \in Int
    BY <2>1
  <2>3. Left(d, clock) \in 0 .. DwordMod - 1
    BY <1>0, <2>2, ModBounds DEF Left
  <2>4. /\ wait' = "timed" /\ deadline' = d /\ called' = clock /\ waited' = 0
        /\ lasts' = IF platform = "win" THEN Left(d, clock) ELSE 0
        /\ platform' = platform /\ client' = client
    BY <1>2 DEF TimedWait, TimespecToMs, Left, Time
  <2>5. lasts' \in 0 .. DwordMod - 1
    BY <1>0, <2>3, <2>4
  <2>6. (platform = "win" /\ wait = "timed" =>
            deadline \in Deadlines /\ lasts = Left(deadline, called))'
    BY <2>4 DEF Left
  <2> QED BY <1>0, <2>4, <2>5, <2>6 DEF WaitInv
<1>3. CASE Wait /\ UNCHANGED client
  <2>1. wait' = "wait" /\ lasts' \in 0 .. DwordMod - 1
    BY <1>0, <1>3 DEF Wait, INFINITE
  <2> QED BY <1>0, <1>3, <2>1 DEF Wait, WaitInv
<1>4. CASE (TimesOut \/ Wakes) /\ UNCHANGED client
  BY <1>4 DEF TimesOut, Wakes, WaitInv
<1>5. CASE TickInWait /\ UNCHANGED client
  <2>1. waited' \in Nat /\ UNCHANGED <<client, platform, wait, deadline, called, lasts>>
    BY <1>5 DEF TickInWait, WaitInv
  <2> QED BY <2>1 DEF WaitInv, Left
<1>6. StepBackInWait => UNCHANGED <<platform, waiter>>
  BY DEF StepBackInWait
<1>7. CASE UNCHANGED allVars
  BY <1>1, <1>7 DEF allVars
<1> QED BY <1>1, <1>2, <1>3, <1>4, <1>5, <1>6, <1>7 DEF TimeNext

LEMMA WaitInvariant == TimeSpec => [](ClockInv /\ BoundsInv /\ WaitInv)
<1> USE AlarmTimerAssumption, ConditionAssumption
<1>1. TimeInit => BoundsInv /\ WaitInv
  BY DEF TimeInit, Init, BoundsInv, WaitInv
<1>2. TimeSpec => [](ClockInv /\ AnswerInv)
  BY ClockIsOfTimer, TimerInvariant
<1>3. [TimeNext]_allVars => [Next]_vars
  BY TimeStepIsStep
<1> QED BY <1>1, <1>2, <1>3, BoundsStep, WaitStep, PTL DEF TimeSpec

\* What timespec_to_ms leaves of a deadline: all of it that lies behind the
\* second of the call, as long as that is less than a DWORD can say.
LEMMA SleepIsLeft ==
    ASSUME NEW d \in Nat, NEW at \in Nat,
           d >= Sub * (at \div Sub), d < DwordMod
    PROVE  Left(d, at) = d - Sub * (at \div Sub)
<1> USE AlarmTimerAssumption, ConditionAssumption
<1>1. (d \div Sub) \in Nat /\ (at \div Sub) \in Nat /\ (d % Sub) \in Nat
  BY DivBounds, ModBounds
<1>2. d = Sub * (d \div Sub) + (d % Sub)
  BY DivMod
<1>3. ((d \div Sub) - (at \div Sub)) * Sub = Sub * (d \div Sub) - Sub * (at \div Sub)
  BY <1>1, SMT
<1>4. Sub * (d \div Sub) \in Nat /\ Sub * (at \div Sub) \in Nat
  BY <1>1, SMT
<1>5. ((d \div Sub) - (at \div Sub)) * Sub + (d % Sub) = d - Sub * (at \div Sub)
  BY <1>1, <1>2, <1>3, <1>4
<1>6. d - Sub * (at \div Sub) \in 0 .. DwordMod - 1 /\ DwordMod \in Nat \ {0}
  BY <1>4
<1> QED BY <1>5, <1>6, ModSmall DEF Left

\* A timer that runs did not start after now, but for the ticks the clock was set
\* back.
LEMMA StartIsPast ==
    ASSUME ClockInv, running
    PROVE  start_time <= Time + (skew + Sub - 1) \div Sub
<1> USE AlarmTimerAssumption DEF ClockInv
<1> DEFINE up == (skew + Sub - 1) \div Sub
<1>1. Time \in Nat /\ clock < Sub * Time + Sub
  BY DivBounds DEF Time
<1>2. skew + Sub - 1 \in Nat
  OBVIOUS
<1>3. up \in Nat /\ skew + Sub - 1 < Sub * up + Sub
  BY <1>2, DivBounds
<1> HIDE DEF up
<1>4. Sub * up \in Nat /\ Sub * Time \in Nat
  BY <1>1, <1>3, SMT
<1>5. Began \in Nat /\ Sub * start_time <= Began /\ Began <= clock + skew
  BY DivBounds DEF Began
<1>6. Sub * start_time \in Nat
  BY SMT
<1>7. Sub * start_time < Sub * Time + Sub * up + Sub
  BY <1>1, <1>3, <1>4, <1>5, <1>6
<1>8. Sub * (Time + up + 1) = Sub * Time + Sub * up + Sub
  BY <1>1, <1>3, SMT
<1>9. start_time <= Time + up
  <2> SUFFICES ASSUME start_time >= Time + up + 1 PROVE FALSE
    BY <1>1, <1>3
  <2>1. Sub * start_time >= Sub * (Time + up + 1)
    BY <1>1, <1>3, SMT
  <2> QED BY <1>4, <1>6, <1>7, <1>8, <2>1
<1> QED BY <1>9 DEF up

\* On Windows a timed wait sleeps for at least the time that is left until its
\* deadline and for less than a second more, for every deadline from the second
\* of the call on that timespec_to_ms can express in a DWORD.
THEOREM SleepsRight ==
    ASSUME \A d \in Deadlines : d < DwordMod
    PROVE  TimeSpec => []SleepsUntilDeadline
<1>1. ClockInv /\ BoundsInv /\ WaitInv => SleepsUntilDeadline
  <2> SUFFICES ASSUME ClockInv, BoundsInv, WaitInv PROVE SleepsUntilDeadline
    OBVIOUS
  <2> USE AlarmTimerAssumption, ConditionAssumption
  <2>1. TimeTypeOK
    BY StartIsPast DEF TimeTypeOK, TypeOK, ClockInv, BoundsInv, WaitInv
  <2>2. ASSUME platform = "win", wait = "timed", Ahead
        PROVE  lasts >= deadline - called /\ lasts < deadline - called + Sub
    <3>1. called \in Nat /\ deadline \in Nat /\ deadline < DwordMod
      BY <2>2 DEF WaitInv
    <3>2. lasts = deadline - Sub * (called \div Sub)
      BY <2>2, <3>1, SleepIsLeft DEF WaitInv, Ahead
    <3>3. Sub * (called \div Sub) <= called /\ called < Sub * (called \div Sub) + Sub
      BY <3>1, DivBounds
    <3>4. Sub * (called \div Sub) \in Nat
      BY <3>1, DivBounds, SMT
    <3> QED BY <3>1, <3>2, <3>3, <3>4
  <2> QED BY <2>1, <2>2 DEF SleepsUntilDeadline
<1> QED BY <1>1, WaitInvariant, PTL

-----------------------------------------------------------------------------
(* Sha: the blocks and the padding are right for every length of the       *)
(* message, every way to cut it into calls, and all sizes of block, length *)
(* and word that satisfy ShaAssumption.                                    *)

USE DEF Compressed

\* Quotient and remainder are determined by the product.
LEMMA Division ==
    \A w \in Nat \ {0}, q \in Nat, n \in Nat : \A r \in 0 .. w - 1 :
        n = q * w + r => n \div w = q /\ n % w = r
  OBVIOUS

LEMMA Remainder ==
    \A w \in Nat \ {0}, q \in Nat, n \in Nat : \A r \in 0 .. w - 1 :
        n = q * w + r => r = n % w
  BY Division

\* How many blocks the padding of q blocks and r bytes takes.
LEMMA BlocksNeeded ==
    \A b \in Nat \ {0}, q \in Nat : \A l \in 1 .. b - 1, r \in 0 .. b - 1 :
        ((q * b + r + l) \div b + 1) * b
            = IF r >= b - l THEN q * b + b + b ELSE q * b + b
<1> SUFFICES ASSUME NEW b \in Nat \ {0}, NEW q \in Nat, NEW l \in 1 .. b - 1, NEW r \in 0 .. b - 1
             PROVE  ((q * b + r + l) \div b + 1) * b
                        = IF r >= b - l THEN q * b + b + b ELSE q * b + b
  OBVIOUS
<1>1. (q + 1) * b = q * b + b /\ (q + 2) * b = q * b + b + b /\ q * b \in Nat
  OBVIOUS
<1>2. CASE r >= b - l
  <2>1. PICK p \in Nat, s \in 0 .. b - 1, n \in Nat :
            p = q + 1 /\ s = r + l - b /\ n = q * b + r + l
    BY <1>1, <1>2
  <2>2. n = p * b + s
    BY <2>1, <1>1
  <2>3. (q * b + r + l) \div b = q + 1
    BY <2>1, <2>2, Division
  <2> QED
    BY <1>1, <1>2, <2>3
<1>3. CASE ~(r >= b - l)
  <2>1. q * b + r + l = q * b + (r + l) /\ r + l \in 0 .. b - 1
    BY <1>1, <1>3
  <2>2. q * b + r + l \in Nat
    BY <1>1
  <2>3. (q * b + r + l) \div b = q
    BY <2>1, <2>2, Division, Zenon
  <2> QED
    BY <1>1, <1>3, <2>3
<1> QED
  BY <1>2, <1>3

-----------------------------------------------------------------------------
(* The inductive invariant *)

\* How many bytes of the message went through the loop.
Absorbed == given - call.left

\* Until the digest is computed or the length overflows, what was compressed and
\* what the block holds are the bytes absorbed, in their order, cut at a multiple
\* of the block, and the two words count their bits.
Streaming ==
    /\ \E q \in Nat : Len(hashed) = q * Block
    /\ Len(hashed) + msg_block_index = Absorbed
    /\ \A j \in 1 .. Len(hashed) : hashed[j] = Byte(j)
    /\ \A j \in 1 .. msg_block_index : msg_block[j] = Byte(Len(hashed) + j)
    /\ msg_block_index < Block
    /\ len_high * variant.word + len_low = 8 * Absorbed

Computed ==
    /\ call = NoCall
    /\ hashed = Padded(given)
    /\ msg_block_index = 0
    /\ ~is_corrupted

ShaInv ==
    /\ ShaTypeOK
    /\ ~impl => call = NoCall
    /\ call.left <= given
    /\ msg_block_index <= Block
    /\ ~is_computed /\ ~is_corrupted => Streaming
    /\ is_computed => Computed
    /\ answered => is_computed

-----------------------------------------------------------------------------
(* ShaSizes and tokens *)

LEMMA ShaSizes ==
    ASSUME ShaTypeOK
    PROVE  /\ Block \in Nat \ {0} /\ Low \in 1 .. Block - 1
           /\ variant.length \in Nat \ {0} /\ variant.length = Block - Low
  BY ShaAssumption DEF ShaTypeOK, Block, Low

LEMMA WordSize ==
    ASSUME ShaTypeOK
    PROVE  variant.word \in Nat \ {0} /\ variant.word % 8 = 0
  BY ShaAssumption DEF ShaTypeOK

LEMMA ShaTokens ==
    /\ \A i \in Nat : Byte(i) \in Token
    /\ Pad \in Token /\ Zero \in Token
  BY DEF Token, Byte, Pad, Zero

LEMMA LengthTokens ==
    ASSUME ShaTypeOK, NEW high \in Nat, NEW low \in Nat, NEW k \in 1 .. variant.length
    PROVE  LengthByte(high, low, k) \in Token
<1>1. PICK half \in Nat : half = variant.length \div 2
  BY ShaSizes
<1>2. CASE k <= half
  BY <1>1, <1>2 DEF LengthByte, Token
<1>3. CASE ~(k <= half)
  <2>1. k - half \in Nat
    BY <1>1, <1>3, ShaSizes
  <2> QED
    BY <1>1, <1>3, <2>1 DEF LengthByte, Token
<1> QED
  BY <1>2, <1>3

\* A function on the positions of a block is a sequence of its length.
LEMMA BlockIsSeq ==
    ASSUME NEW n \in Nat, NEW S, NEW b \in [1 .. n -> S]
    PROVE  /\ b \in Seq(S) /\ Len(b) = n
           /\ \A j \in 1 .. n : b[j] \in S
  OBVIOUS

-----------------------------------------------------------------------------
(* The padding *)

LEMMA PaddingIsBlocks ==
    ASSUME ShaTypeOK
    PROVE  /\ WithPad \in [1 .. Block -> Token]
           /\ WithLength(WithPad) \in [1 .. Block -> Token]
           /\ WithLength([j \in 1 .. Block |-> Zero]) \in [1 .. Block -> Token]
<1>1. \A j \in 1 .. Block : j > Low => LengthByte(len_high, len_low, j - Low) \in Token
  <2> SUFFICES ASSUME NEW j \in 1 .. Block, j > Low
               PROVE  LengthByte(len_high, len_low, j - Low) \in Token
    OBVIOUS
  <2>1. j - Low \in 1 .. variant.length
    BY ShaSizes
  <2>2. len_high \in Nat /\ len_low \in Nat
    BY ShaSizes DEF ShaTypeOK
  <2> QED
    BY <2>1, <2>2, LengthTokens
<1>2. WithPad \in [1 .. Block -> Token]
  BY ShaTokens DEF WithPad, ShaTypeOK
<1>3. \A b \in [1 .. Block -> Token] : WithLength(b) \in [1 .. Block -> Token]
  BY <1>1, ShaSizes DEF WithLength
<1>4. [j \in 1 .. Block |-> Zero] \in [1 .. Block -> Token]
  BY ShaTokens
<1> QED
  BY <1>2, <1>3, <1>4

\* The two words hold the length that the standard wants.
LEMMA LengthInWords ==
    ASSUME variant.word \in Nat \ {0}, len_high \in Nat, len_low \in 0 .. variant.word - 1,
           8 * given \in Nat, 8 * given = len_high * variant.word + len_low
    PROVE  /\ (8 * given) \div variant.word = len_high
           /\ (8 * given) % variant.word = len_low
<1>1. (8 * given) \div variant.word = len_high
  BY Division, Zenon
<1>2. len_low = (8 * given) % variant.word
  BY Remainder, Zenon
<1> QED
  BY <1>1, <1>2

LEMMA BlocksOfPadding ==
    ASSUME NEW q \in Nat, msg_block_index \in 0 .. Block - 1, variant.length \in 1 .. Block - 1,
           Block \in Nat \ {0}
    PROVE  ((q * Block + msg_block_index + variant.length) \div Block + 1) * Block
               = IF msg_block_index >= Block - variant.length
                 THEN q * Block + Block + Block ELSE q * Block + Block
  BY BlocksNeeded, Zenon

LEMMA PaddingIsRight ==
    ASSUME ShaTypeOK, Streaming, call.left = 0
    PROVE  hashed \o Padding = Padded(given)
<1> DEFINE n == given
           h == Len(hashed)
           end == PaddedLength(n)
           last == WithLength([j \in 1 .. Block |-> Zero])
<1>1. /\ n \in Nat /\ h \in Nat
      /\ n = h + msg_block_index
      /\ msg_block_index \in 0 .. Block - 1
  BY ShaSizes DEF Streaming, Absorbed, ShaTypeOK
<1>2. n + variant.length \in Nat /\ Block \in Nat /\ Low \in 1 .. Block - 1
  BY <1>1, ShaSizes
<1>3. /\ (8 * given) \div variant.word = len_high
      /\ (8 * given) % variant.word = len_low
  <2>1. /\ len_low \in 0 .. variant.word - 1 /\ len_high \in Nat /\ 8 * given \in Nat
        /\ variant.word \in Nat \ {0}
    BY <1>1, WordSize DEF ShaTypeOK
  <2>2. Absorbed = given
    BY <1>1 DEF Absorbed
  <2>3. 8 * given = len_high * variant.word + len_low
    BY <2>2 DEF Streaming
  <2> QED
    BY <2>1, <2>3, LengthInWords
<1>4. end = IF NeedsSecond THEN h + Block + Block ELSE h + Block
  <2>1. PICK q \in Nat : h = q * Block
    BY DEF Streaming
  <2>2. variant.length \in 1 .. Block - 1 /\ Block \in Nat \ {0}
    BY ShaSizes
  <2>3. ((q * Block + msg_block_index + variant.length) \div Block + 1) * Block
          = IF msg_block_index >= Block - variant.length
            THEN q * Block + Block + Block ELSE q * Block + Block
    BY <1>1, <2>2, BlocksOfPadding
  <2>4. end = ((q * Block + msg_block_index + variant.length) \div Block + 1) * Block
    BY <1>1, <2>1 DEF PaddedLength
  <2>5. Block - variant.length = Low
    BY DEF Low
  <2> QED
    BY <2>1, <2>3, <2>4, <2>5 DEF NeedsSecond
<1>5. end \in Nat /\ end >= h /\ end - variant.length = end - Block + Low
  BY <1>1, <1>2, <1>4, ShaSizes
<1> HIDE DEF h, end, last
<1>6. /\ Padding \in Seq(Token)
      /\ Len(Padding) = end - h
      /\ \A k \in 1 .. Len(Padding) :
            Padding[k] = IF k <= msg_block_index THEN msg_block[k]
                         ELSE IF k = msg_block_index + 1 THEN Pad
                         ELSE IF k <= Len(Padding) - Block + Low THEN Zero
                         ELSE LengthByte(len_high, len_low, k - (Len(Padding) - Block + Low))
  <2>1. CASE NeedsSecond
    <3>0. WithPad \in [1 .. Block -> Token] /\ last \in [1 .. Block -> Token]
      BY PaddingIsBlocks DEF last
    <3>1. /\ WithPad \in Seq(Token) /\ Len(WithPad) = Block
          /\ last \in Seq(Token) /\ Len(last) = Block
      BY <3>0, BlockIsSeq, <1>2
    <3>2. Padding = WithPad \o last
      BY <2>1 DEF Padding, last
    <3>3. /\ Padding \in Seq(Token) /\ Len(Padding) = Block + Block
          /\ \A k \in 1 .. Block + Block :
                Padding[k] = IF k <= Block THEN WithPad[k] ELSE last[k - Block]
      <4>1. /\ WithPad \o last \in Seq(Token)
            /\ Len(WithPad \o last) = Len(WithPad) + Len(last)
            /\ \A i \in 1 .. Len(WithPad) + Len(last) : (WithPad \o last)[i] =
                   IF i <= Len(WithPad) THEN WithPad[i] ELSE last[i - Len(WithPad)]
        BY <3>1, ConcatProperties, Zenon
      <4> HIDE DEF WithPad
      <4> QED
        BY <3>1, <3>2, <4>1
    <3>4. \A k \in 1 .. Block : WithPad[k] = IF k <= msg_block_index THEN msg_block[k]
                                             ELSE IF k = msg_block_index + 1 THEN Pad
                                             ELSE Zero
      BY DEF WithPad
    <3>5. \A k \in 1 .. Block : last[k] =
             IF k <= Low THEN Zero ELSE LengthByte(len_high, len_low, k - Low)
      BY DEF WithLength, last
    <3>6. Len(Padding) = end - h
      BY <1>1, <1>2, <1>4, <2>1, <3>3
    <3>7. ASSUME NEW k \in 1 .. Block + Block
          PROVE  Padding[k] = IF k <= msg_block_index THEN msg_block[k]
                              ELSE IF k = msg_block_index + 1 THEN Pad
                              ELSE IF k <= Block + Low THEN Zero
                              ELSE LengthByte(len_high, len_low, k - (Block + Low))
      <4>1. CASE k <= Block
        <5>1. k \in 1 .. Block /\ k <= Block + Low
          BY <4>1, <1>2
        <5>2. Padding[k] = WithPad[k]
          BY <3>3, <4>1
        <5> QED
          BY <5>1, <5>2, <3>4
      <4>2. CASE k > Block
        <5>1. k - Block \in 1 .. Block /\ (k - Block) - Low = k - (Block + Low)
          BY <4>2, <1>2
        <5>2. Padding[k] = last[k - Block]
          BY <3>3, <4>2, <1>2
        <5> QED
          BY <5>1, <5>2, <3>5, <4>2, <1>1, <1>2
      <4> QED
        BY <4>1, <4>2, <1>2
    <3>8. Len(Padding) - Block + Low = Block + Low
      BY <3>3, <1>2
    <3> QED
      BY <3>3, <3>6, <3>7, <3>8
  <2>2. CASE ~NeedsSecond
    <3>1. Padding = WithLength(WithPad)
      BY <2>2 DEF Padding
    <3>2. Padding \in Seq(Token) /\ Len(Padding) = Block
      BY <3>1, PaddingIsBlocks, BlockIsSeq, ShaSizes
    <3>3. \A k \in 1 .. Block :
             Padding[k] = IF k <= Low THEN WithPad[k] ELSE LengthByte(len_high, len_low, k - Low)
      BY <3>1 DEF WithLength
    <3>4. \A k \in 1 .. Block : WithPad[k] = IF k <= msg_block_index THEN msg_block[k]
                                             ELSE IF k = msg_block_index + 1 THEN Pad
                                             ELSE Zero
      BY DEF WithPad
    <3>5. msg_block_index + 1 <= Low
      BY <2>2, <1>1, <1>2 DEF NeedsSecond
    <3>6. Len(Padding) = end - h /\ Len(Padding) - Block + Low = Low
      BY <1>1, <1>2, <1>4, <2>2, <3>2
    <3> QED
      BY <3>2, <3>3, <3>4, <3>5, <3>6, <1>1, <1>2
  <2> QED
    BY <2>1, <2>2
<1>7. /\ hashed \in Seq(Token)
      /\ hashed \o Padding \in Seq(Token)
      /\ Len(hashed \o Padding) = end
      /\ \A j \in 1 .. end : (hashed \o Padding)[j] =
            IF j <= h THEN hashed[j] ELSE Padding[j - h]
  <2>1. hashed \in Seq(Token)
    BY DEF ShaTypeOK
  <2>2. Len(hashed) + Len(Padding) = end
    BY <1>1, <1>5, <1>6 DEF h
  <2> QED
    BY <2>1, <2>2, <1>6, ConcatProperties, Zenon DEF h
<1>8. \A j \in 1 .. end : (hashed \o Padding)[j] = Padded(n)[j]
  <2> SUFFICES ASSUME NEW j \in 1 .. end
               PROVE  (hashed \o Padding)[j] = Padded(n)[j]
    OBVIOUS
  <2>1. Padded(n)[j] = IF j <= n THEN Byte(j)
                       ELSE IF j = n + 1 THEN Pad
                       ELSE IF j <= end - variant.length THEN Zero
                       ELSE LengthByte(len_high, len_low, j - (end - variant.length))
    BY <1>3 DEF Padded, end
  <2>2. CASE j <= h
    <3>1. hashed[j] = Byte(j)
      BY <2>2, <1>1 DEF Streaming, h
    <3> QED
      BY <2>1, <2>2, <3>1, <1>1, <1>5, <1>7
  <2>3. CASE j > h
    <3>1. /\ j - h \in 1 .. Len(Padding)
          /\ (hashed \o Padding)[j] = Padding[j - h]
      BY <2>3, <1>1, <1>5, <1>6, <1>7
    <3>2. /\ j - h <= msg_block_index <=> j <= n
          /\ j - h = msg_block_index + 1 <=> j = n + 1
          /\ j - h <= Len(Padding) - Block + Low <=> j <= end - variant.length
          /\ (j - h) - (Len(Padding) - Block + Low) = j - (end - variant.length)
      BY <1>1, <1>2, <1>5, <1>6
    <3>3. j - h <= msg_block_index => msg_block[j - h] = Byte(j)
      <4>1. \A i \in 1 .. msg_block_index : msg_block[i] = Byte(h + i)
        BY DEF Streaming, h
      <4>2. j - h \in Nat /\ j - h >= 1 /\ h + (j - h) = j
        BY <2>3, <1>1
      <4> QED
        BY <4>1, <4>2, <1>1
    <3> QED
      BY <2>1, <3>1, <3>2, <3>3, <1>6
  <2>4. j <= h \/ j > h
    BY <1>1, <1>5
  <2> QED
    BY <2>2, <2>3, <2>4, Zenon
<1>9. Padded(n) \in [1 .. end -> Token]
  <2>1. DOMAIN Padded(n) = 1 .. end /\ Padded(n) = [j \in 1 .. end |-> Padded(n)[j]]
    BY DEF Padded, end
  <2>2. \A j \in 1 .. end : Padded(n)[j] \in Token
    BY <1>7, <1>8, ElementOfSeq
  <2> QED
    BY <2>1, <2>2
<1> QED
  BY <1>5, <1>7, <1>8, <1>9, BlockIsSeq, SeqEqual

-----------------------------------------------------------------------------
(* ShaInv is inductive *)

LEMMA ShaInitHolds == ShaInit => ShaInv
<1> SUFFICES ASSUME ShaInit PROVE ShaInv
  OBVIOUS
<1>1. Block \in Nat \ {0} /\ variant.word \in Nat \ {0}
  BY ShaAssumption DEF ShaInit, Block
<1>2. ShaTypeOK
  <2>1. 0 \in 0 .. variant.word - 1 /\ [j \in 1 .. Block |-> Zero] \in [1 .. Block -> Token]
    BY <1>1, ShaTokens
  <2>2. <<>> \in Seq(Token) /\ NoCall.left \in Nat
        /\ NoCall \in [fn : {"none", "process_hash", "sha_algorithms_process"},
                      left : Nat, digest_len : Nat]
    BY DEF NoCall
  <2> QED
    BY <2>1, <2>2 DEF ShaInit, ShaTypeOK
<1>3. Streaming
  <2>1. Len(hashed) = 0 * Block /\ len_high * variant.word + len_low = 0
    BY <1>1 DEF ShaInit
  <2> QED
    BY <1>1, <2>1 DEF ShaInit, Streaming, Absorbed, NoCall
<1> QED
  BY <1>1, <1>2, <1>3 DEF ShaInit, ShaInv, NoCall

\* A context that starts afresh has absorbed nothing.
LEMMA ShaStartHolds ==
    ASSUME ShaTypeOK, Zeroed, call' = NoCall, variant' = variant, impl' \in BOOLEAN, algorithm' \in BOOLEAN
    PROVE  ShaInv'
<1>1. Block \in Nat \ {0} /\ variant.word \in Nat \ {0} /\ Block' = Block
  BY ShaSizes, WordSize DEF Block
<1>2. ShaTypeOK'
  <2>1. 0 \in 0 .. variant.word - 1 /\ [j \in 1 .. Block |-> Zero] \in [1 .. Block -> Token]
    BY <1>1, ShaTokens
  <2>2. <<>> \in Seq(Token) /\ NoCall.left \in Nat
        /\ NoCall \in [fn : {"none", "process_hash", "sha_algorithms_process"},
                      left : Nat, digest_len : Nat]
    BY DEF NoCall
  <2> QED
    BY <1>1, <2>1, <2>2 DEF ShaTypeOK, Zeroed
<1>3. Streaming'
  <2>1. Len(hashed') = 0 * Block /\ len_high' * variant.word + len_low' = 0
    BY <1>1 DEF Zeroed
  <2> QED
    BY <1>1, <2>1 DEF Zeroed, Streaming, Absorbed, NoCall
<1> QED
  BY <1>1, <1>2, <1>3 DEF Zeroed, ShaInv, NoCall

LEMMA ShaBeginHolds ==
    ASSUME ShaInv, Idle, NEW fn \in {"process_hash", "sha_algorithms_process"},
           NEW n \in ArrayLengths, NEW d \in Nat, Begin(fn, n, d)
    PROVE  ShaInv'
<1>1. n \in Nat /\ call.left = 0
  BY ShaAssumption DEF Idle, NoCall
<1>2. ShaTypeOK'
  BY <1>1 DEF ShaInv, ShaTypeOK, Begin, context, Block
<1>3. Absorbed' = Absorbed
  BY <1>1 DEF Absorbed, Begin, ShaInv, ShaTypeOK
<1>4. ~is_corrupted /\ ~is_computed
  BY DEF Begin, Accepts
<1>5. Streaming'
  BY <1>3, <1>4 DEF ShaInv, Streaming, Begin, context, Block
<1> QED
  BY <1>1, <1>2, <1>4, <1>5 DEF ShaInv, Begin, context, Block, ShaTypeOK

\* A step that changes neither the context nor the call.
LEMMA ShaStutterHolds ==
    ASSUME ShaInv, UNCHANGED <<variant, context, given>>, UNCHANGED answered,
           impl' \in BOOLEAN, algorithm' \in BOOLEAN, call' = NoCall,
           call.left = 0 \/ is_corrupted
    PROVE  ShaInv'
<1>1. ShaTypeOK'
  BY DEF ShaInv, ShaTypeOK, context, Block, NoCall
<1>2. ~is_computed /\ ~is_corrupted => Streaming'
  <2> SUFFICES ASSUME ~is_computed, ~is_corrupted PROVE Streaming'
    OBVIOUS
  <2>1. Absorbed' = Absorbed
    BY DEF Absorbed, ShaInv, ShaTypeOK, NoCall
  <2> QED
    BY <2>1 DEF ShaInv, Streaming, context, Block
<1>3. is_computed => Computed'
  BY DEF ShaInv, Computed, context, Padded, PaddedLength, LengthByte, Block
<1> QED
  BY <1>1, <1>2, <1>3 DEF ShaInv, context, NoCall, Block, ShaTypeOK

LEMMA ShaFinishHolds ==
    ASSUME ShaInv, Finish, call.left = 0, ~is_corrupted, call' = NoCall,
           UNCHANGED <<variant, impl, algorithm, given>>
    PROVE  ShaInv'
<1>1. CASE is_computed
  <2>1. ShaInv /\ UNCHANGED context /\ answered' = TRUE
    BY <1>1 DEF Finish
  <2>2. ShaTypeOK'
    BY <2>1 DEF ShaInv, ShaTypeOK, context, Block, NoCall
  <2>3. Computed'
    BY <1>1, <2>1 DEF ShaInv, Computed, context, Padded, PaddedLength, LengthByte, Block
  <2> QED
    BY <1>1, <2>1, <2>2, <2>3 DEF ShaInv, context, NoCall, Block, ShaTypeOK
<1>2. CASE ~is_computed
  <2>1. hashed \o Padding = Padded(given)
    BY <1>2, PaddingIsRight DEF ShaInv
  <2>2. /\ hashed' = Padded(given) /\ is_computed' = TRUE /\ is_corrupted' = FALSE
        /\ msg_block' = [j \in 1 .. Block |-> Zero] /\ msg_block_index' = 0
        /\ len_low' = 0 /\ len_high' = 0 /\ answered' = TRUE
    BY <1>2, <2>1 DEF Finish, ShaInv, ShaTypeOK
  <2>3. hashed' \in Seq(Token)
    <3>1. Padding \in Seq(Token)
      <4>1. ShaTypeOK /\ Block \in Nat
        BY ShaSizes DEF ShaInv
      <4>2. /\ WithPad \in Seq(Token) /\ WithLength(WithPad) \in Seq(Token)
            /\ WithLength([j \in 1 .. Block |-> Zero]) \in Seq(Token)
        BY <4>1, PaddingIsBlocks, BlockIsSeq
      <4> HIDE DEF WithPad
      <4> QED
        BY <4>2 DEF Padding
    <3>2. hashed \in Seq(Token)
      BY DEF ShaInv, ShaTypeOK
    <3>3. hashed \o Padding \in Seq(Token)
      BY <3>1, <3>2, ConcatProperties, Zenon
    <3> QED
      BY <2>1, <2>2, <3>3
  <2>4. Padded(given)' = Padded(given)
    BY DEF Padded, PaddedLength, LengthByte, Block
  <2>5. Computed'
    BY <2>2, <2>4 DEF Computed
  <2>6. ShaTypeOK'
    <3>1. 0 \in 0 .. variant.word - 1
      BY WordSize DEF ShaInv
    <3> QED
      BY <2>2, <2>3, <3>1, ShaTokens DEF ShaInv, ShaTypeOK, Block, NoCall
  <2> QED
    BY <2>2, <2>5, <2>6, ShaSizes DEF ShaInv, NoCall, Block, ShaTypeOK
<1> QED
  BY <1>1, <1>2

\* One byte: the block gets it at the next position and the length 8 bits.
LEMMA ShaAbsorbHolds ==
    ASSUME ShaInv, Absorb
    PROVE  ShaInv'
<1> DEFINE index == msg_block_index + 1
           filled == [msg_block EXCEPT ![index] = Byte(given - call.left + 1)]
<1>1. /\ ShaTypeOK /\ call.left > 0 /\ ~is_corrupted /\ ~is_computed
      /\ Streaming /\ call.left <= given /\ impl
  BY DEF ShaInv, Absorb, Computed, NoCall
<1>0. /\ call' = [call EXCEPT !.left = @ - 1]
      /\ msg_block' = filled
      /\ len_low' = (len_low + 8) % variant.word
      /\ len_high' = IF Carries THEN (len_high + 1) % variant.word ELSE len_high
  BY DEF Absorb
<1>2. /\ Block \in Nat \ {0} /\ variant.word \in Nat \ {0} /\ variant.word % 8 = 0
      /\ index \in 1 .. Block
      /\ call.left \in Nat /\ given \in Nat /\ msg_block_index \in Nat
  <2>1. call.left \in Nat /\ given \in Nat /\ msg_block_index \in Nat
    BY <1>1 DEF ShaTypeOK
  <2>2. msg_block_index < Block
    BY <1>1 DEF Streaming
  <2>3. Block \in Nat \ {0} /\ variant.word \in Nat \ {0} /\ variant.word % 8 = 0
    BY <1>1, ShaSizes, WordSize
  <2> QED
    BY <2>1, <2>2, <2>3
<1>3. /\ Absorbed \in Nat /\ Absorbed' = Absorbed + 1 /\ call'.left = call.left - 1
      /\ call' \in [fn : {"none", "process_hash", "sha_algorithms_process"},
                    left : Nat, digest_len : Nat]
  <2>1. call \in [fn : {"none", "process_hash", "sha_algorithms_process"},
                  left : Nat, digest_len : Nat]
    BY <1>1 DEF ShaTypeOK
  <2>2. given' = given
    BY DEF Absorb
  <2> QED
    BY <1>0, <1>1, <1>2, <2>1, <2>2 DEF Absorbed
<1>4. /\ msg_block' = filled /\ filled \in [1 .. Block -> Token]
      /\ \A j \in 1 .. index : filled[j] = Byte(Len(hashed) + j)
  <2>1. given - call.left + 1 \in Nat /\ given - call.left + 1 = Len(hashed) + index
    <3>1. Len(hashed) + msg_block_index = given - call.left /\ Len(hashed) \in Nat
      BY <1>1 DEF Streaming, Absorbed, ShaTypeOK
    <3> QED
      BY <1>2, <3>1
  <2>2. Byte(given - call.left + 1) \in Token
    BY <2>1, ShaTokens
  <2>3. /\ msg_block \in [1 .. Block -> Token]
        /\ \A j \in 1 .. msg_block_index : msg_block[j] = Byte(Len(hashed) + j)
    BY <1>1 DEF Streaming, ShaTypeOK
  <2>4. filled \in [1 .. Block -> Token]
    BY <1>2, <2>2, <2>3
  <2>5. \A j \in 1 .. index : filled[j] = IF j = index THEN Byte(Len(hashed) + index)
                                        ELSE Byte(Len(hashed) + j)
    BY <1>2, <2>1, <2>3
  <2> HIDE DEF filled
  <2> QED
    BY <1>0, <2>4, <2>5
<1>5. /\ len_low' \in 0 .. variant.word - 1 /\ len_high' \in 0 .. variant.word - 1
      /\ ~Corrupts => len_high' * variant.word + len_low' = 8 * (Absorbed + 1)
  <2>1. len_low \in 0 .. variant.word - 1 /\ len_high \in 0 .. variant.word - 1
    BY <1>1 DEF ShaTypeOK
  <2>2. variant.word >= 8
    BY <1>2
  <2>3. len_high * variant.word + len_low = 8 * Absorbed
    BY <1>1 DEF Streaming
  <2>4. CASE Carries
    <3>1. len_low' = len_low + 8 - variant.word
      BY <1>0, <1>2, <2>1, <2>2, <2>4 DEF Carries
    <3>2. CASE Corrupts
      <4>1. len_high' = 0
        BY <1>0, <1>2, <2>1, <2>4, <3>2 DEF Corrupts
      <4> QED
        BY <1>2, <2>1, <2>2, <2>4, <3>1, <3>2, <4>1 DEF Carries
    <3>3. CASE ~Corrupts
      <4>1. len_high + 1 < variant.word
        BY <1>2, <2>1, <2>4, <3>3 DEF Corrupts
      <4>2. len_high' = len_high + 1
        BY <1>0, <1>2, <2>1, <2>4, <4>1
      <4>3. (len_high + 1) * variant.word = len_high * variant.word + variant.word
        BY <1>2, <2>1
      <4>4. len_high * variant.word \in Nat
        BY <1>2, <2>1
      <4> QED
        BY <1>2, <1>3, <2>1, <2>2, <2>3, <2>4, <3>1, <4>1, <4>2, <4>3, <4>4 DEF Carries
    <3> QED
      BY <3>2, <3>3
  <2>5. CASE ~Carries
    <3>1. len_low' = len_low + 8 /\ len_high' = len_high
      BY <1>0, <1>2, <2>1, <2>2, <2>5 DEF Carries
    <3>2. len_high * variant.word \in Nat
      BY <1>2, <2>1
    <3> QED
      BY <1>2, <1>3, <2>1, <2>2, <2>3, <2>5, <3>1, <3>2 DEF Carries
  <2> QED
    BY <2>4, <2>5
<1>6. /\ UNCHANGED <<variant, impl, algorithm, is_computed, given, answered>>
      /\ is_corrupted' = Corrupts /\ Corrupts \in BOOLEAN /\ Block' = Block
  BY DEF Absorb, Block, Corrupts, Carries
<1>7. CASE ~Corrupts /\ Full(index)
  <2>1. hashed' = hashed \o filled /\ msg_block_index' = 0 /\ index = Block
    BY <1>7 DEF Absorb, Full
  <2>2. hashed \in Seq(Token) /\ filled \in Seq(Token) /\ Len(filled) = Block
    BY <1>1, <1>2, <1>4, BlockIsSeq DEF ShaTypeOK
  <2> HIDE DEF filled
  <2>3. /\ hashed \o filled \in Seq(Token) /\ Len(hashed \o filled) = Len(hashed) + Len(filled)
        /\ \A j \in 1 .. Len(hashed) + Len(filled) : (hashed \o filled)[j] =
               IF j <= Len(hashed) THEN hashed[j] ELSE filled[j - Len(hashed)]
    BY <2>2, ConcatProperties, Zenon
  <2>4. Len(hashed) \in Nat /\ Len(hashed') = Len(hashed) + Block
    BY <1>2, <2>1, <2>2, <2>3
  <2>5. \E q \in Nat : Len(hashed') = q * Block
    <3>1. PICK q \in Nat : Len(hashed) = q * Block
      BY <1>1 DEF Streaming
    <3>2. q + 1 \in Nat /\ (q + 1) * Block = q * Block + Block
      BY <1>2
    <3> QED
      BY <2>4, <3>1, <3>2
  <2>6. \A j \in 1 .. Len(hashed') : hashed'[j] = Byte(j)
    <3> SUFFICES ASSUME NEW j \in 1 .. Len(hashed) + Block PROVE hashed'[j] = Byte(j)
      BY <2>4
    <3>1. CASE j <= Len(hashed)
      BY <1>1, <1>2, <2>1, <2>2, <2>3, <2>4, <3>1 DEF Streaming
    <3>2. CASE ~(j <= Len(hashed))
      <4>1. j - Len(hashed) \in 1 .. index /\ Len(hashed) + (j - Len(hashed)) = j
        BY <1>2, <2>1, <2>4, <3>2
      <4> QED
        BY <1>2, <1>4, <2>1, <2>2, <2>3, <2>4, <3>2, <4>1
    <3> QED
      BY <3>1, <3>2
  <2>7. Len(hashed) + msg_block_index = Absorbed
    BY <1>1 DEF Streaming
  <2>8. Streaming'
    <3>1. Len(hashed') + msg_block_index' = Absorbed'
      BY <1>2, <1>3, <2>1, <2>4, <2>7
    <3>2. msg_block_index' < Block' /\ 1 .. msg_block_index' = {}
      BY <1>2, <1>6, <2>1
    <3> QED
      BY <1>3, <1>5, <1>6, <1>7, <2>5, <2>6, <3>1, <3>2 DEF Streaming
  <2>9. ShaTypeOK'
    BY <1>1, <1>2, <1>3, <1>4, <1>5, <1>6, <2>1, <2>3 DEF ShaTypeOK
  <2> QED
    BY <1>1, <1>2, <1>3, <1>6, <2>1, <2>8, <2>9 DEF ShaInv
<1>8. CASE ~(~Corrupts /\ Full(index))
  <2>1. hashed' = hashed /\ msg_block_index' = index
    BY <1>8 DEF Absorb
  <2> HIDE DEF filled
  <2>2. Len(hashed) + msg_block_index = Absorbed /\ Len(hashed) \in Nat
    BY <1>1 DEF Streaming, ShaTypeOK
  <2>3. ~is_corrupted' => Streaming'
    <3> SUFFICES ASSUME ~Corrupts PROVE Streaming'
      BY <1>6
    <3>1. index < Block
      BY <1>2, <1>8 DEF Full
    <3>2. /\ \E q \in Nat : Len(hashed') = q * Block'
          /\ \A j \in 1 .. Len(hashed') : hashed'[j] = Byte(j)
      BY <1>1, <1>6, <2>1 DEF Streaming
    <3>3. Len(hashed') + msg_block_index' = Absorbed'
      BY <1>2, <1>3, <2>1, <2>2
    <3>4. \A j \in 1 .. msg_block_index' : msg_block'[j] = Byte(Len(hashed') + j)
      BY <1>4, <2>1
    <3> QED
      BY <1>3, <1>5, <1>6, <2>1, <3>1, <3>2, <3>3, <3>4 DEF Streaming
  <2>4. ShaTypeOK'
    BY <1>1, <1>2, <1>3, <1>4, <1>5, <1>6, <2>1 DEF ShaTypeOK
  <2> QED
    BY <1>1, <1>2, <1>3, <1>6, <2>1, <2>3, <2>4 DEF ShaInv
<1> QED
  BY <1>7, <1>8

LEMMA ShaNextHolds == ShaInv /\ [ShaNext]_shaVars => ShaInv'
<1> SUFFICES ASSUME ShaInv, [ShaNext]_shaVars PROVE ShaInv'
  OBVIOUS
<1>0. ShaTypeOK /\ (~impl => call = NoCall) /\ NoCall.left = 0 /\ NoCall.fn = "none"
  BY DEF ShaInv, NoCall
<1>1. CASE Initialize
  <2>1. call' = NoCall /\ impl' \in BOOLEAN /\ algorithm' \in BOOLEAN /\ variant' = variant /\ Zeroed
    BY <1>0, <1>1 DEF Initialize, ShaTypeOK
  <2> QED
    BY <1>0, <2>1, ShaStartHolds
<1>2. CASE AlgorithmsInit
  <2>1. call' = NoCall /\ impl' \in BOOLEAN /\ algorithm' \in BOOLEAN /\ variant' = variant /\ Zeroed
    BY <1>0, <1>2 DEF AlgorithmsInit, ShaTypeOK
  <2> QED
    BY <1>0, <2>1, ShaStartHolds
<1>3. CASE Deinit
  BY <1>0, <1>3, ShaStutterHolds DEF Deinit, Idle
<1>4. ASSUME NEW n \in ArrayLengths, Process(n) PROVE ShaInv'
  BY <1>4, ShaBeginHolds DEF Process
<1>5. ASSUME NEW n \in ArrayLengths, NEW d \in DigestSizes, AlgorithmsProcess(n, d) PROVE ShaInv'
  <2>1. d \in Nat /\ Idle /\ Begin("sha_algorithms_process", n, d)
    BY <1>5, ShaAssumption DEF AlgorithmsProcess
  <2> QED
    BY <2>1, ShaBeginHolds
<1>6. CASE Absorb
  BY <1>6, ShaAbsorbHolds
<1>7. CASE ProcessReturns
  BY <1>0, <1>7, ShaStutterHolds DEF ProcessReturns, ShaTypeOK
<1>8. ASSUME NEW d \in DigestSizes, Retrieve(d) PROVE ShaInv'
  <2>1. /\ Finish /\ call.left = 0 /\ ~is_corrupted /\ call' = NoCall
        /\ UNCHANGED <<variant, impl, algorithm, given>>
    BY <1>0, <1>8 DEF Retrieve, MayAnswer, Idle
  <2> QED
    BY <2>1, ShaFinishHolds
<1>9. CASE AlgorithmsReturns
  <2>1. CASE MayAnswer(call.digest_len)
    <3>1. /\ Finish /\ call.left = 0 /\ ~is_corrupted /\ call' = NoCall
          /\ UNCHANGED <<variant, impl, algorithm, given>>
      BY <1>9, <2>1 DEF AlgorithmsReturns, MayAnswer
    <3> QED
      BY <3>1, ShaFinishHolds
  <2>2. CASE ~MayAnswer(call.digest_len)
    BY <1>0, <1>9, <2>2, ShaStutterHolds DEF AlgorithmsReturns, ShaTypeOK
  <2> QED
    BY <2>1, <2>2
<1>10. CASE UNCHANGED shaVars
  <2>1. UNCHANGED <<Block, Low>>
    BY <1>10 DEF shaVars, Block, Low
  <2> QED
    BY <1>10, <2>1 DEF shaVars, context, ShaInv, ShaTypeOK, Streaming, Computed, Absorbed, Padded,
                       PaddedLength, LengthByte, NoCall, Block
<1> QED
  BY <1>1, <1>2, <1>3, <1>4, <1>5, <1>6, <1>7, <1>8, <1>9, <1>10 DEF ShaNext

LEMMA ShaInvImplies == ShaInv => DigestIsOfMessage /\ IndexInBlock
<1> SUFFICES ASSUME ShaInv PROVE DigestIsOfMessage /\ IndexInBlock
  OBVIOUS
<1>1. DigestIsOfMessage
  BY DEF ShaInv, Computed, DigestIsOfMessage
<1>2. IndexInBlock
  <2>1. is_computed => msg_block_index < Block
    BY ShaSizes DEF ShaInv, Computed
  <2> QED
    BY <2>1 DEF ShaInv, Streaming, IndexInBlock
<1> QED
  BY <1>1, <1>2

\* Every digest a context returns is the one of the bytes it accepted, padded as
\* the standard says, for messages of every length in calls of all lengths.
THEOREM DigestRight == ShaSpec => []DigestIsOfMessage
<1>1. ShaInit => ShaInv
  BY ShaInitHolds
<1>2. ShaInv /\ [ShaNext]_shaVars => ShaInv'
  BY ShaNextHolds
<1>3. ShaInv => DigestIsOfMessage
  BY ShaInvImplies
<1> QED
  BY <1>1, <1>2, <1>3, PTL DEF ShaSpec

\* No call writes outside msg_block, whatever the sizes of the hash.
THEOREM BlockNeverLeft == ShaSpec => []IndexInBlock
<1>1. ShaInit => ShaInv
  BY ShaInitHolds
<1>2. ShaInv /\ [ShaNext]_shaVars => ShaInv'
  BY ShaNextHolds
<1>3. ShaInv => IndexInBlock
  BY ShaInvImplies
<1> QED
  BY <1>1, <1>2, <1>3, PTL DEF ShaSpec

=============================================================================

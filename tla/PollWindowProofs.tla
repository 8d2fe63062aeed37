--------------------------- MODULE PollWindowProofs ---------------------------
(***************************************************************************)
(* The polling window and the timer, for any day length, window, interval  *)
(* and change of options, as long as the window's ends are of the form     *)
(* HH:MM (the run window_with_seconds shows what other texts do).          *)
(***************************************************************************)
EXTENDS PollWindow, Integers, TLAPS

----------------------------------------------------------------------------
(* The clock. *)

(* Less than two days on, the clock shows the minutes, or a day less.       *)
LEMMA Clock ==
  ASSUME NEW t \in Nat, t < 2 * DayMinutes
  PROVE  t % DayMinutes = IF t < DayMinutes THEN t ELSE t - DayMinutes
<1>1. DayMinutes \in Nat \ {0}
  BY WindowAssumption
<1> DEFINE q == t \div DayMinutes
           r == t % DayMinutes
<1>2. q \in Int /\ r \in 0..(DayMinutes - 1) /\ t = DayMinutes * q + r
  BY <1>1
<1> HIDE DEF q, r
<1>3. q = 0 \/ q = 1
  <2>1. CASE q <= -1
    <3>1. DayMinutes * q <= -DayMinutes
      BY <1>1, <1>2, <2>1
    <3>2. QED
      BY <1>1, <1>2, <3>1
  <2>2. CASE q >= 2
    <3>1. DayMinutes * q >= 2 * DayMinutes
      BY <1>1, <1>2, <2>2
    <3>2. QED
      BY <1>1, <1>2, <3>1
  <2>3. QED
    BY <1>2, <2>1, <2>2
<1>4. r = IF t < DayMinutes THEN t ELSE t - DayMinutes
  <2>1. CASE q = 0
    BY <1>1, <1>2, <2>1
  <2>2. CASE q = 1
    BY <1>1, <1>2, <2>2
  <2>3. QED
    BY <1>3, <2>1, <2>2
<1>5. QED
  BY <1>4 DEF r

(* The window's ends, as the code reads them, are those the user chose.     *)
LEMMA EndsAre ==
  ASSUME Texts \subseteq {"HH:MM"}, NEW opts \in Options
  PROVE  /\ ParseHhmm(opts.start) = opts.start[1] /\ ParseHhmm(opts.end) = opts.end[1]
         /\ opts.start[1] \in Nat /\ opts.start[1] < DayMinutes
         /\ opts.end[1] \in Nat /\ opts.end[1] < DayMinutes
<1>1. opts.start \in Times \X Texts /\ opts.end \in Times \X Texts
  BY DEF Options
<1>2. opts.start[2] = "HH:MM" /\ opts.end[2] = "HH:MM"
  BY <1>1
<1>3. opts.start[1] \in 0..(DayMinutes - 1) /\ opts.end[1] \in 0..(DayMinutes - 1)
  BY <1>1, WindowAssumption
<1>4. QED
  BY <1>2, <1>3, WindowAssumption DEF ParseHhmm

LEMMA IntervalIs ==
  ASSUME NEW opts \in Options
  PROVE  Interval(opts) \in Nat /\ Interval(opts) > 0
<1>1. opts.minutes \in Nat
  <2>1. opts.minutes \in Intervals
    BY DEF Options
  <2>2. QED
    BY <2>1, WindowAssumption
<1>2. QED
  BY <1>1, WindowAssumption DEF Interval

(* The code's two comparisons, with the ends the user chose.                *)
LEMMA WithinIs ==
  ASSUME Texts \subseteq {"HH:MM"}, NEW opts \in Options, NEW time \in Nat
  PROVE  LET start == opts.start[1]
             end   == opts.end[1]
         IN  Within(time, opts) <=> IF start <= end THEN start <= time /\ time <= end
                                    ELSE start <= time \/ time <= end
BY EndsAre DEF Within

(* The length of the window, and the minutes since its first.               *)
LEMMA LengthIs ==
  ASSUME Texts \subseteq {"HH:MM"}, options \in Options
  PROVE  LET start == options.start[1]
             end   == options.end[1]
         IN  Length = IF end < start THEN end + DayMinutes - start + 1 ELSE end - start + 1
<1> DEFINE start == options.start[1]
           end   == options.end[1]
           t == end + DayMinutes - start
<1>1. DayMinutes \in Nat /\ start \in Nat /\ start < DayMinutes /\ end \in Nat /\ end < DayMinutes
  BY EndsAre, WindowAssumption
<1>2. Length = (t % DayMinutes) + 1
  BY DEF Length
<1> HIDE DEF start, end
<1>3. t \in Nat /\ t < 2 * DayMinutes
  BY <1>1
<1>4. t % DayMinutes = IF t < DayMinutes THEN t ELSE t - DayMinutes
  <2> HIDE DEF t
  <2>1. QED
    BY <1>3, Clock
<1>5. t % DayMinutes = IF end < start THEN end + DayMinutes - start ELSE end - start
  BY <1>1, <1>4
<1>6. QED
  BY <1>1, <1>2, <1>5 DEF start, end

LEMMA SinceIs ==
  ASSUME Texts \subseteq {"HH:MM"}, options \in Options, now \in Nat, now < DayMinutes
  PROVE  LET start == options.start[1]
         IN  Since = IF now < start THEN now + DayMinutes - start ELSE now - start
<1> DEFINE start == options.start[1]
           t == now + DayMinutes - start
<1>1. DayMinutes \in Nat /\ start \in Nat /\ start < DayMinutes
  BY EndsAre, WindowAssumption
<1>2. Since = t % DayMinutes
  BY DEF Since
<1> HIDE DEF start
<1>3. t \in Nat /\ t < 2 * DayMinutes
  BY <1>1
<1>4. t % DayMinutes = IF t < DayMinutes THEN t ELSE t - DayMinutes
  <2> HIDE DEF t
  <2>1. QED
    BY <1>3, Clock
<1>5. t % DayMinutes = IF now < start THEN now + DayMinutes - start ELSE now - start
  BY <1>1, <1>4
<1>6. QED
  BY <1>2, <1>5 DEF start

(* The window is the stretch of the clock of its length from its start on.  *)
LEMMA WindowIsStretch ==
  ASSUME Texts \subseteq {"HH:MM"}, options \in Options, now \in Nat, now < DayMinutes
  PROVE  WindowAsConfigured
<1> DEFINE start == options.start[1]
           end   == options.end[1]
<1>1. DayMinutes \in Nat /\ start \in Nat /\ start < DayMinutes /\ end \in Nat /\ end < DayMinutes
  BY EndsAre, WindowAssumption
<1>2. Length = IF end < start THEN end + DayMinutes - start + 1 ELSE end - start + 1
  BY LengthIs
<1>3. Within(now, options) <=> IF start <= end THEN start <= now /\ now <= end
                               ELSE start <= now \/ now <= end
  BY WithinIs
<1>4. \A k \in 0..(Length - 1) :
         (start + k) % DayMinutes = IF start + k < DayMinutes THEN start + k
                                    ELSE start + k - DayMinutes
  <2> HIDE DEF start, end
  <2> SUFFICES ASSUME NEW k \in 0..(Length - 1)
               PROVE  (start + k) % DayMinutes = IF start + k < DayMinutes THEN start + k
                                                 ELSE start + k - DayMinutes
    OBVIOUS
  <2> DEFINE t == start + k
  <2>1. t \in Nat /\ t < 2 * DayMinutes
    BY <1>1, <1>2
  <2> HIDE DEF t
  <2>2. t % DayMinutes = IF t < DayMinutes THEN t ELSE t - DayMinutes
    BY <2>1, Clock
  <2>3. QED
    BY <1>1, <2>1, <2>2 DEF t
<1>5. WindowAsConfigured <=>
        (Within(now, options) <=> \E k \in 0..(Length - 1) : now = (start + k) % DayMinutes)
  BY DEF WindowAsConfigured
<1> HIDE DEF start, end
<1>6. ASSUME Within(now, options)
      PROVE  \E k \in 0..(Length - 1) : now = (start + k) % DayMinutes
  <2>1. CASE start <= now
    <3>1. now - start \in 0..(Length - 1) /\ start + (now - start) = now
      BY <1>1, <1>2, <1>3, <1>6, <2>1
    <3>2. QED
      BY <1>4, <3>1
  <2>2. CASE now < start
    <3> DEFINE k == now + DayMinutes - start
    <3>1. k \in 0..(Length - 1) /\ start + k = now + DayMinutes
      BY <1>1, <1>2, <1>3, <1>6, <2>2
    <3> HIDE DEF k
    <3>2. (start + k) % DayMinutes = now
      BY <1>1, <1>4, <3>1
    <3>3. QED
      BY <3>1, <3>2
  <2>3. QED
    BY <1>1, <2>1, <2>2
<1>7. ASSUME NEW k \in 0..(Length - 1), now = (start + k) % DayMinutes
      PROVE  Within(now, options)
  <2>1. now = IF start + k < DayMinutes THEN start + k ELSE start + k - DayMinutes
    BY <1>4, <1>7
  <2>2. QED
    BY <1>1, <1>2, <1>3, <2>1
<1>8. QED
  BY <1>5, <1>6, <1>7

----------------------------------------------------------------------------
(* The timer. *)

LEMMA WindowInitOK ==
  ASSUME WindowInit
  PROVE  WindowInv
<1>1. Interval(options) \in Nat
  BY IntervalIs DEF WindowInit
<1>2. QED
  BY <1>1 DEF WindowInit, WindowInv

(* A minute passes: a window that opens does so at its first minute, and    *)
(* one that goes on is a minute further, as is the timer.                   *)
LEMMA MinuteOK ==
  ASSUME Texts \subseteq {"HH:MM"}, WindowInv, Minute
  PROVE  WindowInv'
<1> DEFINE start == options.start[1]
           end   == options.end[1]
           interval == Interval(options)
<1>1. /\ DayMinutes \in Nat /\ start \in Nat /\ start < DayMinutes
      /\ end \in Nat /\ end < DayMinutes
  BY EndsAre, WindowAssumption DEF WindowInv
<1>2. /\ interval \in Nat /\ now \in Nat /\ now < DayMinutes /\ options \in Options
      /\ wait \in Nat /\ wait <= interval /\ wait > 0 /\ wait' = wait - 1
      /\ options' = options /\ Interval(options)' = interval
      /\ seen' = (seen /\ Within(now, options))
  BY IntervalIs, WindowAssumption DEF WindowInv, Minute, Interval
<1>3. now' = IF now + 1 < DayMinutes THEN now + 1 ELSE 0
  <2>1. now + 1 \in Nat /\ now + 1 < 2 * DayMinutes
    BY <1>1, <1>2
  <2> DEFINE t == now + 1
  <2> HIDE DEF t
  <2>2. t % DayMinutes = IF t < DayMinutes THEN t ELSE t - DayMinutes
    BY <2>1, Clock DEF t
  <2>3. now' = IF now + 1 < DayMinutes THEN now + 1 ELSE now + 1 - DayMinutes
    BY <1>1, <1>2, <2>2 DEF Minute, t
  <2>4. QED
    BY <1>1, <1>2, <2>3
<1>4. now' \in Nat /\ now' < DayMinutes
  BY <1>1, <1>2, <1>3
<1>5. Within(now, options) <=> IF start <= end THEN start <= now /\ now <= end
                               ELSE start <= now \/ now <= end
  BY <1>2, WithinIs
<1>6. Within(now, options)' <=> IF start <= end THEN start <= now' /\ now' <= end
                                ELSE start <= now' \/ now' <= end
  <2>1. Within(now', options) <=> IF start <= end THEN start <= now' /\ now' <= end
                                  ELSE start <= now' \/ now' <= end
    BY <1>2, <1>4, WithinIs
  <2>2. Within(now, options)' <=> Within(now', options)
    BY <1>2 DEF Within, ParseHhmm
  <2>3. QED
    BY <2>1, <2>2
<1>7. Since = IF now < start THEN now + DayMinutes - start ELSE now - start
  BY <1>2, SinceIs
<1>8. Since' = IF now' < start THEN now' + DayMinutes - start ELSE now' - start
  <2> DEFINE t == now' + DayMinutes - start
  <2>1. t \in Nat /\ t < 2 * DayMinutes
    BY <1>1, <1>4
  <2>2. Since' = t % DayMinutes
    BY <1>2 DEF Since
  <2>3. t % DayMinutes = IF t < DayMinutes THEN t ELSE t - DayMinutes
    <3> HIDE DEF t
    <3>1. QED
      BY <2>1, Clock
  <2> HIDE DEF start
  <2>4. QED
    BY <1>1, <1>4, <2>2, <2>3
<1> HIDE DEF start, end, interval
<1>9. ASSUME Within(now, options)', ~seen' PROVE wait' + Since' + 1 <= interval
  <2>1. CASE Within(now, options)
    <3>1. ~seen /\ wait + Since + 1 <= interval
      BY <1>2, <1>9, <2>1 DEF WindowInv, interval
    <3>2. Since' <= Since + 1
      BY <1>1, <1>2, <1>3, <1>7, <1>8
    <3>3. Since \in Nat
      <4>1. now \in Nat /\ now < DayMinutes
        BY <1>2
      <4>2. QED
        BY <1>1, <1>7, <4>1
    <3>4. Since' \in Int
      <4>1. CASE now' < start
        BY <1>1, <1>4, <1>8, <4>1
      <4>2. CASE ~(now' < start)
        BY <1>1, <1>4, <1>8, <4>2
      <4>3. QED
        BY <4>1, <4>2
    <3>5. wait \in Int /\ wait' = wait - 1 /\ interval \in Int
      BY <1>2
    <3> DEFINE s == Since
               n == Since'
               w == wait
               v == wait'
    <3>6. /\ s \in Int /\ n \in Int /\ w \in Int /\ v = w - 1
          /\ n <= s + 1 /\ w + s + 1 <= interval
      BY <3>1, <3>2, <3>3, <3>4, <3>5
    <3> HIDE DEF s, n, w, v
    <3>7. v + n + 1 <= interval
      BY <3>5, <3>6
    <3>8. QED
      BY <3>7 DEF v, n
  <2>2. CASE ~Within(now, options)
    <3>1. now' = start
      BY <1>1, <1>2, <1>3, <1>5, <1>6, <1>9, <2>2
    <3>2. Since' = 0
      BY <1>1, <1>8, <3>1
    <3>3. QED
      BY <1>2, <3>2
  <2>3. QED
    BY <2>1, <2>2
<1>10. /\ now' \in 0..(DayMinutes - 1) /\ options' \in Options
       /\ wait' \in 0..Interval(options)' /\ seen' \in BOOLEAN
  BY <1>1, <1>2, <1>4 DEF WindowInv
<1>11. QED
  BY <1>2, <1>9, <1>10 DEF WindowInv

(* After a refresh no open window is unmet, whatever the options are now.   *)
LEMMA RefreshOK ==
  ASSUME WindowInv, now' = now, options' \in Options, Refresh(options')
  PROVE  WindowInv'
<1>1. Interval(options') \in Nat
  BY IntervalIs
<1>2. wait' = Interval(options)' /\ Interval(options)' \in Nat
  BY <1>1 DEF Refresh, Interval
<1>3. Within(now, options)' => seen'
  BY DEF Refresh, Within, ParseHhmm
<1>4. seen' \in BOOLEAN
  BY DEF Refresh, WindowInv
<1>5. QED
  BY <1>2, <1>3, <1>4 DEF WindowInv

LEMMA WindowStepOK ==
  ASSUME Texts \subseteq {"HH:MM"}, WindowInv, [WindowNext]_windowVars
  PROVE  WindowInv'
<1>1. CASE Minute
  BY <1>1, MinuteOK
<1>2. CASE TimerRefreshes
  <2>1. now' = now /\ options' = options /\ options \in Options /\ Refresh(options)
    BY <1>2 DEF TimerRefreshes, WindowInv
  <2>2. QED
    BY <2>1, RefreshOK
<1>3. CASE ChangeOptions
  BY <1>3, RefreshOK DEF ChangeOptions
<1>4. CASE UNCHANGED windowVars
  BY <1>4 DEF windowVars, WindowInv, Within, ParseHhmm, Since, Interval, Options
<1>5. QED
  BY <1>1, <1>2, <1>3, <1>4 DEF WindowNext

(* No window closes unpolled while the interval is no longer than it.       *)
LEMMA ClosesPolled ==
  ASSUME Texts \subseteq {"HH:MM"}, WindowInv, [WindowNext]_windowVars,
         Within(now, options), now' # now, ~Within(now', options),
         Interval(options) <= Length
  PROVE  seen
<1> DEFINE start == options.start[1]
           end   == options.end[1]
           interval == Interval(options)
<1>1. Minute /\ options' = options
  BY DEF WindowNext, windowVars, TimerRefreshes, ChangeOptions, Minute
<1>2. /\ DayMinutes \in Nat /\ start \in Nat /\ start < DayMinutes
      /\ end \in Nat /\ end < DayMinutes
  BY EndsAre, WindowAssumption DEF WindowInv
<1>3. /\ interval \in Nat /\ now \in Nat /\ now < DayMinutes /\ options \in Options
      /\ wait \in Nat /\ wait > 0
  BY <1>1, IntervalIs, WindowAssumption DEF WindowInv, Minute
<1>4. now' = IF now + 1 < DayMinutes THEN now + 1 ELSE 0
  <2> DEFINE t == now + 1
  <2>1. t \in Nat /\ t < 2 * DayMinutes
    BY <1>2, <1>3
  <2> HIDE DEF t
  <2>2. t % DayMinutes = IF t < DayMinutes THEN t ELSE t - DayMinutes
    BY <2>1, Clock
  <2>3. now' = IF now + 1 < DayMinutes THEN now + 1 ELSE now + 1 - DayMinutes
    BY <1>1, <1>2, <1>3, <2>2 DEF Minute, t
  <2>4. QED
    BY <1>2, <1>3, <2>3
<1>5. now' \in Nat
  BY <1>2, <1>3, <1>4
<1>6. Within(now, options) <=> IF start <= end THEN start <= now /\ now <= end
                               ELSE start <= now \/ now <= end
  BY <1>3, WithinIs
<1>7. Within(now', options) <=> IF start <= end THEN start <= now' /\ now' <= end
                                ELSE start <= now' \/ now' <= end
  BY <1>3, <1>5, WithinIs
<1>8. Since = IF now < start THEN now + DayMinutes - start ELSE now - start
  BY <1>3, SinceIs
<1>9. Length = IF end < start THEN end + DayMinutes - start + 1 ELSE end - start + 1
  BY <1>3, LengthIs
<1>10. ~seen => wait + Since + 1 <= interval
  BY DEF WindowInv
<1> HIDE DEF start, end, interval
<1>11. now = end
  BY <1>1, <1>2, <1>3, <1>4, <1>6, <1>7
<1>12. Since = Length - 1
  BY <1>2, <1>3, <1>8, <1>9, <1>11
<1>13. interval <= Length /\ Length \in Nat
  BY <1>2, <1>9 DEF interval
<1>14. QED
  BY <1>3, <1>10, <1>12, <1>13

----------------------------------------------------------------------------
(* In a window that no refresh has met the timer has run since the window's *)
(* first minute or longer (_update_interval, _async_update_listener).       *)
THEOREM WindowInductive ==
  ASSUME Texts \subseteq {"HH:MM"}
  PROVE  WindowSpec => []WindowInv
<1>1. WindowInit => WindowInv
  BY WindowInitOK
<1>2. WindowInv /\ [WindowNext]_windowVars => WindowInv'
  BY WindowStepOK
<1>3. QED
  BY <1>1, <1>2, PTL DEF WindowSpec

(* The code's window is the one the user set, across midnight too.          *)
THEOREM WindowCorrect ==
  ASSUME Texts \subseteq {"HH:MM"}
  PROVE  WindowSpec => []WindowAsConfigured
<1>1. WindowInv => WindowAsConfigured
  BY WindowIsStretch, WindowAssumption DEF WindowInv
<1>2. QED
  BY <1>1, WindowInductive, PTL

(* No window closes without a refresh in it, however the options change.    *)
THEOREM WindowsPolled ==
  ASSUME Texts \subseteq {"HH:MM"}
  PROVE  WindowSpec => EveryWindowPolled
<1>1. WindowInv /\ [WindowNext]_windowVars
        => [Within(now, options) /\ now' # now /\ ~Within(now', options)
              /\ Interval(options) <= Length => seen]_windowVars
  BY ClosesPolled
<1>2. QED
  BY <1>1, WindowInductive, PTL DEF WindowSpec, EveryWindowPolled
=============================================================================

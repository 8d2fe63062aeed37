------------------------------ MODULE PollWindow ------------------------------
(***************************************************************************)
(* When the timer's refreshes poll: the polling window and interval, from  *)
(* the option's text to the clock (coordinator.py).  The rest of a poll is *)
(* the business of Coordinator, which takes WindowOpens for granted; this  *)
(* module says when the timer meets the open window.                       *)
(***************************************************************************)
EXTENDS Naturals

CONSTANTS DayMinutes,                \* minutes of a day
          MinInterval, MaxInterval,  \* _update_interval's limits
          Times, Texts, Intervals    \* bound: what a user may set the options to

ASSUME WindowAssumption ==
  /\ DayMinutes \in Nat \ {0}
  /\ MinInterval \in Nat \ {0} /\ MaxInterval \in Nat /\ MinInterval <= MaxInterval
  /\ Times \subseteq 0..(DayMinutes - 1)
  /\ Texts \subseteq {"HH:MM", "HH:MM:SS"}
  /\ Intervals \subseteq Nat

VARIABLES now,     \* the polling zone's time of day
          wait,    \* minutes until the timer refreshes
          options, \* the window's ends, as text, and the interval
          seen     \* history: a refresh has met the window since it opened

windowVars == <<now, wait, options, seen>>

Options == [start : Times \X Texts, end : Times \X Texts, minutes : Intervals]

\* _parse_hhmm: hours and minutes, and midnight for any other text.
ParseHhmm(text) == IF text[2] = "HH:MM" THEN text[1] ELSE 0

\* Mutant: the minute at which the window ends is outside it.
WithinHalfOpen(time, opts) ==
  LET start == ParseHhmm(opts.start)
      end   == ParseHhmm(opts.end)
  IN  IF start <= end THEN start <= time /\ time < end ELSE start <= time \/ time < end

\* _within_window: both ends belong to it, and it may go on past midnight.
Within(time, opts) ==
  LET start == ParseHhmm(opts.start)
      end   == ParseHhmm(opts.end)
  IN  IF start <= end THEN start <= time /\ time <= end ELSE start <= time \/ time <= end

\* _update_interval.
Interval(opts) ==
  IF opts.minutes < MinInterval THEN MinInterval
  ELSE IF opts.minutes > MaxInterval THEN MaxInterval ELSE opts.minutes

\* A refresh polls only inside the window; the timer starts anew after it.
Refresh(opts) ==
  /\ wait' = Interval(opts)
  /\ seen' = (seen \/ Within(now, opts))

\* Setup's first refresh polls at any time.
WindowInit ==
  /\ now \in 0..(DayMinutes - 1)
  /\ options \in Options
  /\ wait = Interval(options)
  /\ seen = TRUE

Minute ==
  /\ wait > 0
  /\ wait' = wait - 1
  /\ now' = (now + 1) % DayMinutes
  /\ seen' = (seen /\ Within(now, options))
  /\ UNCHANGED options

TimerRefreshes ==
  /\ wait = 0
  /\ Refresh(options)
  /\ UNCHANGED <<now, options>>

\* Mutant: new options start the timer anew without a refresh.
ChangeOptionsOnly ==
  /\ options' \in Options
  /\ wait' = Interval(options')
  /\ seen' = (seen /\ Within(now, options'))
  /\ UNCHANGED now

\* update_from_options, and the listener's request for a refresh.
ChangeOptions ==
  /\ options' \in Options
  /\ Refresh(options')
  /\ UNCHANGED now

WindowNext == Minute \/ TimerRefreshes \/ ChangeOptions

WindowSpec == WindowInit /\ [][WindowNext]_windowVars
-----------------------------------------------------------------------------
(* Minutes from the window's first to its last, as the user set them.       *)
Length == ((options.end[1] + DayMinutes - options.start[1]) % DayMinutes) + 1

(* The window is the stretch of the clock from the start the user chose to  *)
(* the end, whether midnight lies in it or not: "polls IMAP only within a   *)
(* configurable time window" (_within_window, _parse_hhmm).                 *)
WindowAsConfigured ==
  Within(now, options) <=>
    \E k \in 0..(Length - 1) : now = (options.start[1] + k) % DayMinutes

(* No window closes without a refresh in it, however the options are        *)
(* changed, unless the interval is longer than the window: an interval of a *)
(* day may pass every window by (_update_interval, _async_update_listener). *)
EveryWindowPolled ==
  [][Within(now, options) /\ now' # now /\ ~Within(now', options)
       /\ Interval(options) <= Length
     => seen]_windowVars

(* Minutes from the window's first to now. *)
Since == (now + DayMinutes - options.start[1]) % DayMinutes

(* Inductive, for times of the form HH:MM: in a window that no refresh has  *)
(* met the timer started before the window, or at its first minute, and has *)
(* run ever since.                                                          *)
WindowInv ==
  /\ now \in 0..(DayMinutes - 1)
  /\ options \in Options
  /\ wait \in 0..Interval(options)
  /\ seen \in BOOLEAN
  /\ Within(now, options) /\ ~seen => wait + Since + 1 <= Interval(options)
=============================================================================

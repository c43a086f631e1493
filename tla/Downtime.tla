-------------------------------- MODULE Downtime --------------------------------
(***************************************************************************)
(* internal/health: a declared downtime window, which a silent source is   *)
(* looked at through, at any time of the week.                             *)
(***************************************************************************)
EXTENDS Integers

CONSTANTS
    Slots,      \* times of a day
    Windows     \* downtime windows to look at

Week == 7
Times == 0..(Week * Slots - 1)

\* parseDowntimeWindow: a window has two different ends.  No days are all days.
Window == {w \in [days: SUBSET (0..(Week - 1)), start: 0..(Slots - 1), end: 0..(Slots - 1)] :
              w.start # w.end}

ASSUME DowntimeAssumption == Slots \in Nat \ {0} /\ Windows \subseteq Window

VARIABLES
    now,
    window,
    open,       \* observation: now lies in an occurrence of the window
    status      \* of a silent source in the report of now

Clock(t) == t % Slots
Weekday(t) == t \div Slots

Overnight(w) == w.start > w.end

Within(w, t) ==
    IF Overnight(w) THEN w.start <= Clock(t) \/ Clock(t) < w.end
                    ELSE w.start <= Clock(t) /\ Clock(t) < w.end

OnDay(w, day) == w.days = {} \/ day \in w.days

\* Mutant: the day is the one of the calendar.
MatchesToday(w, t) == OnDay(w, Weekday(t)) /\ Within(w, t)

\* After midnight the day is the one the window began on.
Matches(w, t) ==
    LET tail == Overnight(w) /\ Clock(t) < w.end
    IN  OnDay(w, IF tail THEN (Weekday(t) + Week - 1) % Week ELSE Weekday(t)) /\ Within(w, t)

\* A window opens on its days, and closes when its end comes next.
Pass ==
    /\ now' = (now + 1) % (Week * Slots)
    /\ open' = IF Clock(now') = window.start THEN OnDay(window, Weekday(now'))
               ELSE open /\ Clock(now') # window.end
    /\ status' = "none"
    /\ UNCHANGED window

\* Evaluate, of a source that is silent or empty.
Evaluate ==
    /\ status' = IF Matches(window, now) THEN "maintenance" ELSE "stale"
    /\ UNCHANGED <<now, window, open>>

DowntimeInit ==
    /\ window \in Windows
    /\ now \in {t \in Times : Clock(t) = window.end}
    /\ open = FALSE
    /\ status = "none"

DowntimeNext == Pass \/ Evaluate

-----------------------------------------------------------------------------

(* A silent source is in maintenance from when a declared window opens until   *)
(* it closes, and at no other time, be it over midnight or over the end of the *)
(* week (health.go 131-162).                                                   *)
MaintenanceIsDeclared ==
    /\ status = "maintenance" => open
    /\ status = "stale" => ~open
=============================================================================

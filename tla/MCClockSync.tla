---------------------------- MODULE MCClockSync ----------------------------
(* Instances of ClockSync for TLC: a day of three seconds, a tick of 100 ms. *)
EXTENDS ClockSync

\* any time of the second day
MCStarts == TicksPerDay .. 2 * TicksPerDay - 1

\* right, some ticks off either way, and days off
MCSkews == {0, 3, -7, 14, 2 * TicksPerDay + 5, -TicksPerDay}

TimeCommand    == <<"date", "time">>
TimeOnly       == <<"time">>
DateOnly       == <<"date">>
DateCommand    == <<"early_date">>
LampMode       == <<"other", "other">>

MCPlans        == {TimeCommand, TimeOnly, DateOnly, DateCommand, LampMode}
MCTimeCommand  == {TimeCommand}
=============================================================================

-------------------------- MODULE MCCalendarMirror --------------------------
(* CalendarMirror needs no sets of its own: its bounds are numbers.         *)
EXTENDS CalendarMirror
=============================================================================

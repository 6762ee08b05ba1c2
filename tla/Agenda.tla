------------------------------- MODULE Agenda -------------------------------
(***************************************************************************)
(* The days of the daily digest (tools/calendar/digest/digest.go) and the  *)
(* times the calendar tools accept (tools/calendar/tool.go).  Times are    *)
(* numbers on the clock of the user.  The theorems are in                  *)
(* DailyDigestProofs.                                                      *)
(***************************************************************************)
EXTENDS Integers

-----------------------------------------------------------------------------
(* The agenda.  midnight[i] is the beginning of day i of the window, and   *)
(* midnight[3] its end; a day need not have 24 hours.                      *)

Days == 0 .. 2

Window(midnight) ==
    /\ midnight \in [0 .. 3 -> Int]
    /\ \A i \in Days : midnight[i] < midnight[i + 1]

Event == [start : Int, end : Int, allDay : BOOLEAN]

Overlaps(aStart, aEnd, bStart, bEnd) == aStart < bEnd /\ aEnd > bStart

(* Group: the events of each day, in the order of sortBucket. *)
Bucket(events, midnight, i) ==
    {e \in events : Overlaps(e.start, e.end, midnight[i], midnight[i + 1])}

Precedes(e, f) ==
    \/ e.allDay /\ ~f.allDay
    \/ e.allDay = f.allDay /\ e.start < f.start

-----------------------------------------------------------------------------
(* The calendar tools.  An end that is not given is one hour after the     *)
(* start, or one day if the event takes all day.                           *)

Hour == 60
Day  == 24 * Hour

EndOf(start, given, end, allDay) ==
    IF given THEN end ELSE IF allDay THEN start + Day ELSE start + Hour

(* CreateEventTool refuses an event that ends before it starts. *)
Created(start, given, end, allDay) ==
    LET e == [start |-> start, end |-> EndOf(start, given, end, allDay),
              allDay |-> allDay]
    IN IF e.end < e.start THEN {} ELSE {e}

(* UpdateEventTool compares the times only if both are in the patch; the   *)
(* patch is a function from the names of the fields it has.                *)
Accepts(patch) ==
    /\ DOMAIN patch # {}
    /\ {"start", "end"} \subseteq DOMAIN patch => patch["start"] <= patch["end"]

Patched(e, patch) ==
    [e EXCEPT !.start = IF "start" \in DOMAIN patch THEN patch["start"] ELSE @,
              !.end   = IF "end" \in DOMAIN patch THEN patch["end"] ELSE @]
=============================================================================

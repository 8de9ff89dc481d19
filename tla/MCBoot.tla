------------------------------- MODULE MCBoot -------------------------------
(* Two servers, one of an older build, in zones with a day that has no     *)
(* midnight and a day that has two, and a zone that may be asked for whose *)
(* clock is set back after midnight.                                       *)
EXTENDS Boot

CONSTANTS new, old, host1, host2, team, url, mdns_, lan, t1, t2, t3

MCBuild == [s \in Server |-> IF s = new THEN 2 ELSE 1]
MCZone == [s \in Server |-> IF s = new THEN "fold" ELSE "gap"]
MCHost == [s \in Server |-> IF s = new THEN host1 ELSE host2]

(* Six units to a day.  The clock of "gap" goes from the end of day 1 one  *)
(* unit into day 2; that of "fold" goes back there from one unit into day  *)
(* 2; that of "late" goes back from the second unit of day 2 to the first. *)
MCOffset(z, t) ==
    IF z = "gap" THEN IF t < 10 THEN 2 ELSE 3
    ELSE IF t < (IF z = "fold" THEN 10 ELSE 11) THEN 3 ELSE 2

Plain == [port |-> 1, laptop |-> TRUE, url |-> NULL, name |-> NULL, zone |-> NULL, rotate |-> FALSE]
MCOption == {Plain, [Plain EXCEPT !.port = 2, !.zone = "gap", !.name = team],
             [Plain EXCEPT !.laptop = FALSE, !.zone = "late"],
             [Plain EXCEPT !.laptop = FALSE, !.url = url, !.rotate = TRUE, !.port = 2]}
MCUrl(port, up) == IF up THEN mdns_ ELSE IF port = 1 THEN lan ELSE NULL
=============================================================================

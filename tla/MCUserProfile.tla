---------------------------- MODULE MCUserProfile ---------------------------
(* Two concurrent requests, a gallery of two, an adult age of one year, and *)
(* somebody born on a leap day, who turns one on day 3 of year 1.           *)
EXTENDS UserProfile
MCDates == {[year |-> 0, day |-> 2]}
=============================================================================

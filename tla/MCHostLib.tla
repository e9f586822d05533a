----------------------------- MODULE MCHostLib -----------------------------
(* HostLib on small instances.                                             *)
EXTENDS HostLib

\* Cookies of the runs.  Zero is one of them: it is also what the entries of
\* a table hold before their first use.
FourCookies == 0 .. 3
FiveCookies == 0 .. 4

\* The application may use every function, or those that do not block.
AllCalls  == {"Poll", "Longpoll", "Test", "Wait"}
SpinCalls == {"Poll", "Test", "Wait"}

=============================================================================

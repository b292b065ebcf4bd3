----------------------------- MODULE SelectTimer -----------------------------
(***************************************************************************)
(* The timeout of the server's select (launch_server, src/proxyserver.cpp), *)
(* second by second.  It is set once, before the loop, and the kernel        *)
(* writes back what is left of it: `timeout` is a budget for all the calls.  *)
(* Everything else a pass does is in ServerLoop.tla.                         *)
(***************************************************************************)
EXTENDS Naturals

\* The seconds tv_sec is set to.
ThreeMinutes == 3 * 60

VARIABLES
    pc,         \* "call" before select, "wait" in it, "returned", "ended" after the loop
    timeout,    \* tv_sec
    waited,     \* history: seconds this call has been waiting
    result      \* rc of the last call: "none" yet, "ready", "zero", "error"

vars == <<pc, timeout, waited, result>>

Init ==
    /\ pc = "call"
    /\ timeout = ThreeMinutes
    /\ waited = 0
    /\ result = "none"

Call ==
    /\ pc = "call"
    /\ pc' = "wait"
    /\ waited' = 0
    /\ UNCHANGED <<timeout, result>>

\* A second passes and no descriptor is ready.
Second ==
    /\ pc = "wait"
    /\ timeout > 0
    /\ timeout' = timeout - 1
    /\ waited' = waited + 1
    /\ UNCHANGED <<pc, result>>

Return(rc) == pc = "wait" /\ pc' = "returned" /\ result' = rc

\* select returns: with ready descriptors, with none after the time left, or -1.
Ready == Return("ready") /\ UNCHANGED <<timeout, waited>>
TimesOut == Return("zero") /\ timeout = 0 /\ UNCHANGED <<timeout, waited>>
Fails == Return("error") /\ UNCHANGED <<timeout, waited>>

\* The pass over the ready descriptors and the cleaning, or `continue` without them.
Again ==
    /\ pc = "returned"
    /\ result # "error"
    /\ pc' = "call"
    /\ UNCHANGED <<timeout, waited, result>>

\* `break`, and the sockets are closed.
Leave ==
    /\ pc = "returned"
    /\ result = "error"
    /\ pc' = "ended"
    /\ UNCHANGED <<timeout, waited, result>>

Ended == pc = "ended" /\ UNCHANGED vars

Next == Call \/ Second \/ Ready \/ TimesOut \/ Fails \/ Again \/ Leave \/ Ended

Spec == Init /\ [][Next]_vars

-----------------------------------------------------------------------------
\* "Call select() and wait 3 minutes for it to complete." (src/proxyserver.cpp:555):
\* a call that finds nothing has waited for three minutes.
WaitsThreeMinutes == pc = "returned" /\ result = "zero" => waited = ThreeMinutes
=============================================================================

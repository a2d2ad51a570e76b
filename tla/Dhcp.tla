-------------------------------- MODULE Dhcp --------------------------------
(***************************************************************************)
(* The network main loop (lwip/ebd.c: ebd_wait, run_lwip) with the DHCP    *)
(* client it drives (lwip/dhcp.c): negotiation, lease timers, retries, and *)
(* the fixed address the loop falls back to after its first minute.        *)
(*                                                                         *)
(* The server and the network are the environment: a reply to the latest   *)
(* request (a reply with another transaction id is ignored) may come at    *)
(* any time, more than once or never.  Memory for a request may be short.  *)
(*                                                                         *)
(* The client is one record that the functions of dhcp.c transform.  Waits *)
(* are scaled: where the code backs off from 1 to 20 seconds, the model    *)
(* does so from 1 to MaxWait ticks.  The timers count down `timeout-- == 1' *)
(* in unsigned 16 bits, so a timer at zero wraps around; here the width is *)
(* TimerMod.                                                               *)
(***************************************************************************)
EXTENDS Integers

CONSTANTS
    Addresses,      \* what servers may offer
    Times,          \* the lease times in seconds servers may give
    Infinite,       \* 0xffffffff
    CoarseSecs,     \* DHCP_COARSE_TIMER_SECS
    FallbackTicks,  \* 60 * 4
    MaxWait,        \* the longest wait for a reply, in fine ticks
    TimerMod,       \* 2^16, the range of the timers
    TriesMod,       \* 2^8, the range of the try counter
    SelectTries,    \* 5
    RebindTries,    \* 8
    MaxReplies      \* bound of the model: replies to one request

ASSUME DhcpAssumption ==
    /\ Times \subseteq Nat /\ Infinite \in Nat
    /\ CoarseSecs \in Nat \ {0} /\ FallbackTicks \in Nat \ {0}
    /\ MaxWait \in Nat \ {0}
    /\ TimerMod \in Nat /\ TimerMod > MaxWait
    /\ TriesMod \in Nat \ {0}
    /\ SelectTries \in Nat /\ RebindTries \in Nat /\ MaxReplies \in Nat

NoAddress == "0.0.0.0"
FallbackAddress == "192.168.0.99"
NotGiven == -1                      \* an option that is not in the reply
ASSUME AddressAssumption == {NoAddress, FallbackAddress} \intersect Addresses = {}

VARIABLES
    dhcp,       \* netif.dhcp, and netif.ip_addr
    running,    \* netif.dhcp is not NULL
    divisor,    \* ticks since the last coarse tick
    first,      \* the first coarse tick is still to come
    replies,    \* replies since the latest attempt to send a request
    age         \* history: coarse ticks since the lease was bound

vars == <<dhcp, running, divisor, first, replies, age>>

States == {"OFF", "SELECTING", "REQUESTING", "BOUND", "RENEWING", "REBINDING", "BACKING_OFF"}

-----------------------------------------------------------------------------
(* The client.  In what follows c is its record, ok tells whether memory   *)
(* for a request could be had.                                             *)

\* dhcp_set_state: a new state starts with no tries.
SetState(c, s) == IF c.state = s THEN c ELSE [c EXCEPT !.state = s, !.tries = 0]

WaitUnbounded(n) == n                                                  \* mutant
Wait(n) == IF n < MaxWait THEN n ELSE MaxWait
\* What follows every attempt to send: dhcp->tries++ and the time to wait.
Attempted(c, factor, extra) ==
    LET n == (c.tries + 1) % TriesMod
    IN  [c EXCEPT !.tries = n, !.timeout = Wait(factor * n + extra), !.asked = TRUE]

Discover(c, ok) ==
    LET d == [c EXCEPT !.offered = NoAddress]
    IN  Attempted(IF ok THEN SetState(d, "SELECTING") ELSE d, 1, 1)
Select(c, ok) == Attempted(IF ok THEN SetState(c, "REQUESTING") ELSE c, 1, 0)
Renew(c) == Attempted(SetState(c, "RENEWING"), 2, 0)
Rebind(c) == Attempted(SetState(c, "REBINDING"), 1, 0)
Release(c) == [Attempted(SetState(c, "OFF"), 1, 0) EXCEPT !.ip = NoAddress]

\* dhcp_handle_nak: the address stays configured.
HandleNak(c) == [SetState(c, "BACKING_OFF") EXCEPT !.timeout = MaxWait]

\* An offer without a server identifier is dropped.
HandleOffer(c, id, a, ok) == IF id THEN Select([c EXCEPT !.offered = a], ok) ELSE c

Given(opt, default) == IF opt = NotGiven THEN default ELSE opt
HandleAck(c, a, t0, t1, t2) ==
    LET lease == Given(t0, c.lease)
    IN  [c EXCEPT !.lease = lease, !.renew = Given(t1, lease \div 2),
                  !.rebind = Given(t2, lease), !.offered = a]

\* Seconds to coarse ticks, cut to the width of the timer; zero becomes one.
CoarseTicksUnclamped(secs) == ((secs + (CoarseSecs \div 2)) \div CoarseSecs) % TimerMod \* mutant
CoarseTicks(secs) ==
    LET n == ((secs + (CoarseSecs \div 2)) \div CoarseSecs) % TimerMod
    IN  IF n = 0 THEN 1 ELSE n

Bind(c) ==
    SetState([c EXCEPT !.t1 = IF c.renew = Infinite THEN @ ELSE CoarseTicks(c.renew),
                       !.t2 = IF c.rebind = Infinite THEN @ ELSE CoarseTicks(c.rebind),
                       !.ip = c.offered], "BOUND")

\* dhcp_timeout
Timeout(c, ok) ==
    CASE c.state \in {"BACKING_OFF", "SELECTING"} -> Discover(c, ok)
      [] c.state = "REQUESTING" ->
            IF c.tries <= SelectTries THEN Select(c, ok) ELSE Discover(Release(c), ok)
      [] c.state = "RENEWING" -> Renew(c)
      [] c.state = "REBINDING" ->
            IF c.tries <= RebindTries THEN Rebind(c) ELSE Discover(Release(c), ok)
      [] OTHER -> c

RenewableAlways(c) == TRUE                                              \* mutant
Renewable(c) == c.state \in {"REQUESTING", "BOUND", "RENEWING"}
T1Timeout(c) == IF Renewable(c) THEN Renew(c) ELSE c
T2Timeout(c) == IF Renewable(c) THEN Rebind(c) ELSE c

DecStops(n) == IF n = 0 THEN 0 ELSE n - 1                               \* mutant
Dec(n) == (n - 1) % TimerMod

FineTmr(c, ok) ==
    LET d == [c EXCEPT !.timeout = Dec(c.timeout)]
    IN  IF c.timeout = 1 THEN Timeout(d, ok) ELSE d

CoarseTmr(c) ==
    LET d == [c EXCEPT !.t2 = Dec(c.t2)]
        e == [d EXCEPT !.t1 = Dec(c.t1)]
    IN  IF c.t2 = 1 THEN T2Timeout(d) ELSE IF c.t1 = 1 THEN T1Timeout(e) ELSE e

-----------------------------------------------------------------------------
\* dhcp_start on a cleared client; its first request finds memory.
Cleared == [state |-> "OFF", tries |-> 0, timeout |-> 0, t1 |-> 0, t2 |-> 0, lease |-> 0,
            renew |-> 0, rebind |-> 0, offered |-> NoAddress, ip |-> NoAddress, asked |-> FALSE]
Init ==
    /\ dhcp = Discover(Cleared, TRUE)
    /\ running = TRUE
    /\ divisor = 0
    /\ first = TRUE
    /\ replies = 0
    /\ age = 0

Quiet(c) == [c EXCEPT !.asked = FALSE]

\* Replies: dhcp_recv, called from ebd_wait by way of ip_input.
Recv(c) ==
    /\ running /\ replies < MaxReplies
    /\ dhcp' = c
    /\ replies' = IF c.asked THEN 0 ELSE replies + 1
    /\ age' = IF c.state = "BOUND" THEN 0 ELSE age
    /\ UNCHANGED <<running, divisor, first>>

RecvAck ==
    \/ /\ dhcp.state = "REQUESTING"
       /\ \E a \in Addresses, t0, t1, t2 \in Times \union {NotGiven} :
            Recv(Bind([HandleAck(Quiet(dhcp), a, t0, t1, t2) EXCEPT !.timeout = 0]))
    \/ /\ dhcp.state \in {"REBINDING", "RENEWING"}
       /\ Recv(Bind([Quiet(dhcp) EXCEPT !.timeout = 0]))

RecvNak ==
    /\ dhcp.state \in {"REQUESTING", "REBINDING", "RENEWING"}
    /\ Recv(HandleNak(Quiet(dhcp)))

RecvOffer ==
    /\ dhcp.state = "SELECTING"
    /\ \E a \in Addresses, id, ok \in BOOLEAN :
         Recv(HandleOffer([Quiet(dhcp) EXCEPT !.timeout = 0], id, a, ok))

\* One turn of run_lwip after ebd_wait has found no packet by its deadline.
CoarseTurn == divisor = FallbackTicks
FallsBack == first /\ dhcp.state # "BOUND"

\* dhcp_stop, then the fixed address; the timers find no client any more.
Fallback ==
    /\ CoarseTurn /\ FallsBack
    /\ running' = FALSE
    /\ dhcp' = [Cleared EXCEPT !.ip = FallbackAddress]
    /\ first' = FALSE
    /\ divisor' = 0
    /\ UNCHANGED <<replies, age>>

\* The coarse timer before the check of the fallback.
CoarseTickEarly ==                                                     \* mutant
    LET c == CoarseTmr(Quiet(dhcp))
    IN  /\ CoarseTurn /\ ~(first /\ dhcp.state # "BOUND")
        /\ first' = FALSE
        /\ divisor' = 0
        /\ IF first /\ c.state # "BOUND"
           THEN dhcp' = [Cleared EXCEPT !.ip = FallbackAddress] /\ running' = FALSE
           ELSE dhcp' = IF running THEN c ELSE dhcp /\ UNCHANGED running
        /\ UNCHANGED <<replies, age>>
CoarseTick ==
    /\ CoarseTurn /\ ~FallsBack
    /\ first' = FALSE
    /\ divisor' = 0
    /\ dhcp' = IF running THEN CoarseTmr(Quiet(dhcp)) ELSE dhcp
    /\ age' = IF age < TimerMod THEN age + 1 ELSE age
    /\ replies' = IF dhcp'.asked THEN 0 ELSE replies
    /\ UNCHANGED running

FineTick ==
    /\ ~CoarseTurn
    /\ divisor' = divisor + 1
    /\ \E ok \in BOOLEAN :
         dhcp' = IF running /\ divisor' % 2 = 1 THEN FineTmr(Quiet(dhcp), ok) ELSE Quiet(dhcp)
    /\ replies' = IF dhcp'.asked THEN 0 ELSE replies
    /\ UNCHANGED <<running, first, age>>

Tick == Fallback \/ CoarseTick \/ FineTick

Next == RecvAck \/ RecvNak \/ RecvOffer \/ Tick

\* ebd_wait returns 0 at the first quiet moment after the deadline; the
\* deadline is kept over packets.
Spec == Init /\ [][Next]_vars /\ WF_vars(Tick)

-----------------------------------------------------------------------------
(* Properties.                                                             *)

\* The client's fields keep their types; in particular every timer stays in
\* its width whatever a server gives as lease times.
TypeOK ==
    /\ dhcp.state \in States
    /\ dhcp.tries \in 0 .. (TriesMod - 1)
    /\ {dhcp.timeout, dhcp.t1, dhcp.t2} \subseteq 0 .. (TimerMod - 1)
    /\ {dhcp.lease, dhcp.renew, dhcp.rebind} \subseteq Nat
    /\ dhcp.offered \in Addresses \union {NoAddress}
    /\ dhcp.ip \in Addresses \union {NoAddress, FallbackAddress}
    /\ running \in BOOLEAN /\ first \in BOOLEAN
    /\ divisor \in 0 .. FallbackTicks
    /\ replies \in 0 .. MaxReplies
    /\ age \in 0 .. TimerMod

\* A bound interface has the address it was offered.  The renewal ACK is bound
\* without reading it, so this depends on the offered address being kept over
\* every path into RENEWING and REBINDING, stale lease timers included.
BoundHasAddress == running /\ dhcp.state = "BOUND" => dhcp.ip = dhcp.offered /\ dhcp.ip # NoAddress

\* The fixed address never replaces a leased one: until the first coarse tick
\* no lease timer runs, so a client that has an address is still BOUND when
\* the loop makes its check.
FallbackSparesLease ==
    [][dhcp'.ip = FallbackAddress /\ dhcp.ip # FallbackAddress => dhcp.ip = NoAddress]_vars

\* A client is no longer BOUND, but asking, when the renewal or the rebinding
\* time it was given is over, or at the first coarse tick if the time is less
\* than one; this also holds for the next lease after any earlier one.
LeaseNotOverrun ==
    LET ticks(secs) == ((secs + (CoarseSecs \div 2)) \div CoarseSecs) % TimerMod
        due(secs) == age >= ticks(secs) /\ age > 0
    IN  running /\ dhcp.state = "BOUND" =>
            /\ dhcp.renew # Infinite => ~due(dhcp.renew)
            /\ dhcp.rebind # Infinite => ~due(dhcp.rebind)

\* A client without a lease never falls silent for good.  A dropped offer and a
\* try counter that wrapped leave the request timer at zero; it is only the
\* wrap-around of the timer that makes the client ask again.  The exception is
\* the code's: after a release whose DISCOVER found no memory it stays OFF.
KeepsAsking == []<>(~running \/ dhcp.state \in {"BOUND", "OFF"} \/ dhcp.asked)
=============================================================================

----------------------------- MODULE DhcpProofs -----------------------------
(***************************************************************************)
(* Proofs about the DHCP client, for every set of addresses and lease      *)
(* times, every width of the timers and every limit of the tries.          *)
(*                                                                         *)
(* The renewal ACK is bound without being read; that is sound because the  *)
(* offered address is kept from the offer on, through every state in which *)
(* an ACK is taken.  While the client is BOUND a lease timer and the age of *)
(* the lease add up to the time that was given.                            *)
(***************************************************************************)
EXTENDS Dhcp, TLAPS

\* The states in which the client holds an offer.
Holding == {"REQUESTING", "BOUND", "RENEWING", "REBINDING"}

Timer == 0 .. (TimerMod - 1)
Client ==
    [state : States, tries : 0 .. (TriesMod - 1), timeout : Timer, t1 : Timer, t2 : Timer,
     lease : Nat, renew : Nat, rebind : Nat,
     offered : Addresses \cup {NoAddress},
     ip : Addresses \cup {NoAddress, FallbackAddress}, asked : BOOLEAN]

\* The offered address is kept, and it is the address of a bound client.
AddressInv(c) ==
    /\ c.state \in Holding => c.offered \in Addresses
    /\ c.state = "BOUND" => c.ip = c.offered

\* The lease timers of a client bound for n coarse ticks.
LeaseInv(c, n) ==
    c.state = "BOUND" =>
        /\ c.renew # Infinite => c.t1 >= 1 /\ c.t1 + n = CoarseTicks(c.renew)
        /\ c.rebind # Infinite => c.t2 >= 1 /\ c.t2 + n = CoarseTicks(c.rebind)

\* Before the first coarse tick only a bound client has an address.
EarlyInv(c) == c.ip = NoAddress \/ c.state = "BOUND"

Types ==
    /\ dhcp \in Client
    /\ running \in BOOLEAN /\ first \in BOOLEAN
    /\ divisor \in 0 .. FallbackTicks
    /\ replies \in 0 .. MaxReplies
    /\ age \in 0 .. TimerMod

\* The inductive invariant.
DInv ==
    /\ Types
    /\ ~running => dhcp.state = "OFF"
    /\ dhcp.ip = FallbackAddress <=> ~running
    /\ AddressInv(dhcp)
    /\ LeaseInv(dhcp, age)
    /\ first => EarlyInv(dhcp)

-----------------------------------------------------------------------------
(* The operators of the client.                                            *)

\* The constants as the provers need them.
LEMMA DhcpConstants ==
    /\ Times \subseteq Nat /\ Infinite \in Nat
    /\ CoarseSecs \in Nat \ {0} /\ FallbackTicks \in Nat \ {0} /\ MaxWait \in Nat \ {0}
    /\ TimerMod \in Nat /\ TimerMod > MaxWait /\ TimerMod >= 2
    /\ TriesMod \in Nat \ {0} /\ MaxReplies \in Nat
    /\ NoAddress \notin Addresses /\ FallbackAddress \notin Addresses
    /\ NoAddress # FallbackAddress
BY DhcpAssumption, AddressAssumption DEF DhcpAssumption, AddressAssumption, NoAddress, FallbackAddress

\* A remainder is less than the divisor.
LEMMA Remainder ==
    ASSUME NEW a \in Int, NEW m \in Nat \ {0}
    PROVE  (a % m) \in 0 .. (m - 1)
OBVIOUS

\* The quotient of naturals is one.
LEMMA Quotient ==
    ASSUME NEW a \in Nat, NEW m \in Nat \ {0}
    PROVE  (a \div m) \in Nat
OBVIOUS

\* A timer that has not run out counts down.
LEMMA DecStep ==
    ASSUME NEW n \in Timer
    PROVE  Dec(n) \in Timer /\ (n >= 1 => Dec(n) = n - 1)
<1>1. TimerMod \in Nat \ {0}
  BY DhcpConstants
<1>2. n - 1 \in Int
  BY <1>1 DEF Timer
<1>3. Dec(n) \in 0 .. (TimerMod - 1)
  BY <1>1, <1>2, Remainder DEF Dec
<1>4. n >= 1 => (n - 1) % TimerMod = n - 1
  BY <1>1 DEF Timer
<1> QED
  BY <1>3, <1>4 DEF Dec, Timer

\* A time given in seconds takes at least one tick.
LEMMA TicksRange ==
    ASSUME NEW secs \in Nat
    PROVE  /\ ((secs + (CoarseSecs \div 2)) \div CoarseSecs) % TimerMod \in Nat
           /\ CoarseTicks(secs) \in Timer /\ CoarseTicks(secs) >= 1
<1> DEFINE n == ((secs + (CoarseSecs \div 2)) \div CoarseSecs) % TimerMod
<1>1. TimerMod \in Nat \ {0} /\ CoarseSecs \in Nat \ {0} /\ TimerMod >= 2
  BY DhcpConstants
<1>2. CoarseSecs \div 2 \in Nat
  BY <1>1
<1>3. secs + (CoarseSecs \div 2) \in Nat
  BY <1>2
<1>4. (secs + (CoarseSecs \div 2)) \div CoarseSecs \in Nat
  BY <1>1, <1>3, Quotient
<1>5. n \in 0 .. (TimerMod - 1)
  BY <1>1, <1>4, Remainder
<1>6. CoarseTicks(secs) = IF n = 0 THEN 1 ELSE n
  BY DEF CoarseTicks
<1> HIDE DEF n
<1>7. CoarseTicks(secs) \in Timer /\ CoarseTicks(secs) >= 1
  BY <1>1, <1>5, <1>6 DEF Timer
<1> QED
  BY <1>1, <1>5, <1>7 DEF n

\* The address and the lease are left alone.
Keeps(c, r) ==
    /\ r \in Client
    /\ r.ip = c.ip /\ r.offered = c.offered
    /\ r.t1 = c.t1 /\ r.t2 = c.t2 /\ r.renew = c.renew /\ r.rebind = c.rebind

\* A new state.
LEMMA SetStateFacts ==
    ASSUME NEW c \in Client, NEW s \in States
    PROVE  Keeps(c, SetState(c, s)) /\ SetState(c, s).state = s
<1>1. 0 \in 0 .. (TriesMod - 1)
  BY DhcpConstants
<1> QED
  BY <1>1 DEF SetState, Client, Keeps

\* An attempt to send.
LEMMA AttemptedFacts ==
    ASSUME NEW c \in Client, NEW factor \in 1 .. 2, NEW extra \in 0 .. 1
    PROVE  /\ Keeps(c, Attempted(c, factor, extra))
           /\ Attempted(c, factor, extra).state = c.state
<1> DEFINE n == (c.tries + 1) % TriesMod
           w == Wait(factor * n + extra)
<1>1. n \in 0 .. (TriesMod - 1)
  <2>1. c.tries + 1 \in Int
    BY DhcpConstants DEF Client
  <2> QED
    BY <2>1, DhcpConstants, Remainder
<1>2. n \in Nat
  BY <1>1, DhcpConstants
<1> HIDE DEF n
<1>3. factor * n + extra \in Nat
  <2>1. factor = 1 \/ factor = 2
    OBVIOUS
  <2> QED
    BY <1>2, <2>1
<1>4. w \in Timer
  BY <1>3, DhcpConstants DEF Wait, Timer
<1>5. Attempted(c, factor, extra) = [c EXCEPT !.tries = n, !.timeout = w, !.asked = TRUE]
  BY DEF Attempted, n
<1> HIDE DEF w
<1> QED
  BY <1>1, <1>4, <1>5 DEF Client, Keeps

\* dhcp_select, dhcp_renew, dhcp_rebind and dhcp_handle_nak.
LEMMA AskFacts ==
    ASSUME NEW c \in Client, NEW ok \in BOOLEAN
    PROVE  /\ Keeps(c, Select(c, ok)) /\ Select(c, ok).state \in {c.state, "REQUESTING"}
           /\ Keeps(c, Renew(c)) /\ Renew(c).state = "RENEWING"
           /\ Keeps(c, Rebind(c)) /\ Rebind(c).state = "REBINDING"
           /\ Keeps(c, HandleNak(c)) /\ HandleNak(c).state = "BACKING_OFF"
<1>1. ASSUME NEW s \in States, NEW f \in 1 .. 2
      PROVE  /\ Keeps(c, Attempted(SetState(c, s), f, 0)) /\ Attempted(SetState(c, s), f, 0).state = s
  <2> DEFINE e == SetState(c, s)
  <2>1. Keeps(c, e) /\ e.state = s /\ e \in Client
    BY SetStateFacts DEF Keeps
  <2> HIDE DEF e
  <2>2. Keeps(e, Attempted(e, f, 0)) /\ Attempted(e, f, 0).state = e.state
    BY <2>1, AttemptedFacts
  <2>3. Keeps(c, Attempted(e, f, 0)) /\ Attempted(e, f, 0).state = s
    BY <2>1, <2>2 DEF Keeps
  <2> QED
    BY <2>3 DEF e
<1>2. Keeps(c, Renew(c)) /\ Renew(c).state = "RENEWING"
  BY <1>1 DEF Renew, States
<1>3. Keeps(c, Rebind(c)) /\ Rebind(c).state = "REBINDING"
  BY <1>1 DEF Rebind, States
<1>4. Keeps(c, Select(c, ok)) /\ Select(c, ok).state \in {c.state, "REQUESTING"}
  <2>1. CASE ok
    BY <1>1, <2>1 DEF Select, States
  <2>2. CASE ~ok
    <3>1. Select(c, ok) = Attempted(c, 1, 0)
      BY <2>2 DEF Select
    <3> QED
      BY <3>1, AttemptedFacts
  <2> QED
    BY <2>1, <2>2
<1>5. Keeps(c, HandleNak(c)) /\ HandleNak(c).state = "BACKING_OFF"
  <2> DEFINE e == SetState(c, "BACKING_OFF")
  <2>1. e \in Client /\ e.state = "BACKING_OFF" /\ Keeps(c, e)
    BY SetStateFacts DEF Keeps, States
  <2>2. HandleNak(c) = [e EXCEPT !.timeout = MaxWait] /\ MaxWait \in Timer
    BY DhcpConstants DEF HandleNak, Timer
  <2> HIDE DEF e
  <2> QED
    BY <2>1, <2>2 DEF Client, Keeps
<1> QED
  BY <1>2, <1>3, <1>4, <1>5

\* dhcp_discover and dhcp_release.
LEMMA DiscoverFacts ==
    ASSUME NEW c \in Client, NEW ok \in BOOLEAN
    PROVE  /\ Discover(c, ok) \in Client /\ Discover(c, ok).ip = c.ip
           /\ Discover(c, ok).state = IF ok THEN "SELECTING" ELSE c.state
           /\ Release(c) \in Client /\ Release(c).state = "OFF" /\ Release(c).ip = NoAddress
<1> DEFINE a == [c EXCEPT !.offered = NoAddress]
           e == IF ok THEN SetState(a, "SELECTING") ELSE a
           r == Attempted(e, 1, 1)
<1>1. a \in Client /\ a.ip = c.ip /\ a.state = c.state
  BY DEF Client
<1>2. e \in Client /\ e.ip = c.ip /\ e.state = IF ok THEN "SELECTING" ELSE c.state
  <2> HIDE DEF a
  <2>1. CASE ok
    BY <1>1, <2>1, SetStateFacts DEF Keeps, States
  <2>2. CASE ~ok
    BY <1>1, <2>2
  <2> QED
    BY <2>1, <2>2
<1>3. Discover(c, ok) = r
  BY DEF Discover
<1> HIDE DEF e
<1>4. Keeps(e, r) /\ r.state = e.state
  BY <1>2, AttemptedFacts
<1>5. Discover(c, ok) \in Client /\ Discover(c, ok).ip = c.ip
      /\ Discover(c, ok).state = IF ok THEN "SELECTING" ELSE c.state
  <2> HIDE DEF r
  <2> QED
    BY <1>2, <1>3, <1>4 DEF Keeps
<1> DEFINE f == SetState(c, "OFF")
           g == Attempted(f, 1, 0)
<1>6. f \in Client /\ f.state = "OFF"
  BY SetStateFacts DEF Keeps, States
<1>7. Release(c) = [g EXCEPT !.ip = NoAddress]
  BY DEF Release
<1> HIDE DEF f
<1>8. g \in Client /\ g.state = "OFF"
  BY <1>6, AttemptedFacts DEF Keeps
<1> HIDE DEF g
<1>9. Release(c) \in Client /\ Release(c).state = "OFF" /\ Release(c).ip = NoAddress
  BY <1>7, <1>8 DEF Client
<1> QED
  BY <1>5, <1>9

\* What the request timer may do to the client.
Timed(c, r) ==
    /\ r \in Client
    /\ r.ip \in {c.ip, NoAddress}
    /\ r.state = "BOUND" => r = c
    /\ c.state = "BOUND" => r = c
    /\ r.state \in Holding => c.state \in Holding /\ r.offered = c.offered

\* dhcp_timeout
LEMMA TimeoutFacts ==
    ASSUME NEW c \in Client, NEW ok \in BOOLEAN
    PROVE  Timed(c, Timeout(c, ok))
<1>1. c.state \in States
  BY DEF Client
<1>2. CASE c.state \in {"BACKING_OFF", "SELECTING"}
  <2>1. Timeout(c, ok) = Discover(c, ok)
    BY <1>2 DEF Timeout
  <2>2. Discover(c, ok).state \in {"BACKING_OFF", "SELECTING"}
    BY <1>2, DiscoverFacts
  <2> QED
    BY <1>2, <2>1, <2>2, DiscoverFacts DEF Timed, Holding
<1>3. ASSUME c.state \in {"REQUESTING", "REBINDING"} PROVE Timed(c, Discover(Release(c), ok))
  <2> DEFINE e == Release(c)
  <2>1. e \in Client /\ e.state = "OFF" /\ e.ip = NoAddress
    BY DiscoverFacts
  <2> HIDE DEF e
  <2>2. /\ Discover(e, ok) \in Client /\ Discover(e, ok).ip = NoAddress
        /\ Discover(e, ok).state \in {"OFF", "SELECTING"}
    BY <2>1, DiscoverFacts
  <2>3. Timed(c, Discover(e, ok))
    BY <1>3, <2>2 DEF Timed, Holding
  <2> QED
    BY <2>3 DEF e
<1>4. CASE c.state = "REQUESTING"
  <2>1. Timeout(c, ok) = IF c.tries <= SelectTries THEN Select(c, ok) ELSE Discover(Release(c), ok)
    BY <1>4 DEF Timeout
  <2>2. Timed(c, Select(c, ok))
    BY <1>4, AskFacts DEF Timed, Keeps, Holding
  <2> QED
    BY <1>3, <1>4, <2>1, <2>2
<1>5. CASE c.state = "RENEWING"
  <2>1. Timeout(c, ok) = Renew(c)
    BY <1>5 DEF Timeout
  <2> QED
    BY <1>5, <2>1, AskFacts DEF Timed, Keeps, Holding
<1>6. CASE c.state = "REBINDING"
  <2>1. Timeout(c, ok) = IF c.tries <= RebindTries THEN Rebind(c) ELSE Discover(Release(c), ok)
    BY <1>6 DEF Timeout
  <2>2. Timed(c, Rebind(c))
    BY <1>6, AskFacts DEF Timed, Keeps, Holding
  <2> QED
    BY <1>3, <1>6, <2>1, <2>2
<1>7. CASE c.state \in {"OFF", "BOUND"}
  <2>1. Timeout(c, ok) = c
    BY <1>7 DEF Timeout
  <2> QED
    BY <2>1 DEF Timed
<1> QED
  BY <1>1, <1>2, <1>4, <1>5, <1>6, <1>7 DEF States

\* What a fine tick may do to the client.
Ticked(c, r) ==
    /\ r \in Client
    /\ r.ip \in {c.ip, NoAddress}
    /\ r.state = "BOUND" <=> c.state = "BOUND"
    /\ c.state = "BOUND" => Keeps(c, r)
    /\ r.state \in Holding => c.state \in Holding /\ r.offered = c.offered

\* dhcp_fine_tmr
LEMMA FineFacts ==
    ASSUME NEW c \in Client, NEW ok \in BOOLEAN
    PROVE  Ticked(c, FineTmr(c, ok))
<1> DEFINE e == [c EXCEPT !.timeout = Dec(c.timeout)]
<1>1. Dec(c.timeout) \in Timer
  BY DecStep DEF Client
<1>2. e \in Client /\ Keeps(c, e) /\ e.state = c.state
  BY <1>1 DEF Client, Keeps
<1>3. FineTmr(c, ok) = e \/ FineTmr(c, ok) = Timeout(e, ok)
  BY DEF FineTmr
<1> HIDE DEF e
<1>4. Timed(e, Timeout(e, ok))
  BY <1>2, TimeoutFacts
<1>5. Ticked(c, e)
  BY <1>2 DEF Ticked, Keeps
<1>6. Ticked(c, Timeout(e, ok))
  BY <1>2, <1>4 DEF Ticked, Timed, Keeps
<1> QED
  BY <1>3, <1>5, <1>6

\* dhcp_coarse_tmr: a bound client that stays bound has time left on both
\* timers.
LEMMA CoarseFacts ==
    ASSUME NEW c \in Client
    PROVE  /\ CoarseTmr(c) \in Client
           /\ CoarseTmr(c).ip = c.ip /\ CoarseTmr(c).offered = c.offered
           /\ CoarseTmr(c).state \in Holding => c.state \in Holding
           /\ CoarseTmr(c).state = "BOUND" =>
                /\ c.state = "BOUND" /\ c.t1 # 1 /\ c.t2 # 1
                /\ CoarseTmr(c).t1 = Dec(c.t1) /\ CoarseTmr(c).t2 = Dec(c.t2)
                /\ CoarseTmr(c).renew = c.renew /\ CoarseTmr(c).rebind = c.rebind
<1> DEFINE r == CoarseTmr(c)
           a == [c EXCEPT !.t2 = Dec(c.t2)]
           e == [a EXCEPT !.t1 = Dec(c.t1)]
<1>1. Dec(c.t1) \in Timer /\ Dec(c.t2) \in Timer
  BY DecStep DEF Client
<1>2. a \in Client /\ a.state = c.state /\ a.ip = c.ip /\ a.offered = c.offered
  BY <1>1 DEF Client
<1>3. /\ e \in Client /\ e.state = c.state /\ e.ip = c.ip /\ e.offered = c.offered
      /\ e.t1 = Dec(c.t1) /\ e.t2 = Dec(c.t2) /\ e.renew = c.renew /\ e.rebind = c.rebind
  BY <1>1 DEF Client
<1>4. r = IF c.t2 = 1 THEN T2Timeout(a) ELSE IF c.t1 = 1 THEN T1Timeout(e) ELSE e
  BY DEF CoarseTmr
<1> HIDE DEF r, a, e
<1>5. /\ r \in Client /\ r.ip = c.ip /\ r.offered = c.offered
      /\ r.state \in Holding => c.state \in Holding
      /\ r.state = "BOUND" => c.t1 # 1 /\ c.t2 # 1 /\ r = e
  <2>1. CASE c.t2 = 1
    <3>1. CASE Renewable(a)
      <4>1. r = Rebind(a)
        BY <1>4, <2>1, <3>1 DEF T2Timeout
      <4> QED
        BY <1>2, <3>1, <4>1, AskFacts DEF Keeps, Renewable, Holding
    <3>2. CASE ~Renewable(a)
      <4>1. r = a
        BY <1>4, <2>1, <3>2 DEF T2Timeout
      <4> QED
        BY <1>2, <3>2, <4>1 DEF Renewable
    <3> QED
      BY <3>1, <3>2
  <2>2. CASE c.t2 # 1 /\ c.t1 = 1
    <3>1. CASE Renewable(e)
      <4>1. r = Renew(e)
        BY <1>4, <2>2, <3>1 DEF T1Timeout
      <4> QED
        BY <1>3, <3>1, <4>1, AskFacts DEF Keeps, Renewable, Holding
    <3>2. CASE ~Renewable(e)
      <4>1. r = e
        BY <1>4, <2>2, <3>2 DEF T1Timeout
      <4> QED
        BY <1>3, <3>2, <4>1 DEF Renewable
    <3> QED
      BY <3>1, <3>2
  <2>3. CASE c.t2 # 1 /\ c.t1 # 1
    BY <1>3, <1>4, <2>3
  <2> QED
    BY <2>1, <2>2, <2>3
<1>6. /\ r \in Client /\ r.ip = c.ip /\ r.offered = c.offered
      /\ r.state \in Holding => c.state \in Holding
      /\ r.state = "BOUND" =>
           /\ c.state = "BOUND" /\ c.t1 # 1 /\ c.t2 # 1
           /\ r.t1 = Dec(c.t1) /\ r.t2 = Dec(c.t2) /\ r.renew = c.renew /\ r.rebind = c.rebind
  BY <1>3, <1>5
<1> QED
  BY <1>6 DEF r

\* dhcp_bind: the timers start anew unless the time is infinite.
LEMMA BindFacts ==
    ASSUME NEW c \in Client
    PROVE  /\ Bind(c) \in Client /\ Bind(c).state = "BOUND"
           /\ Bind(c).ip = c.offered /\ Bind(c).offered = c.offered
           /\ LeaseInv(Bind(c), 0)
<1> DEFINE u == IF c.renew = Infinite THEN c.t1 ELSE CoarseTicks(c.renew)
           w == IF c.rebind = Infinite THEN c.t2 ELSE CoarseTicks(c.rebind)
           e == [c EXCEPT !.t1 = u, !.t2 = w, !.ip = c.offered]
<1>1. /\ c.renew # Infinite => CoarseTicks(c.renew) \in Timer /\ CoarseTicks(c.renew) >= 1
      /\ c.rebind # Infinite => CoarseTicks(c.rebind) \in Timer /\ CoarseTicks(c.rebind) >= 1
  BY TicksRange DEF Client
<1>2. /\ u \in Timer /\ w \in Timer
      /\ c.renew # Infinite => u >= 1 /\ u = CoarseTicks(c.renew)
      /\ c.rebind # Infinite => w >= 1 /\ w = CoarseTicks(c.rebind)
  BY <1>1 DEF Client
<1>3. Bind(c) = SetState(e, "BOUND")
  BY DEF Bind
<1> HIDE DEF u, w
<1>4. /\ e \in Client /\ e.t1 = u /\ e.t2 = w /\ e.ip = c.offered /\ e.offered = c.offered
      /\ e.renew = c.renew /\ e.rebind = c.rebind
  BY <1>2 DEF Client
<1> HIDE DEF e
<1>5. Keeps(e, Bind(c)) /\ Bind(c).state = "BOUND"
  BY <1>3, <1>4, SetStateFacts DEF States
<1>6. /\ Bind(c) \in Client /\ Bind(c).ip = c.offered /\ Bind(c).offered = c.offered
      /\ Bind(c).t1 = u /\ Bind(c).t2 = w /\ Bind(c).renew = c.renew /\ Bind(c).rebind = c.rebind
  BY <1>4, <1>5 DEF Keeps
<1>7. u + 0 = u /\ w + 0 = w
  BY <1>2, DhcpConstants DEF Timer
<1>8. LeaseInv(Bind(c), 0)
  BY <1>2, <1>6, <1>7 DEF LeaseInv
<1> QED
  BY <1>5, <1>6, <1>8

\* dhcp_handle_ack: the times of the lease, and the address.
LEMMA AckFacts ==
    ASSUME NEW c \in Client, NEW a \in Addresses, NEW t0 \in Times \cup {NotGiven},
           NEW t1 \in Times \cup {NotGiven}, NEW t2 \in Times \cup {NotGiven}
    PROVE  HandleAck(c, a, t0, t1, t2) \in Client /\ HandleAck(c, a, t0, t1, t2).offered = a
<1> DEFINE l == Given(t0, c.lease)
<1>1. l \in Nat
  BY DhcpConstants DEF Client, Given
<1>2. l \div 2 \in Nat
  BY <1>1
<1> HIDE DEF l
<1>3. Given(t1, l \div 2) \in Nat /\ Given(t2, l) \in Nat
  BY <1>1, <1>2, DhcpConstants DEF Given
<1>4. HandleAck(c, a, t0, t1, t2)
        = [c EXCEPT !.lease = l, !.renew = Given(t1, l \div 2), !.rebind = Given(t2, l), !.offered = a]
  BY DEF HandleAck, l
<1> QED
  BY <1>1, <1>3, <1>4 DEF Client

-----------------------------------------------------------------------------
(* The steps.                                                              *)

\* A client that has been cleared, without an address or with the fixed one.
LEMMA ClearedFacts ==
    /\ Cleared \in Client /\ Cleared.ip = NoAddress
    /\ [Cleared EXCEPT !.ip = FallbackAddress] \in Client
    /\ [Cleared EXCEPT !.ip = FallbackAddress].state = "OFF"
    /\ [Cleared EXCEPT !.ip = FallbackAddress].ip = FallbackAddress
<1>1. 0 \in Timer /\ 0 \in 0 .. (TriesMod - 1)
  BY DhcpConstants DEF Timer
<1>2. Cleared \in Client /\ Cleared.ip = NoAddress /\ Cleared.state = "OFF"
  BY <1>1 DEF Cleared, Client, States
<1> QED
  BY <1>2 DEF Client

\* dhcp_start leaves a client that asks for an address.
LEMMA DhcpInit == Init => DInv
<1> SUFFICES ASSUME Init PROVE DInv
  OBVIOUS
<1>1. Cleared \in Client /\ Cleared.ip = NoAddress
  BY ClearedFacts
<1>2. dhcp \in Client /\ dhcp.ip = NoAddress /\ dhcp.state = "SELECTING"
  BY <1>1, DiscoverFacts DEF Init
<1>3. Types
  <2>1. 0 \in 0 .. FallbackTicks /\ 0 \in 0 .. MaxReplies /\ 0 \in 0 .. TimerMod
    BY DhcpConstants
  <2> QED
    BY <1>2, <2>1 DEF Init, Types
<1>4. running = TRUE /\ dhcp.ip # FallbackAddress
  BY <1>2, DhcpConstants DEF Init
<1> QED
  BY <1>2, <1>3, <1>4 DEF DInv, AddressInv, LeaseInv, EarlyInv, Holding

\* Nothing has been asked in this step so far, and the timer may be stopped.
LEMMA QuietFacts ==
    ASSUME dhcp \in Client
    PROVE  /\ Keeps(dhcp, Quiet(dhcp)) /\ Quiet(dhcp).state = dhcp.state
           /\ Keeps(dhcp, [Quiet(dhcp) EXCEPT !.timeout = 0])
           /\ [Quiet(dhcp) EXCEPT !.timeout = 0].state = dhcp.state
<1>1. 0 \in Timer
  BY DhcpConstants DEF Timer
<1> QED
  BY <1>1 DEF Keeps, Quiet, Client

\* A reply: it is enough to look at the client it leaves behind.
LEMMA RecvStep ==
    ASSUME DInv, NEW r \in Client, Recv(r), AddressInv(r), r.state = "BOUND" => LeaseInv(r, 0),
           first => EarlyInv(r), r.ip # FallbackAddress
    PROVE  DInv'
<1>1. running = TRUE /\ UNCHANGED <<running, divisor, first>> /\ dhcp' = r
      /\ replies < MaxReplies
      /\ replies' = (IF r.asked THEN 0 ELSE replies + 1)
      /\ age' = (IF r.state = "BOUND" THEN 0 ELSE age)
  BY DEF Recv, DInv, Types
<1>2. replies' \in 0 .. MaxReplies /\ age' \in 0 .. TimerMod
  BY <1>1, DhcpConstants DEF DInv, Types
<1>3. Types'
  BY <1>1, <1>2 DEF DInv, Types
<1>4. LeaseInv(r, age')
  BY <1>1 DEF LeaseInv
<1> QED
  BY <1>1, <1>3, <1>4 DEF DInv

\* DHCPACK
LEMMA RecvAckStep ==
    ASSUME DInv, RecvAck
    PROVE  DInv'
<1>1. dhcp \in Client
  BY DEF DInv, Types
<1>2. ASSUME NEW c \in Client, c.offered \in Addresses, Recv(Bind(c)) PROVE DInv'
  <2>1. /\ Bind(c) \in Client /\ Bind(c).state = "BOUND" /\ Bind(c).ip = c.offered
        /\ Bind(c).offered = c.offered /\ LeaseInv(Bind(c), 0)
    BY <1>2, BindFacts
  <2>2. AddressInv(Bind(c)) /\ EarlyInv(Bind(c)) /\ Bind(c).ip # FallbackAddress
    BY <1>2, <2>1, DhcpConstants DEF AddressInv, EarlyInv
  <2> QED
    BY <1>2, <2>1, <2>2, RecvStep
<1>3. ASSUME NEW a \in Addresses, NEW t0 \in Times \cup {NotGiven},
             NEW t1 \in Times \cup {NotGiven}, NEW t2 \in Times \cup {NotGiven},
             Recv(Bind([HandleAck(Quiet(dhcp), a, t0, t1, t2) EXCEPT !.timeout = 0]))
      PROVE  DInv'
  <2> DEFINE c == [HandleAck(Quiet(dhcp), a, t0, t1, t2) EXCEPT !.timeout = 0]
  <2>1. Quiet(dhcp) \in Client
    BY <1>1, QuietFacts DEF Keeps
  <2>2. HandleAck(Quiet(dhcp), a, t0, t1, t2) \in Client
        /\ HandleAck(Quiet(dhcp), a, t0, t1, t2).offered = a
    <3> DEFINE q == Quiet(dhcp)
    <3> HIDE DEF q
    <3>1. q \in Client
      BY <2>1 DEF q
    <3>2. HandleAck(q, a, t0, t1, t2) \in Client /\ HandleAck(q, a, t0, t1, t2).offered = a
      BY <1>3, <3>1, AckFacts
    <3> QED
      BY <3>2 DEF q
  <2>3. 0 \in Timer
    BY DhcpConstants DEF Timer
  <2>4. c \in Client /\ c.offered = a
    BY <2>2, <2>3 DEF Client
  <2> HIDE DEF c
  <2>5. Recv(Bind(c))
    BY <1>3 DEF c
  <2> QED
    BY <1>2, <2>4, <2>5
<1>4. CASE dhcp.state \in {"REBINDING", "RENEWING"} /\ Recv(Bind([Quiet(dhcp) EXCEPT !.timeout = 0]))
  <2> DEFINE c == [Quiet(dhcp) EXCEPT !.timeout = 0]
  <2>1. c \in Client /\ c.offered = dhcp.offered
    BY <1>1, QuietFacts DEF Keeps
  <2>2. dhcp.offered \in Addresses
    BY <1>4 DEF DInv, AddressInv, Holding
  <2> HIDE DEF c
  <2>3. Recv(Bind(c))
    BY <1>4 DEF c
  <2> QED
    BY <1>2, <2>1, <2>2, <2>3
<1> QED
  BY <1>3, <1>4 DEF RecvAck

\* DHCPNAK
LEMMA RecvNakStep ==
    ASSUME DInv, RecvNak
    PROVE  DInv'
<1> DEFINE q == Quiet(dhcp)
           r == HandleNak(q)
<1>1. Keeps(dhcp, q) /\ q \in Client /\ q.state = dhcp.state
  BY QuietFacts DEF Keeps, DInv, Types
<1> HIDE DEF q
<1>2. Keeps(q, r) /\ r.state = "BACKING_OFF"
  BY <1>1, AskFacts
<1>3. Recv(r) /\ dhcp.state \in {"REQUESTING", "REBINDING", "RENEWING"}
  BY DEF RecvNak, q
<1> HIDE DEF r
<1>4. r \in Client /\ AddressInv(r) /\ (first => EarlyInv(r)) /\ r.ip # FallbackAddress
  BY <1>1, <1>2, <1>3 DEF Recv, Keeps, DInv, AddressInv, EarlyInv, Holding
<1> QED
  BY <1>2, <1>3, <1>4, RecvStep

\* DHCPOFFER
LEMMA RecvOfferStep ==
    ASSUME DInv, RecvOffer
    PROVE  DInv'
<1>1. dhcp.state = "SELECTING" /\ (first => dhcp.ip = NoAddress) /\ dhcp \in Client
  BY DEF RecvOffer, DInv, EarlyInv, Types
<1> DEFINE q == [Quiet(dhcp) EXCEPT !.timeout = 0]
<1>2. PICK a \in Addresses, id \in BOOLEAN, ok \in BOOLEAN : Recv(HandleOffer(q, id, a, ok))
  BY DEF RecvOffer
<1>3. q \in Client /\ q.ip = dhcp.ip /\ q.state = "SELECTING"
  BY <1>1, QuietFacts DEF Keeps
<1> HIDE DEF q
<1> DEFINE e == [q EXCEPT !.offered = a]
<1>4. e \in Client /\ e.ip = dhcp.ip /\ e.offered = a /\ e.state = "SELECTING"
  BY <1>3 DEF Client
<1>5. HandleOffer(q, id, a, ok) = IF id THEN Select(e, ok) ELSE q
  BY DEF HandleOffer
<1> HIDE DEF e
<1>6. /\ Select(e, ok) \in Client /\ Select(e, ok).ip = dhcp.ip /\ Select(e, ok).offered = a
      /\ Select(e, ok).state \in {"SELECTING", "REQUESTING"}
  BY <1>4, AskFacts DEF Keeps
<1> DEFINE r == HandleOffer(q, id, a, ok)
<1>7. /\ r \in Client /\ r.ip = dhcp.ip /\ r.state \in {"SELECTING", "REQUESTING"}
      /\ r.state = "REQUESTING" => r.offered \in Addresses
  BY <1>3, <1>5, <1>6
<1>8. Recv(r)
  BY <1>2
<1> HIDE DEF r
<1>9. AddressInv(r) /\ (first => EarlyInv(r)) /\ r.state # "BOUND" /\ r.ip # FallbackAddress
  BY <1>1, <1>7, <1>8 DEF AddressInv, EarlyInv, Holding, Recv, DInv
<1> QED
  BY <1>7, <1>8, <1>9, RecvStep

\* The fixed address.
LEMMA FallbackStep ==
    ASSUME DInv, Fallback
    PROVE  DInv'
<1>1. /\ dhcp' = [Cleared EXCEPT !.ip = FallbackAddress] /\ running' = FALSE /\ first' = FALSE
      /\ divisor' = 0 /\ replies' = replies /\ age' = age
  BY DEF Fallback
<1>2. dhcp' \in Client /\ dhcp'.state = "OFF" /\ dhcp'.ip = FallbackAddress
  BY <1>1, ClearedFacts
<1>3. Types'
  <2>1. 0 \in 0 .. FallbackTicks
    BY DhcpConstants
  <2> QED
    BY <1>1, <1>2, <2>1 DEF DInv, Types
<1> QED
  BY <1>1, <1>2, <1>3 DEF DInv, AddressInv, LeaseInv, Holding

\* A coarse tick: the timers and the age of a lease move together.
LEMMA CoarseStep ==
    ASSUME DInv, CoarseTick
    PROVE  DInv'
<1> DEFINE q == Quiet(dhcp)
           r == CoarseTmr(q)
<1>1. /\ first' = FALSE /\ divisor' = 0 /\ running' = running
      /\ dhcp' = IF running THEN r ELSE dhcp
      /\ age' = IF age < TimerMod THEN age + 1 ELSE age
      /\ replies' = IF dhcp'.asked THEN 0 ELSE replies
  BY DEF CoarseTick
<1>2. Keeps(dhcp, q) /\ q \in Client /\ q.state = dhcp.state
  BY QuietFacts DEF Keeps, DInv, Types
<1> HIDE DEF q
<1>3. /\ r \in Client /\ r.ip = q.ip /\ r.offered = q.offered
      /\ r.state \in Holding => q.state \in Holding
      /\ r.state = "BOUND" =>
           /\ q.state = "BOUND" /\ q.t1 # 1 /\ q.t2 # 1
           /\ r.t1 = Dec(q.t1) /\ r.t2 = Dec(q.t2) /\ r.renew = q.renew /\ r.rebind = q.rebind
  BY <1>2, CoarseFacts
<1> HIDE DEF r
<1>4. dhcp' \in Client
  BY <1>1, <1>3 DEF DInv, Types
<1>5. Types'
  <2>1. age' \in 0 .. TimerMod
    BY <1>1, DhcpConstants DEF DInv, Types
  <2>2. replies' \in 0 .. MaxReplies /\ divisor' \in 0 .. FallbackTicks
    BY <1>1, DhcpConstants DEF DInv, Types
  <2> QED
    BY <1>1, <1>4, <2>1, <2>2 DEF DInv, Types
<1>6. CASE ~running
  BY <1>1, <1>5, <1>6 DEF DInv, AddressInv, LeaseInv, Holding
<1>7. CASE running
  <2>1. dhcp' = r
    BY <1>1, <1>7
  <2>2. AddressInv(r)
    BY <1>2, <1>3 DEF DInv, AddressInv, Keeps, Holding
  <2>3. ASSUME NEW t \in Timer, NEW n \in Nat, t >= 1, t # 1, t + age = n, n < TimerMod
        PROVE  Dec(t) >= 1 /\ Dec(t) + age' = n
    <3>1. Dec(t) = t - 1 /\ t \in Nat
      BY <2>3, DecStep, DhcpConstants DEF Timer
    <3>2. age \in Nat /\ age < TimerMod
      BY <2>3, <3>1, DhcpConstants DEF DInv, Types
    <3>3. age' = age + 1
      BY <1>1, <3>2
    <3> QED
      BY <2>3, <3>1, <3>2, <3>3
  <2>4. LeaseInv(r, age')
    <3> SUFFICES ASSUME r.state = "BOUND"
                 PROVE  /\ r.renew # Infinite => r.t1 >= 1 /\ r.t1 + age' = CoarseTicks(r.renew)
                        /\ r.rebind # Infinite => r.t2 >= 1 /\ r.t2 + age' = CoarseTicks(r.rebind)
      BY DEF LeaseInv
    <3>1. /\ q.t1 \in Timer /\ q.t2 \in Timer /\ q.renew \in Nat /\ q.rebind \in Nat
      BY <1>2 DEF Client
    <3>2. /\ CoarseTicks(q.renew) \in Nat /\ CoarseTicks(q.renew) < TimerMod
          /\ CoarseTicks(q.rebind) \in Nat /\ CoarseTicks(q.rebind) < TimerMod
      BY <3>1, TicksRange, DhcpConstants DEF Timer
    <3>3. /\ q.renew # Infinite => q.t1 >= 1 /\ q.t1 + age = CoarseTicks(q.renew)
          /\ q.rebind # Infinite => q.t2 >= 1 /\ q.t2 + age = CoarseTicks(q.rebind)
      BY <1>2, <1>3 DEF DInv, LeaseInv, Keeps
    <3> QED
      BY <1>3, <2>3, <3>1, <3>2, <3>3
  <2> QED
    BY <1>1, <1>2, <1>3, <1>5, <1>7, <2>1, <2>2, <2>4 DEF DInv, Keeps
<1> QED
  BY <1>6, <1>7 DEF DInv, Types

\* A fine tick.
LEMMA FineStep ==
    ASSUME DInv, FineTick
    PROVE  DInv'
<1> DEFINE q == Quiet(dhcp)
<1>1. PICK ok \in BOOLEAN :
        dhcp' = IF running /\ divisor' % 2 = 1 THEN FineTmr(q, ok) ELSE q
  BY DEF FineTick
<1>2. /\ divisor # FallbackTicks /\ divisor' = divisor + 1
      /\ replies' = IF dhcp'.asked THEN 0 ELSE replies
      /\ UNCHANGED <<running, first, age>>
  BY DEF FineTick, CoarseTurn
<1>3. Keeps(dhcp, q) /\ q \in Client /\ q.state = dhcp.state
  BY QuietFacts DEF Keeps, DInv, Types
<1> HIDE DEF q
<1>4. Ticked(q, FineTmr(q, ok))
  BY <1>3, FineFacts
<1>5. Ticked(dhcp, dhcp') /\ (~running => dhcp'.state = dhcp.state)
  BY <1>1, <1>3, <1>4 DEF Ticked, Keeps
<1>6. Types'
  <2>1. divisor' \in 0 .. FallbackTicks
    BY <1>2, DhcpConstants DEF DInv, Types
  <2>2. replies' \in 0 .. MaxReplies
    BY <1>2, DhcpConstants DEF DInv, Types
  <2> QED
    BY <1>2, <1>5, <2>1, <2>2 DEF DInv, Types, Ticked
<1>7. AddressInv(dhcp') /\ (first => EarlyInv(dhcp'))
  BY <1>5 DEF DInv, AddressInv, EarlyInv, Ticked, Keeps
<1>8. LeaseInv(dhcp', age)
  BY <1>5 DEF DInv, LeaseInv, Ticked, Keeps
<1>9. dhcp'.ip = FallbackAddress <=> ~running
  BY <1>1, <1>3, <1>4, DhcpConstants DEF DInv, Ticked, Keeps
<1> QED
  BY <1>2, <1>5, <1>6, <1>7, <1>8, <1>9 DEF DInv

\* Every step keeps the invariant.
LEMMA DhcpNext == DInv /\ [Next]_vars => DInv'
<1> SUFFICES ASSUME DInv, [Next]_vars PROVE DInv'
  OBVIOUS
<1>1. CASE UNCHANGED vars
  BY <1>1 DEF vars, DInv, Types
<1> QED
  BY <1>1, RecvAckStep, RecvNakStep, RecvOfferStep, FallbackStep, CoarseStep, FineStep DEF Next, Tick

\* The invariant holds in every state of the client.
THEOREM DhcpInvariance == Spec => []DInv
  BY DhcpInit, DhcpNext, PTL DEF Spec

\* The fields of the client keep their types, the timers their width.
THEOREM DhcpTypeCorrect == Spec => []TypeOK
<1>1. DInv => TypeOK
  BY DEF DInv, Types, Client, Timer, TypeOK
<1> QED
  BY <1>1, DhcpInvariance, PTL

\* A bound interface has the address it was offered.
THEOREM DhcpBoundHasAddress == Spec => []BoundHasAddress
<1>1. DInv => BoundHasAddress
  BY DhcpConstants DEF DInv, AddressInv, Holding, BoundHasAddress
<1> QED
  BY <1>1, DhcpInvariance, PTL

\* A client asks for its lease before the time it was given is over.
THEOREM DhcpLeaseNotOverrun == Spec => []LeaseNotOverrun
<1>1. DInv => LeaseNotOverrun
  <2> SUFFICES ASSUME DInv PROVE LeaseNotOverrun
    OBVIOUS
  <2> DEFINE ticks(secs) == ((secs + (CoarseSecs \div 2)) \div CoarseSecs) % TimerMod
  <2>1. ASSUME NEW t \in Timer, NEW secs \in Nat, t >= 1, t + age = CoarseTicks(secs)
        PROVE  ~(age >= ticks(secs) /\ age > 0)
    <3>1. ticks(secs) \in Nat /\ CoarseTicks(secs) = IF ticks(secs) = 0 THEN 1 ELSE ticks(secs)
      BY TicksRange DEF CoarseTicks
    <3>2. t \in Nat /\ age \in Nat
      BY DhcpConstants DEF Timer, DInv, Types
    <3> HIDE DEF ticks
    <3> QED
      BY <2>1, <3>1, <3>2
  <2>2. dhcp.t1 \in Timer /\ dhcp.t2 \in Timer /\ dhcp.renew \in Nat /\ dhcp.rebind \in Nat
    BY DEF DInv, Types, Client
  <2>3. ASSUME dhcp.state = "BOUND"
        PROVE  /\ dhcp.renew # Infinite => ~(age >= ticks(dhcp.renew) /\ age > 0)
               /\ dhcp.rebind # Infinite => ~(age >= ticks(dhcp.rebind) /\ age > 0)
    BY <2>1, <2>2, <2>3 DEF DInv, LeaseInv
  <2> QED
    BY <2>3 DEF LeaseNotOverrun
<1> QED
  BY <1>1, DhcpInvariance, PTL

\* The fixed address never replaces a leased one.
THEOREM DhcpFallbackSparesLease == Spec => FallbackSparesLease
<1>1. DInv /\ [Next]_vars =>
        [dhcp'.ip = FallbackAddress /\ dhcp.ip # FallbackAddress => dhcp.ip = NoAddress]_vars
  <2> SUFFICES ASSUME DInv, Next, dhcp'.ip = FallbackAddress, dhcp.ip # FallbackAddress
               PROVE  dhcp.ip = NoAddress
    OBVIOUS
  <2>1. running /\ ~running'
    <3>1. DInv'
      BY DhcpNext
    <3> QED
      BY <3>1 DEF DInv
  <2>2. Fallback
    BY <2>1 DEF Next, Tick, CoarseTick, FineTick, RecvAck, RecvNak, RecvOffer, Recv
  <2> QED
    BY <2>2 DEF Fallback, FallsBack, DInv, EarlyInv
<1> QED
  BY <1>1, DhcpInvariance, PTL DEF Spec, FallbackSparesLease
=============================================================================

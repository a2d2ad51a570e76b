--------------------------- MODULE WebServerProofs ---------------------------
(***************************************************************************)
(* Proofs about the web server, for every number of PCBs, set of requests, *)
(* size of the send buffer and length of a body.                           *)
(*                                                                         *)
(* What the callbacks rely on is a matter of each connection: the state is *)
(* there exactly while the callbacks are, a body fits its buffer because   *)
(* the rest of the request does, and an accepted image came with the last  *)
(* piece of the body, after which nothing can change it.                   *)
(***************************************************************************)
EXTENDS WebServer, WellFoundedInduction, TLAPS

Pieces == {"GET", "POST", "length", "empty", "other", "body"}

\* The types that TypeOK leaves out: what the clients send.
ClientType ==
    /\ todo \in [Conn -> Seq(Pieces)]
    /\ upload \in [Conn -> [shape : Shapes \cup {"none"}, size : 0 .. 2]]

\* The client of c has sent a POST, a length, if the server has seen one.
Seen(c, r, piece) == \E i \in 1 .. (Len(r) - Len(todo[c])) : r[i] = piece

\* What c has still to send is the rest of a request, of which the server has
\* taken note.
Follows(c, r) ==
    /\ Len(todo[c]) <= Len(r)
    /\ \A i \in 1 .. Len(todo[c]) : todo[c][i] = r[Len(r) - Len(todo[c]) + i]
    /\ hs[c].ispost => Seen(c, r, "POST")
    /\ hs[c].postlen # 0 => Seen(c, r, "length")

HasState(c) == hs[c] # NoState

\* State and callbacks go together, and only an open connection has them.
CallbackInv(c) ==
    /\ HasState(c) => tcp[c] = "open"
    /\ machine = "serving" => (HasState(c) <=> "recv" \in cb[c])
    /\ machine = "serving" /\ "sent" \in cb[c] => HasState(c)

\* In front of the body the request is followed, in the body there is room for
\* the rest of it.
RequestInv(c) ==
    /\ HasState(c) /\ c \notin buffers /\ todo[c] # <<>> => \E r \in Requests : Follows(c, r)
    /\ c \in buffers =>
        /\ HasState(c)
        /\ hs[c].postlen = BodyPieces
        /\ hs[c].postpos + Len(todo[c]) <= BodyPieces

\* An accepted image has the right size and came with a complete body.
ImageInv(c) ==
    HasState(c) /\ hs[c].bios # NoBios =>
        /\ c \in buffers
        /\ hs[c].postpos = BodyPieces
        /\ hs[c].bios.len = expected
        /\ hs[c].bios.from = "upload" => upload[c].size = hs[c].bios.len

ConnInv(c) == CallbackInv(c) /\ RequestInv(c) /\ ImageInv(c)

\* What has been given to the flash is the image of a connection.
FlashInv ==
    machine # "serving" =>
        \E c \in Conn : HasState(c) /\ hs[c].bios = flashed /\ flashed # NoBios

\* The inductive invariant.
WInv ==
    /\ TypeOK
    /\ ClientType
    /\ expected = BankSize[bank]
    /\ \A c \in Conn : ConnInv(c)
    /\ FlashInv

-----------------------------------------------------------------------------
(* Lemmas about the operators of the model.                                *)

\* The constants as the provers need them.
LEMMA WebConstants ==
    /\ SndBuf \in Nat \ {0} /\ PageLen \in Nat \ {0} /\ BodyPieces \in Nat \ {0}
    /\ MaxConnects \in Nat
    /\ Requests \subseteq Seq(Pieces)
BY WebAssumption DEF WebAssumption, Pieces

\* Every set of numbers that is not empty has a smallest member.
LEMMA Least ==
    ASSUME NEW S, S \subseteq Nat, S # {}
    PROVE  \E m \in S : \A n \in S : m <= n
<1>1. PICK m \in S : \A n \in S : ~(<<n, m>> \in OpToRel(<, Nat))
  BY WFMin, NatLessThanWellFounded
<1>2. \A n \in S : ~(n < m)
  BY <1>1 DEF OpToRel
<1> QED
  BY <1>2

\* The list of active PCBs is kept in order by what TCP_RMV and TCP_REG do.
LEMMA ListType ==
    ASSUME order \in Seq(Conn), NEW c \in Conn
    PROVE  Forget(c) \in Seq(Conn) /\ Touch(c) \in Seq(Conn)
<1>1. Forget(c) \in Seq(Conn)
  <2>1. CASE \E i \in 1 .. Len(order) : order[i] = c
    <3> DEFINE I == {i \in 1 .. Len(order) : order[i] = c}
               k == Min(I)
    <3>1. I \subseteq Nat /\ I # {}
      BY <2>1
    <3>2. k \in I
      <4>1. \E m \in I : \A n \in I : m <= n
        BY <3>1, Least
      <4> QED
        BY <4>1 DEF Min
    <3>3. SelectInSeq(order, LAMBDA v : v = c) = k
      BY <3>1 DEF SelectInSeq
    <3> HIDE DEF k
    <3>4. k \in 1 .. Len(order)
      BY <3>2
    <3>5. SubSeq(order, 1, k - 1) \in Seq(Conn) /\ SubSeq(order, k + 1, Len(order)) \in Seq(Conn)
      BY <3>4
    <3>6. RemoveFirst(order, c) = SubSeq(order, 1, k - 1) \o SubSeq(order, k + 1, Len(order))
      BY <2>1, <3>3 DEF RemoveFirst, RemoveAt
    <3> QED
      BY <3>5, <3>6 DEF Forget
  <2>2. CASE ~\E i \in 1 .. Len(order) : order[i] = c
    BY <2>2 DEF Forget, RemoveFirst
  <2> QED
    BY <2>1, <2>2
<1> QED
  BY <1>1 DEF Touch

\* A record of http_state is not the absence of one.
LEMMA StateIsNotNoState == NoState \notin State
<1> SUFFICES ASSUME NoState \in State PROVE FALSE
  OBVIOUS
<1>1. "file" \in DOMAIN NoState
  BY DEF State
<1>2. DOMAIN NoState = {"none"}
  BY DEF NoState
<1> QED
  BY <1>1, <1>2

\* NoBios is a value of the field bios.
LEMMA BiosFacts == NoBios \in Bios /\ NewState \in State
<1>1. NoBios \in Bios
  BY DEF NoBios, Bios
<1>2. NewState \in State
  BY <1>1, WebConstants DEF NewState, State
<1> QED
  BY <1>1, <1>2

\* send_data never sends more than there is, nor more than fits.
LEMMA SentBound ==
    ASSUME NEW left \in Nat, NEW q \in 0 .. SndBuf, NEW h, h.left = left, NEW n \in Sent(h, q)
    PROVE  n \in Nat /\ n <= left /\ q + n <= SndBuf
<1> DEFINE room == SndBuf - q
           len == IF room < left THEN room ELSE left
<1>1. room \in Nat /\ len \in Nat /\ len <= left /\ len <= room
  BY WebConstants
<1>2. n = 0 \/ n = len \/ n \in 2 .. len
  BY DEF Sent, Tried
<1> HIDE DEF len
<1>3. n \in Nat /\ n <= len
  BY <1>1, <1>2
<1> QED
  BY <1>1, <1>3, WebConstants

\* What send_data leaves of the response, and what of the other fields.
LEMMA SentState ==
    ASSUME NEW h \in State, NEW q \in 0 .. SndBuf, NEW n \in Sent(h, q)
    PROVE  /\ [h EXCEPT !.left = @ - n] \in State
           /\ q + n \in 0 .. SndBuf
<1>1. h.left \in 0 .. (PageLen + 1) /\ h.left \in Nat
  BY WebConstants DEF State
<1>2. n \in Nat /\ n <= h.left /\ q + n <= SndBuf
  BY <1>1, SentBound
<1>3. h.left - n \in 0 .. (PageLen + 1) /\ q + n \in 0 .. SndBuf
  BY <1>1, <1>2, WebConstants
<1> QED
  BY <1>3 DEF State

-----------------------------------------------------------------------------
(* The steps.  Each one concerns a single connection.                      *)

\* The other connections are left alone.
Alone(c) ==
    /\ bank' = bank /\ expected' = expected
    /\ \A d \in Conn \ {c} :
        /\ tcp'[d] = tcp[d] /\ hs'[d] = hs[d] /\ cb'[d] = cb[d]
        /\ todo'[d] = todo[d] /\ upload'[d] = upload[d]
        /\ d \in buffers' <=> d \in buffers

\* A connection of which nothing changes stays correct.
LEMMA SameConnection ==
    ASSUME NEW d \in Conn, ConnInv(d), machine' = "serving" => machine = "serving",
           tcp'[d] = tcp[d], hs'[d] = hs[d], cb'[d] = cb[d], todo'[d] = todo[d],
           upload'[d] = upload[d], d \in buffers' <=> d \in buffers, expected' = expected
    PROVE  ConnInv(d)'
<1>1. CallbackInv(d)'
  BY DEF ConnInv, CallbackInv, HasState
<1>2. RequestInv(d)'
  <2>1. ASSUME NEW r \in Requests, Follows(d, r) PROVE Follows(d, r)'
    BY <2>1 DEF Follows, Seen
  <2> QED
    BY <2>1 DEF ConnInv, RequestInv, HasState
<1>3. ImageInv(d)'
  BY DEF ConnInv, ImageInv, HasState
<1> QED
  BY <1>1, <1>2, <1>3 DEF ConnInv

\* It is enough to look at the connection a step is about.
LEMMA OneConnection ==
    ASSUME WInv, machine = "serving", NEW c \in Conn, Alone(c),
           TypeOK', ClientType', ConnInv(c)', FlashInv'
    PROVE  WInv'
<1>1. ASSUME NEW d \in Conn \ {c} PROVE ConnInv(d)'
  <2>1. ConnInv(d)
    BY DEF WInv
  <2>2. /\ tcp'[d] = tcp[d] /\ hs'[d] = hs[d] /\ cb'[d] = cb[d]
        /\ todo'[d] = todo[d] /\ upload'[d] = upload[d]
        /\ d \in buffers' <=> d \in buffers
        /\ expected' = expected
    BY DEF Alone
  <2> QED
    BY <2>1, <2>2, SameConnection
<1>2. \A d \in Conn : ConnInv(d)'
  BY <1>1
<1>3. expected' = BankSize[bank']
  BY DEF WInv, Alone
<1> QED
  BY <1>2, <1>3 DEF WInv

\* Without its state a connection has nothing to get wrong.
LEMMA StatelessConn ==
    ASSUME NEW c \in Conn, hs'[c] = NoState, c \notin buffers',
           machine' = "serving" => "recv" \notin cb'[c] /\ "sent" \notin cb'[c]
    PROVE  ConnInv(c)'
BY DEF ConnInv, CallbackInv, RequestInv, ImageInv, HasState

\* conn_err by an abort or a reset.
LEMMA Dropped ==
    ASSUME WInv, machine = "serving", NEW c \in Conn, ConnErr(c),
           NEW s \in {"syn", "free"}, tcp' = [tcp EXCEPT ![c] = s],
           order' \in Seq(Conn), cb' = [cb EXCEPT ![c] = {}],
           queued' = [queued EXCEPT ![c] = 0], connects' \in 0 .. MaxConnects,
           UNCHANGED <<bank, expected, flashVars>>
    PROVE  WInv'
<1> USE DEF WInv
<1>1. /\ hs' = [hs EXCEPT ![c] = NoState] /\ buffers' = buffers \ {c}
      /\ orphans' = orphans + IF c \in buffers THEN 1 ELSE 0
      /\ todo' = [todo EXCEPT ![c] = <<>>] /\ upload' = [upload EXCEPT ![c] = NoUpload]
      /\ machine' = machine /\ flashed' = flashed
  BY DEF ConnErr, Gone, flashVars
<1>2. TypeOK'
  <2>1. orphans' \in Nat
    BY <1>1 DEF TypeOK
  <2>2. queued' \in [Conn -> 0 .. SndBuf]
    BY WebConstants DEF TypeOK
  <2>3. hs' \in [Conn -> State \cup {NoState}]
    BY <1>1 DEF TypeOK
  <2>4. tcp' \in [Conn -> {"free", "syn", "open", "closing", "timewait"}]
    BY DEF TypeOK
  <2>5. cb' \in [Conn -> SUBSET {"recv", "sent", "poll"}]
    BY DEF TypeOK
  <2> QED
    BY <1>1, <2>1, <2>2, <2>3, <2>4, <2>5 DEF TypeOK
<1>3. ClientType'
  <2>1. <<>> \in Seq(Pieces) /\ NoUpload \in [shape : Shapes \cup {"none"}, size : 0 .. 2]
    BY DEF NoUpload
  <2> QED
    BY <1>1, <2>1 DEF ClientType
<1>4. Alone(c)
  BY <1>1 DEF Alone, TypeOK, ClientType
<1>5. ConnInv(c)'
  <2>1. hs'[c] = NoState /\ c \notin buffers' /\ cb'[c] = {}
    BY <1>1 DEF TypeOK
  <2> QED
    BY <2>1, StatelessConn
<1>6. FlashInv'
  BY <1>1 DEF FlashInv
<1> QED
  BY <1>2, <1>3, <1>4, <1>5, <1>6, OneConnection

\* A SYN, a completed or a failed handshake, the end of a close.
LEMMA StackStep ==
    ASSUME WInv, NEW c \in Conn, Stack(c)
    PROVE  WInv'
<1> USE DEF WInv
<1>0. machine = "serving" /\ Forget(c) \in Seq(Conn) /\ Touch(c) \in Seq(Conn)
  BY ListType DEF Stack, Syn, SynKills, Accept, AcceptFails, Reset, Closed, TypeOK
<1>1. CASE Syn(c)
  <2>1. /\ tcp[c] = "free" /\ tcp' = [tcp EXCEPT ![c] = "syn"] /\ order' = Touch(c)
        /\ connects' \in 0 .. MaxConnects
        /\ UNCHANGED <<bank, expected, hs, cb, queued, todo, upload, buffers, orphans, machine, flashed>>
    BY <1>1, WebConstants DEF Syn, TypeOK, flashVars
  <2>2. TypeOK'
    BY <2>1, <1>0 DEF TypeOK
  <2>3. ClientType'
    BY <2>1 DEF ClientType
  <2>4. Alone(c)
    BY <2>1 DEF Alone, TypeOK
  <2>5. ConnInv(c)'
    <3>1. ~HasState(c)
      BY <2>1 DEF ConnInv, CallbackInv
    <3>2. hs'[c] = NoState /\ c \notin buffers' /\ "recv" \notin cb'[c] /\ "sent" \notin cb'[c]
      BY <3>1, <2>1, <1>0 DEF ConnInv, CallbackInv, RequestInv, HasState
    <3> QED
      BY <3>2, StatelessConn
  <2>6. FlashInv'
    BY <2>1, <1>0 DEF FlashInv
  <2> QED
    BY <1>0, <2>2, <2>3, <2>4, <2>5, <2>6, OneConnection
<1>2. CASE SynKills(c)
  <2>1. /\ ConnErr(c) /\ tcp' = [tcp EXCEPT ![c] = "syn"] /\ order' = Touch(c)
        /\ cb' = [cb EXCEPT ![c] = {}] /\ queued' = [queued EXCEPT ![c] = 0]
        /\ connects' \in 0 .. MaxConnects
        /\ UNCHANGED <<bank, expected, flashVars>>
    BY <1>2, WebConstants DEF SynKills, TypeOK
  <2> QED
    BY <2>1, <1>0, Dropped
<1>3. CASE Accept(c)
  <2>1. /\ tcp[c] = "syn" /\ tcp' = [tcp EXCEPT ![c] = "open"] /\ order' = Touch(c)
        /\ hs' = [hs EXCEPT ![c] = NewState] /\ cb' = [cb EXCEPT ![c] = {"recv"}]
        /\ UNCHANGED <<bank, expected, queued, upload, buffers, orphans, machine, flashed, connects>>
    BY <1>3 DEF Accept, flashVars
  <2>2. PICK r \in Requests : todo' = [todo EXCEPT ![c] = r]
    BY <1>3 DEF Accept
  <2>3. hs'[c] = NewState /\ todo'[c] = r /\ cb'[c] = {"recv"} /\ tcp'[c] = "open"
    BY <2>1, <2>2 DEF TypeOK, ClientType
  <2>4. TypeOK'
    BY <2>1, <1>0, BiosFacts DEF TypeOK
  <2>5. ClientType'
    BY <2>1, <2>2, WebConstants DEF ClientType
  <2>6. Alone(c)
    BY <2>1, <2>2 DEF Alone, TypeOK, ClientType
  <2>7. NewState # NoState
    BY BiosFacts, StateIsNotNoState
  <2>8. c \notin buffers'
    BY <2>1 DEF ConnInv, CallbackInv, RequestInv
  <2>9. Follows(c, r)'
    <3>1. r \in Seq(Pieces)
      BY WebConstants
    <3>2. \A i \in 1 .. Len(r) : r[i] = r[Len(r) - Len(r) + i]
      BY <3>1
    <3>3. ~NewState.ispost /\ NewState.postlen = 0
      BY DEF NewState
    <3> QED
      BY <2>3, <3>1, <3>2, <3>3 DEF Follows
  <2>10. ConnInv(c)'
    <3>1. CallbackInv(c)' /\ ImageInv(c)'
      BY <2>3, <2>7 DEF CallbackInv, ImageInv, HasState, NewState
    <3>2. RequestInv(c)'
      BY <2>8, <2>9 DEF RequestInv
    <3> QED
      BY <3>1, <3>2 DEF ConnInv
  <2>11. FlashInv'
    BY <2>1, <1>0 DEF FlashInv
  <2> QED
    BY <1>0, <2>4, <2>5, <2>6, <2>10, <2>11, OneConnection
<1>4. CASE AcceptFails(c)
  <2>1. /\ tcp[c] = "syn" /\ tcp' = [tcp EXCEPT ![c] = "free"] /\ order' = Forget(c)
        /\ UNCHANGED <<bank, expected, hs, cb, queued, todo, upload, connects, buffers, orphans, machine, flashed>>
    BY <1>4 DEF AcceptFails, clientVars, flashVars
  <2>2. TypeOK'
    BY <2>1, <1>0 DEF TypeOK
  <2>3. ClientType'
    BY <2>1 DEF ClientType
  <2>4. Alone(c)
    BY <2>1 DEF Alone, TypeOK
  <2>5. ConnInv(c)'
    <3>1. ~HasState(c)
      BY <2>1 DEF ConnInv, CallbackInv
    <3>2. hs'[c] = NoState /\ c \notin buffers' /\ "recv" \notin cb'[c] /\ "sent" \notin cb'[c]
      BY <3>1, <2>1, <1>0 DEF ConnInv, CallbackInv, RequestInv, HasState
    <3> QED
      BY <3>2, StatelessConn
  <2>6. FlashInv'
    BY <2>1, <1>0 DEF FlashInv
  <2> QED
    BY <1>0, <2>2, <2>3, <2>4, <2>5, <2>6, OneConnection
<1>5. CASE Reset(c)
  <2>1. /\ ConnErr(c) /\ tcp' = [tcp EXCEPT ![c] = "free"] /\ order' = Forget(c)
        /\ cb' = [cb EXCEPT ![c] = {}] /\ queued' = [queued EXCEPT ![c] = 0]
        /\ connects' \in 0 .. MaxConnects
        /\ UNCHANGED <<bank, expected, flashVars>>
    BY <1>5 DEF Reset, TypeOK
  <2> QED
    BY <2>1, <1>0, Dropped
<1>6. CASE Closed(c)
  <2>1. /\ tcp[c] \in {"closing", "timewait"} /\ order' = Forget(c)
        /\ cb' = [cb EXCEPT ![c] = {}]
        /\ todo' = [todo EXCEPT ![c] = <<>>] /\ upload' = [upload EXCEPT ![c] = NoUpload]
        /\ UNCHANGED <<bank, expected, hs, queued, connects, buffers, orphans, machine, flashed>>
    BY <1>6 DEF Closed, Gone, flashVars
  <2>2. PICK s \in {"free", "timewait"} : tcp' = [tcp EXCEPT ![c] = s]
    BY <1>6 DEF Closed
  <2>3. TypeOK'
    BY <2>1, <2>2, <1>0 DEF TypeOK
  <2>4. ClientType'
    <3>1. <<>> \in Seq(Pieces) /\ NoUpload \in [shape : Shapes \cup {"none"}, size : 0 .. 2]
      BY DEF NoUpload
    <3> QED
      BY <2>1, <3>1 DEF ClientType
  <2>5. Alone(c)
    BY <2>1, <2>2 DEF Alone, TypeOK, ClientType
  <2>6. ConnInv(c)'
    <3>1. ~HasState(c)
      BY <2>1 DEF ConnInv, CallbackInv
    <3>2. hs'[c] = NoState /\ c \notin buffers' /\ cb'[c] = {}
      BY <3>1, <2>1 DEF ConnInv, RequestInv, HasState, TypeOK
    <3> QED
      BY <3>2, StatelessConn
  <2>7. FlashInv'
    BY <2>1, <1>0 DEF FlashInv
  <2> QED
    BY <1>0, <2>3, <2>4, <2>5, <2>6, <2>7, OneConnection
<1> QED
  BY <1>1, <1>2, <1>3, <1>4, <1>5, <1>6 DEF Stack

\* A piece has been taken off the request.
LEMMA FollowStep ==
    ASSUME NEW c \in Conn, todo[c] \in Seq(Pieces), todo[c] # <<>>,
           NEW r \in Requests, Follows(c, r), todo'[c] = Tail(todo[c]),
           hs'[c].ispost => hs[c].ispost \/ Head(todo[c]) = "POST",
           hs'[c].postlen # 0 => hs[c].postlen # 0 \/ Head(todo[c]) = "length"
    PROVE  Follows(c, r)'
<1> DEFINE t == todo[c]
           k == Len(r) - Len(t)
<1>1. r \in Seq(Pieces) /\ Len(r) \in Nat /\ Len(t) \in Nat \ {0} /\ Len(t) <= Len(r)
  BY WebConstants DEF Follows
<1>2. Len(todo'[c]) = Len(t) - 1 /\ \A i \in 1 .. (Len(t) - 1) : todo'[c][i] = t[i + 1]
  OBVIOUS
<1>3. \A i \in 1 .. Len(t) : t[i] = r[k + i]
  BY DEF Follows
<1>4. Len(todo'[c]) <= Len(r) /\ Len(r) - Len(todo'[c]) = k + 1 /\ k \in Nat
  <2>1. PICK m \in Nat, n \in Nat \ {0} : m = Len(r) /\ n = Len(t) /\ n <= m
    BY <1>1
  <2>2. n - 1 <= m /\ m - (n - 1) = (m - n) + 1 /\ m - n \in Nat
    BY <2>1
  <2> QED
    BY <2>1, <2>2, <1>2
<1>5. \A i \in 1 .. Len(todo'[c]) : todo'[c][i] = r[k + 1 + i]
  <2> TAKE i \in 1 .. Len(todo'[c])
  <2>1. i + 1 \in 1 .. Len(t) /\ todo'[c][i] = t[i + 1]
    BY <1>1, <1>2
  <2>2. k + (i + 1) = k + 1 + i
    BY <1>4
  <2> QED
    BY <2>1, <2>2, <1>3
<1>6. Head(t) = r[k + 1]
  <2>1. 1 \in 1 .. Len(t) /\ Head(t) = t[1]
    BY <1>1
  <2> QED
    BY <2>1, <1>3
<1>7. ASSUME NEW p, Seen(c, r, p) \/ Head(t) = p PROVE Seen(c, r, p)'
  <2>1. CASE Seen(c, r, p)
    <3>1. PICK i \in 1 .. k : r[i] = p
      BY <2>1 DEF Seen
    <3>2. i \in 1 .. (k + 1)
      BY <1>4
    <3> QED
      BY <3>1, <3>2, <1>4 DEF Seen
  <2>2. CASE Head(t) = p
    <3>1. k + 1 \in 1 .. (k + 1)
      BY <1>4
    <3> QED
      BY <2>2, <3>1, <1>4, <1>6 DEF Seen
  <2> QED
    BY <2>1, <2>2, <1>7
<1> HIDE DEF k, t
<1>8. (hs[c].ispost => Seen(c, r, "POST")) /\ (hs[c].postlen # 0 => Seen(c, r, "length"))
  BY DEF Follows
<1>9. (hs'[c].ispost => Seen(c, r, "POST")') /\ (hs'[c].postlen # 0 => Seen(c, r, "length")')
  BY <1>7, <1>8 DEF t
<1>10. \A i \in 1 .. Len(todo'[c]) : todo'[c][i] = r[Len(r) - Len(todo'[c]) + i]
  BY <1>4, <1>5
<1> QED
  BY <1>4, <1>9, <1>10 DEF Follows

\* Positions in front of the last n of m pieces.
LEMMA BeforeRest ==
    ASSUME NEW m \in Nat, NEW n \in Nat \ {0}, n <= m
    PROVE  /\ m - n + 1 \in 1 .. m
           /\ \A i \in 1 .. (m - n) : i \in 1 .. m /\ i < m - n + 1
OBVIOUS

\* The empty line of a POST with a length leaves at most the body to come.
LEMMA BodyFits ==
    ASSUME NEW c \in Conn, todo[c] \in Seq(Pieces), todo[c] # <<>>,
           NEW r \in Requests, Follows(c, r), Head(todo[c]) = "empty",
           hs[c].ispost, hs[c].postlen # 0
    PROVE  Len(Tail(todo[c])) <= BodyPieces
<1> DEFINE t == todo[c]
           k == Len(r) - Len(t) + 1
<1>1. r \in Seq(Pieces) /\ Len(r) \in Nat /\ Len(t) \in Nat \ {0} /\ Len(t) <= Len(r)
  BY WebConstants DEF Follows
<1>2. PICK i \in 1 .. (Len(r) - Len(t)) : r[i] = "POST"
  BY DEF Follows, Seen
<1>3. PICK j \in 1 .. (Len(r) - Len(t)) : r[j] = "length"
  BY DEF Follows, Seen
<1>4. r[k] = "empty"
  <2>1. 1 \in 1 .. Len(t) /\ Len(r) - Len(t) + 1 = k /\ Head(t) = t[1]
    BY <1>1
  <2> QED
    BY <2>1 DEF Follows
<1>5. i \in 1 .. Len(r) /\ j \in 1 .. Len(r) /\ k \in 1 .. Len(r) /\ i < k /\ j < k
  BY <1>1, <1>2, <1>3, BeforeRest
<1>6. Len(r) - k <= BodyPieces
  BY <1>2, <1>3, <1>4, <1>5, BodyAssumption DEF BodyAssumption
<1>7. Len(Tail(t)) = Len(t) - 1
  BY <1>1
<1> QED
  BY <1>1, <1>6, <1>7, WebConstants

\* close_conn, on a connection whose state h differs from the one before at
\* most in its counter of polls.
LEMMA Closes ==
    ASSUME WInv, machine = "serving", NEW c \in Conn, HasState(c), NEW h \in State,
           h.bios = hs[c].bios, h.postpos = hs[c].postpos, h.postlen = hs[c].postlen,
           CloseConn(c, h),
           order' \in Seq(Conn), queued' \in [Conn -> 0 .. SndBuf],
           ClientType', \A d \in Conn \ {c} : todo'[d] = todo[d],
           Len(todo'[c]) <= Len(todo[c]),
           UNCHANGED <<bank, expected, upload, connects>>
    PROVE  WInv'
<1> USE DEF WInv
<1>1. cb' = [cb EXCEPT ![c] = @ \ {"recv", "sent"}]
  BY DEF CloseConn, Unregister
<1>2. CASE HasImage(h)
  <2>1. /\ machine' = "flashing" /\ flashed' = h.bios /\ hs' = [hs EXCEPT ![c] = h]
        /\ UNCHANGED <<tcp, buffers, orphans>>
    BY <1>2 DEF CloseConn
  <2>2. hs'[c] = h
    BY <2>1 DEF TypeOK
  <2>3. h.bios \in Bios
    BY DEF State
  <2>4. TypeOK'
    BY <1>1, <2>1, <2>3 DEF TypeOK
  <2>5. Alone(c)
    BY <1>1, <2>1 DEF Alone, TypeOK
  <2>6. h # NoState
    BY StateIsNotNoState
  <2>7. c \in buffers /\ hs[c].postpos = BodyPieces /\ hs[c].postlen = BodyPieces /\ tcp[c] = "open"
    BY <1>2 DEF ConnInv, CallbackInv, RequestInv, ImageInv, HasImage
  <2>8. CallbackInv(c)' /\ ImageInv(c)'
    BY <1>2, <2>1, <2>2, <2>6, <2>7 DEF ConnInv, CallbackInv, ImageInv, HasState, HasImage
  <2>9. RequestInv(c)'
    <3>1. hs[c].postpos + Len(todo[c]) <= BodyPieces
      BY <2>7 DEF ConnInv, RequestInv
    <3>2. Len(todo[c]) \in Nat /\ Len(todo'[c]) \in Nat
      BY DEF ClientType
    <3>3. h.postpos + Len(todo'[c]) <= BodyPieces
      BY <2>7, <3>1, <3>2, WebConstants
    <3> QED
      BY <2>1, <2>2, <2>6, <2>7, <3>3 DEF RequestInv, HasState
  <2>10. FlashInv'
    BY <1>2, <2>1, <2>2, <2>6 DEF FlashInv, HasState, HasImage
  <2> QED
    BY <2>4, <2>5, <2>8, <2>9, <2>10, OneConnection DEF ConnInv
<1>3. CASE ~HasImage(h)
  <2>1. /\ buffers' = buffers \ {c} /\ hs' = [hs EXCEPT ![c] = NoState]
        /\ tcp' = [tcp EXCEPT ![c] = "closing"]
        /\ UNCHANGED <<machine, flashed, orphans>>
    BY <1>3 DEF CloseConn, FreeBuffer
  <2>2. TypeOK'
    BY <1>1, <2>1 DEF TypeOK
  <2>3. Alone(c)
    BY <1>1, <2>1 DEF Alone, TypeOK
  <2>4. hs'[c] = NoState /\ c \notin buffers' /\ "recv" \notin cb'[c] /\ "sent" \notin cb'[c]
    BY <1>1, <2>1 DEF TypeOK
  <2>5. ConnInv(c)'
    BY <2>4, StatelessConn
  <2>6. FlashInv'
    BY <2>1 DEF FlashInv
  <2> QED
    BY <2>2, <2>3, <2>5, <2>6, OneConnection
<1> QED
  BY <1>2, <1>3

\* What a received piece does in any case.
LEMMA PieceFacts ==
    ASSUME WInv, NEW c \in Conn, Piece(c)
    PROVE  /\ machine = "serving" /\ HasState(c) /\ hs[c] \in State /\ tcp[c] = "open"
           /\ todo[c] \in Seq(Pieces) /\ todo[c] # <<>> /\ Len(todo[c]) \in Nat \ {0}
           /\ todo' \in [Conn -> Seq(Pieces)] /\ todo'[c] = Tail(todo[c])
           /\ Len(todo'[c]) = Len(todo[c]) - 1
           /\ \A d \in Conn \ {c} : todo'[d] = todo[d]
           /\ order' \in Seq(Conn)
           /\ UNCHANGED <<bank, expected, connects>>
<1> USE DEF WInv
<1>1. /\ machine = "serving" /\ "recv" \in cb[c] /\ todo[c] # <<>>
      /\ todo' = [todo EXCEPT ![c] = Tail(@)] /\ order' = Touch(c)
      /\ UNCHANGED <<bank, expected, connects>>
  BY DEF Piece
<1>2. HasState(c) /\ tcp[c] = "open"
  BY <1>1 DEF ConnInv, CallbackInv
<1>3. hs[c] \in State
  BY <1>2 DEF HasState, TypeOK
<1>4. todo[c] \in Seq(Pieces)
  BY DEF ClientType
<1>5. Len(todo[c]) \in Nat \ {0} /\ Tail(todo[c]) \in Seq(Pieces) /\ Len(Tail(todo[c])) = Len(todo[c]) - 1
  BY <1>1, <1>4
<1>6. order' \in Seq(Conn)
  BY <1>1, ListType DEF TypeOK
<1> QED
  BY <1>1, <1>2, <1>3, <1>4, <1>5, <1>6 DEF ClientType

\* A step that leaves the connection open with the state h.
LEMMA StaysOpen ==
    ASSUME WInv, machine = "serving", NEW c \in Conn, HasState(c), NEW h \in State,
           hs' = [hs EXCEPT ![c] = h],
           buffers' \in {buffers, buffers \cup {c}},
           cb' \in [Conn -> SUBSET {"recv", "sent", "poll"}],
           "recv" \in cb[c] => "recv" \in cb'[c], \A d \in Conn \ {c} : cb'[d] = cb[d],
           queued' \in [Conn -> 0 .. SndBuf], order' \in Seq(Conn),
           ClientType',
           \A d \in Conn \ {c} : todo'[d] = todo[d] /\ upload'[d] = upload[d],
           UNCHANGED <<bank, expected, connects, tcp, orphans, machine, flashed>>,
           RequestInv(c)', ImageInv(c)'
    PROVE  WInv'
<1> USE DEF WInv
<1>1. hs'[c] = h /\ h # NoState
  BY StateIsNotNoState DEF TypeOK
<1>2. TypeOK'
  BY DEF TypeOK
<1>3. Alone(c)
  BY DEF Alone, TypeOK
<1>4. CallbackInv(c)'
  BY <1>1 DEF ConnInv, CallbackInv, HasState
<1>5. FlashInv'
  BY DEF FlashInv
<1> QED
  BY <1>2, <1>3, <1>4, <1>5, OneConnection DEF ConnInv

\* http_recv in front of the body.
LEMMA LineStep ==
    ASSUME WInv, NEW c \in Conn,
           \/ FirstLine(c) \/ BadFirstLine(c) \/ HeaderLine(c)
           \/ HeaderEndsPost(c) \/ HeaderEndsGet(c)
    PROVE  WInv'
<1> USE DEF WInv
<1>0. Piece(c) /\ c \notin buffers /\ upload' = upload
  BY DEF FirstLine, BadFirstLine, HeaderLine, HeaderEndsPost, HeaderEndsGet, Line
<1>1. /\ machine = "serving" /\ HasState(c) /\ hs[c] \in State /\ tcp[c] = "open"
      /\ todo[c] \in Seq(Pieces) /\ todo[c] # <<>> /\ Len(todo[c]) \in Nat \ {0}
      /\ todo' \in [Conn -> Seq(Pieces)] /\ todo'[c] = Tail(todo[c])
      /\ Len(todo'[c]) = Len(todo[c]) - 1
      /\ \A d \in Conn \ {c} : todo'[d] = todo[d]
      /\ order' \in Seq(Conn)
      /\ UNCHANGED <<bank, expected, connects>>
  BY <1>0, PieceFacts
<1>2. ClientType'
  BY <1>0, <1>1 DEF ClientType
<1>3. PICK r \in Requests : Follows(c, r)
  BY <1>0, <1>1 DEF ConnInv, RequestInv
<1>4. hs[c].bios = NoBios
  BY <1>0, <1>1 DEF ConnInv, ImageInv
<1>5. CASE FirstLine(c)
  <2> DEFINE f == IF Head(todo[c]) = "GET" THEN "page" ELSE "error500"
             h == [hs[c] EXCEPT !.gotfirst = TRUE, !.file = f, !.left = FileLen(f),
                                !.ispost = @ \/ Head(todo[c]) = "POST"]
  <2>1. /\ hs' = [hs EXCEPT ![c] = h]
        /\ UNCHANGED <<tcp, cb, queued, buffers, orphans, machine, flashed>>
    BY <1>5 DEF FirstLine, flashVars
  <2>2. h \in State
    <3>1. FileLen(f) \in 0 .. (PageLen + 1) /\ f \in Files
      BY WebConstants DEF FileLen, Files
    <3> HIDE DEF f
    <3> QED
      BY <1>1, <3>1 DEF State
  <2>3. /\ h.bios = NoBios /\ h.postlen = hs[c].postlen
        /\ h.ispost => hs[c].ispost \/ Head(todo[c]) = "POST"
    BY <1>1, <1>4 DEF State
  <2> HIDE DEF h
  <2>4. hs'[c] = h
    BY <2>1 DEF TypeOK
  <2>5. Follows(c, r)'
    BY <1>1, <1>3, <2>3, <2>4, FollowStep
  <2>6. RequestInv(c)' /\ ImageInv(c)'
    BY <1>0, <2>1, <2>3, <2>4, <2>5 DEF RequestInv, ImageInv
  <2> QED
    BY <1>0, <1>1, <1>2, <2>1, <2>2, <2>6, StaysOpen DEF TypeOK
<1>6. CASE BadFirstLine(c)
  <2>1. CloseConn(c, hs[c]) /\ queued' = queued
    BY <1>6 DEF BadFirstLine
  <2>2. Len(todo'[c]) <= Len(todo[c])
    BY <1>1
  <2> QED
    BY <1>0, <1>1, <1>2, <2>1, <2>2, Closes DEF TypeOK
<1>7. CASE HeaderLine(c)
  <2> DEFINE h == [hs[c] EXCEPT !.postlen = IF Head(todo[c]) = "length" THEN BodyPieces ELSE @]
  <2>1. /\ hs' = [hs EXCEPT ![c] = h]
        /\ UNCHANGED <<tcp, cb, queued, buffers, orphans, machine, flashed>>
    BY <1>7 DEF HeaderLine, flashVars
  <2>2. h \in State
    BY <1>1, WebConstants DEF State
  <2>3. /\ h.bios = NoBios /\ h.ispost = hs[c].ispost
        /\ h.postlen # 0 => hs[c].postlen # 0 \/ Head(todo[c]) = "length"
    BY <1>1, <1>4 DEF State
  <2> HIDE DEF h
  <2>4. hs'[c] = h
    BY <2>1 DEF TypeOK
  <2>5. Follows(c, r)'
    BY <1>1, <1>3, <2>3, <2>4, FollowStep
  <2>6. RequestInv(c)' /\ ImageInv(c)'
    BY <1>0, <2>1, <2>3, <2>4, <2>5 DEF RequestInv, ImageInv
  <2> QED
    BY <1>0, <1>1, <1>2, <2>1, <2>2, <2>6, StaysOpen DEF TypeOK
<1>8. CASE HeaderEndsPost(c)
  <2> DEFINE h == [hs[c] EXCEPT !.postpos = 0]
  <2>1. /\ hs' = [hs EXCEPT ![c] = h] /\ buffers' = buffers \cup {c}
        /\ Head(todo[c]) = "empty" /\ hs[c].ispost /\ hs[c].postlen # 0
        /\ UNCHANGED <<tcp, cb, queued, orphans, machine, flashed>>
    BY <1>8 DEF HeaderEndsPost, flashVars
  <2>2. h \in State
    <3>1. 0 \in 0 .. BodyPieces
      BY WebConstants
    <3> QED
      BY <1>1, <3>1 DEF State
  <2>3. h.bios = NoBios /\ h.postlen = BodyPieces /\ h.postpos = 0
    BY <1>1, <1>4, <2>1 DEF State
  <2> HIDE DEF h
  <2>4. hs'[c] = h /\ h # NoState
    BY <2>1, <2>2, StateIsNotNoState DEF TypeOK
  <2>5. Len(todo'[c]) <= BodyPieces
    BY <1>1, <1>3, <2>1, BodyFits
  <2>6. RequestInv(c)' /\ ImageInv(c)'
    <3>1. 0 + Len(todo'[c]) = Len(todo'[c])
      BY <1>1
    <3> QED
      BY <3>1, <2>1, <2>3, <2>4, <2>5 DEF RequestInv, ImageInv, HasState
  <2> QED
    BY <1>0, <1>1, <1>2, <2>1, <2>2, <2>6, StaysOpen DEF TypeOK
<1>9. CASE HeaderEndsGet(c)
  <2>1. StartResponse(c, hs[c]) /\ UNCHANGED <<tcp, buffers, orphans, machine, flashed>>
    BY <1>9 DEF HeaderEndsGet, flashVars
  <2>2. PICK n \in Sent(hs[c], queued[c]) :
          /\ hs' = [hs EXCEPT ![c] = [hs[c] EXCEPT !.left = @ - n, !.gotfirst = FALSE]]
          /\ queued' = [queued EXCEPT ![c] = @ + n]
    BY <2>1 DEF StartResponse
  <2>3. cb' = [cb EXCEPT ![c] = @ \cup {"poll", "sent"}]
    BY <2>1 DEF StartResponse
  <2> DEFINE h == [hs[c] EXCEPT !.left = @ - n, !.gotfirst = FALSE]
  <2>4. queued[c] \in 0 .. SndBuf
    BY DEF TypeOK
  <2>5. [hs[c] EXCEPT !.left = @ - n] \in State /\ queued[c] + n \in 0 .. SndBuf
    BY <1>1, <2>4, SentState
  <2>6. h \in State
    BY <1>1, <2>5 DEF State
  <2>7. h.bios = NoBios /\ h.ispost = hs[c].ispost /\ h.postlen = hs[c].postlen
    BY <1>1, <1>4 DEF State
  <2>8. hs' = [hs EXCEPT ![c] = h]
    BY <2>2
  <2> HIDE DEF h
  <2>9. hs'[c] = h
    BY <2>8 DEF TypeOK
  <2>10. Follows(c, r)'
    BY <1>1, <1>3, <2>7, <2>9, FollowStep
  <2>11. RequestInv(c)' /\ ImageInv(c)'
    BY <1>0, <2>1, <2>7, <2>9, <2>10 DEF RequestInv, ImageInv
  <2>12. /\ cb' \in [Conn -> SUBSET {"recv", "sent", "poll"}]
         /\ "recv" \in cb[c] => "recv" \in cb'[c]
         /\ \A d \in Conn \ {c} : cb'[d] = cb[d]
    BY <2>3 DEF TypeOK
  <2>13. queued' \in [Conn -> 0 .. SndBuf]
    BY <2>2, <2>5 DEF TypeOK
  <2> QED
    BY <1>0, <1>1, <1>2, <2>1, <2>6, <2>8, <2>11, <2>12, <2>13, StaysOpen
<1> QED
  BY <1>5, <1>6, <1>7, <1>8, <1>9

\* What handle_post takes for the image.
LEMMA ParsesType ==
    ASSUME NEW u \in [shape : Shapes, size : Sizes], NEW img \in Parses(u)
    PROVE  /\ img \in Bios
           /\ img.from = "upload" => img.len = u.size
<1>1. u.size \in Sizes /\ Sizes = 1 .. 2
  BY DEF Sizes
<1>2. img = NoBios \/ img = [len |-> u.size, from |-> "upload"]
        \/ \E n \in Sizes : img = [len |-> n, from |-> "garbage"]
  BY DEF Parses
<1>3. CASE img = NoBios
  BY <1>3, BiosFacts DEF NoBios
<1>4. CASE img = [len |-> u.size, from |-> "upload"]
  BY <1>1, <1>4 DEF Bios
<1>5. CASE \E n \in Sizes : img = [len |-> n, from |-> "garbage"]
  BY <1>1, <1>5 DEF Bios
<1> QED
  BY <1>2, <1>3, <1>4, <1>5

\* handle_post leaves a state, and an image only of the expected size.
LEMMA HandlePostType ==
    ASSUME NEW h \in State, NEW img \in Bios, h.postpos + 1 = h.postlen
    PROVE  /\ HandlePost(h, img) \in State
           /\ HandlePost(h, img).postpos = h.postlen
           /\ HandlePost(h, img).postlen = h.postlen
           /\ \/ HandlePost(h, img).bios = h.bios
              \/ HandlePost(h, img).bios = img /\ img.len = expected
<1> DEFINE f == IF img = NoBios THEN "error500" ELSE IF RightSize(img) THEN "ok" ELSE "bad"
           b == IF img # NoBios /\ RightSize(img) THEN img ELSE h.bios
<1>1. FileLen(f) \in 0 .. (PageLen + 1) /\ f \in Files
  BY WebConstants DEF FileLen, Files
<1>2. b \in Bios /\ (b = h.bios \/ (b = img /\ img.len = expected))
  BY DEF State, RightSize
<1>3. h.postpos + 1 \in 0 .. BodyPieces
  <2>1. h.postlen \in {0, BodyPieces} /\ h.postpos \in 0 .. BodyPieces
    BY DEF State
  <2> QED
    BY <2>1, WebConstants
<1>4. HandlePost(h, img) =
        [h EXCEPT !.postpos = @ + 1, !.file = f, !.left = FileLen(f), !.bios = b]
  BY DEF HandlePost, State
<1> HIDE DEF f, b
<1> QED
  BY <1>1, <1>2, <1>3, <1>4 DEF State

\* http_recv in the body.
LEMMA BodyStep ==
    ASSUME WInv, NEW c \in Conn, BodyPiece(c) \/ BodyEnd(c)
    PROVE  WInv'
<1> USE DEF WInv
<1>0. Piece(c) /\ c \in buffers
  BY DEF BodyPiece, BodyEnd, InBody
<1>1. /\ machine = "serving" /\ HasState(c) /\ hs[c] \in State /\ tcp[c] = "open"
      /\ todo[c] \in Seq(Pieces) /\ todo[c] # <<>> /\ Len(todo[c]) \in Nat \ {0}
      /\ todo' \in [Conn -> Seq(Pieces)] /\ todo'[c] = Tail(todo[c])
      /\ Len(todo'[c]) = Len(todo[c]) - 1
      /\ \A d \in Conn \ {c} : todo'[d] = todo[d]
      /\ order' \in Seq(Conn)
      /\ UNCHANGED <<bank, expected, connects>>
  BY <1>0, PieceFacts
<1>2. /\ hs[c].postlen = BodyPieces /\ hs[c].postpos + Len(todo[c]) <= BodyPieces
      /\ hs[c].postpos \in Nat
  BY <1>0, <1>1 DEF ConnInv, RequestInv, State
<1>3. hs[c].postpos + 1 + Len(todo'[c]) <= BodyPieces /\ hs[c].postpos # BodyPieces
      /\ hs[c].postpos + 1 <= BodyPieces
  BY <1>1, <1>2, WebConstants
<1>4. hs[c].bios = NoBios
  BY <1>1, <1>3 DEF ConnInv, ImageInv
<1>5. CASE BodyPiece(c)
  <2> DEFINE h == [hs[c] EXCEPT !.postpos = @ + 1]
  <2>1. /\ hs' = [hs EXCEPT ![c] = h]
        /\ UNCHANGED <<upload, tcp, cb, queued, buffers, orphans, machine, flashed>>
    BY <1>5 DEF BodyPiece, flashVars
  <2>2. h \in State
    <3>1. hs[c].postpos + 1 \in 0 .. BodyPieces
      BY <1>2, <1>3, WebConstants
    <3> QED
      BY <1>1, <3>1 DEF State
  <2>3. h.bios = NoBios /\ h.postpos = hs[c].postpos + 1 /\ h.postlen = BodyPieces
    BY <1>1, <1>2, <1>4 DEF State
  <2> HIDE DEF h
  <2>4. hs'[c] = h /\ h # NoState
    BY <2>1, <2>2, StateIsNotNoState DEF TypeOK
  <2>5. RequestInv(c)' /\ ImageInv(c)'
    BY <1>0, <1>3, <2>1, <2>3, <2>4 DEF RequestInv, ImageInv, HasState
  <2>6. ClientType'
    BY <1>1, <2>1 DEF ClientType
  <2> QED
    BY <1>1, <2>1, <2>2, <2>5, <2>6, StaysOpen DEF TypeOK
<1>6. CASE BodyEnd(c)
  <2>1. PICK u \in [shape : Shapes, size : Sizes] :
          /\ upload' = [upload EXCEPT ![c] = u]
          /\ \E img \in Parses(u) : StartResponse(c, HandlePost(hs[c], img))
    BY <1>6 DEF BodyEnd
  <2>2. PICK img \in Parses(u) : StartResponse(c, HandlePost(hs[c], img))
    BY <2>1
  <2>3. /\ hs[c].postpos + 1 = hs[c].postlen
        /\ UNCHANGED <<tcp, buffers, orphans, machine, flashed>>
    BY <1>6 DEF BodyEnd, BodyComplete, flashVars
  <2> DEFINE g == HandlePost(hs[c], img)
  <2>4. img \in Bios /\ (img.from = "upload" => img.len = u.size)
    BY ParsesType
  <2>5. /\ g \in State /\ g.postpos = BodyPieces /\ g.postlen = BodyPieces
        /\ g.bios = NoBios \/ (g.bios = img /\ img.len = expected)
    BY <1>1, <1>2, <1>4, <2>3, <2>4, HandlePostType
  <2>6. StartResponse(c, g)
    BY <2>2
  <2> HIDE DEF g
  <2>7. PICK n \in Sent(g, queued[c]) :
          /\ hs' = [hs EXCEPT ![c] = [g EXCEPT !.left = @ - n, !.gotfirst = FALSE]]
          /\ queued' = [queued EXCEPT ![c] = @ + n]
    BY <2>6 DEF StartResponse
  <2>8. cb' = [cb EXCEPT ![c] = @ \cup {"poll", "sent"}]
    BY <2>6 DEF StartResponse
  <2> DEFINE h == [g EXCEPT !.left = @ - n, !.gotfirst = FALSE]
  <2>9. queued[c] \in 0 .. SndBuf
    BY DEF TypeOK
  <2>10. [g EXCEPT !.left = @ - n] \in State /\ queued[c] + n \in 0 .. SndBuf
    BY <2>5, <2>9, SentState
  <2>11. h \in State
    BY <2>5, <2>10 DEF State
  <2>12. h.bios = g.bios /\ h.postpos = BodyPieces /\ h.postlen = BodyPieces
    BY <2>5 DEF State
  <2>13. hs' = [hs EXCEPT ![c] = h]
    BY <2>7
  <2> HIDE DEF h
  <2>14. hs'[c] = h /\ h # NoState
    BY <2>11, <2>13, StateIsNotNoState DEF TypeOK
  <2>15. /\ upload'[c] = u /\ \A d \in Conn \ {c} : upload'[d] = upload[d]
         /\ upload' \in [Conn -> [shape : Shapes \cup {"none"}, size : 0 .. 2]]
    BY <2>1 DEF ClientType, Sizes
  <2>16. Len(todo'[c]) = 0
    <3>1. \A m, k, p \in Nat : k # 0 /\ p + k <= m /\ p + 1 = m => k - 1 = 0
      OBVIOUS
    <3>2. BodyPieces \in Nat /\ hs[c].postpos + 1 = BodyPieces
      BY <1>2, <2>3, WebConstants
    <3> QED
      BY <1>1, <1>2, <3>1, <3>2
  <2>17. RequestInv(c)'
    <3>1. BodyPieces + Len(todo'[c]) <= BodyPieces
      BY <2>16, WebConstants
    <3> QED
      BY <3>1, <1>0, <2>3, <2>12, <2>14 DEF RequestInv, HasState
  <2>18. ImageInv(c)'
    BY <1>0, <1>1, <2>3, <2>4, <2>5, <2>12, <2>14, <2>15 DEF ImageInv, HasState
  <2>19. ClientType'
    BY <1>1, <2>15 DEF ClientType
  <2>20. /\ cb' \in [Conn -> SUBSET {"recv", "sent", "poll"}]
         /\ "recv" \in cb[c] => "recv" \in cb'[c]
         /\ \A d \in Conn \ {c} : cb'[d] = cb[d]
    BY <2>8 DEF TypeOK
  <2>21. queued' \in [Conn -> 0 .. SndBuf]
    BY <2>7, <2>10 DEF TypeOK
  <2> QED
    BY <1>1, <2>3, <2>11, <2>13, <2>15, <2>17, <2>18, <2>19, <2>20, <2>21, StaysOpen
<1> QED
  BY <1>5, <1>6

\* http_recv at the peer's FIN.
LEMMA FinStep ==
    ASSUME WInv, NEW c \in Conn, Fin(c)
    PROVE  WInv'
<1> USE DEF WInv
<1>1. /\ machine = "serving" /\ "recv" \in cb[c] /\ todo' = [todo EXCEPT ![c] = <<>>]
      /\ order' = Touch(c) /\ CloseConn(c, hs[c])
      /\ UNCHANGED <<bank, expected, queued, upload, connects>>
  BY DEF Fin
<1>2. HasState(c)
  BY <1>1 DEF ConnInv, CallbackInv
<1>3. hs[c] \in State
  BY <1>2 DEF HasState, TypeOK
<1>4. order' \in Seq(Conn) /\ queued' \in [Conn -> 0 .. SndBuf]
  BY <1>1, ListType DEF TypeOK
<1>5. todo[c] \in Seq(Pieces) /\ <<>> \in Seq(Pieces) /\ Len(<<>>) = 0
  BY DEF ClientType
<1>6. ClientType'
  BY <1>1, <1>5 DEF ClientType
<1>7. /\ \A d \in Conn \ {c} : todo'[d] = todo[d]
      /\ Len(todo'[c]) <= Len(todo[c])
  BY <1>1, <1>5 DEF ClientType
<1> QED
  BY <1>1, <1>2, <1>3, <1>4, <1>6, <1>7, Closes

\* More of the response goes out, with nothing else changed but the counter.
LEMMA SendsMore ==
    ASSUME WInv, machine = "serving", NEW c \in Conn, HasState(c), NEW h \in State,
           h.bios = hs[c].bios, h.postpos = hs[c].postpos, h.postlen = hs[c].postlen,
           h.ispost = hs[c].ispost,
           NEW q \in 0 .. SndBuf, NEW k \in Sent(h, q),
           hs' = [hs EXCEPT ![c] = [h EXCEPT !.left = @ - k]],
           queued' = [queued EXCEPT ![c] = q + k], order' \in Seq(Conn),
           UNCHANGED <<bank, expected, todo, upload, connects, tcp, cb, buffers, orphans, machine, flashed>>
    PROVE  WInv'
<1> USE DEF WInv
<1> DEFINE g == [h EXCEPT !.left = @ - k]
<1>1. g \in State /\ q + k \in 0 .. SndBuf
  BY SentState
<1>2. /\ g.bios = hs[c].bios /\ g.postpos = hs[c].postpos
      /\ g.postlen = hs[c].postlen /\ g.ispost = hs[c].ispost
  BY DEF State
<1> HIDE DEF g
<1>3. hs' = [hs EXCEPT ![c] = g] /\ hs'[c] = g /\ g # NoState
  BY <1>1, StateIsNotNoState DEF TypeOK, g
<1>4. queued' \in [Conn -> 0 .. SndBuf]
  BY <1>1 DEF TypeOK
<1>5. ImageInv(c)'
  BY <1>2, <1>3 DEF ConnInv, ImageInv, HasState
<1>6. RequestInv(c)'
  <2>1. ASSUME NEW r \in Requests, Follows(c, r) PROVE Follows(c, r)'
    BY <2>1, <1>2, <1>3 DEF Follows, Seen
  <2> QED
    BY <2>1, <1>2, <1>3 DEF ConnInv, RequestInv, HasState
<1>7. ClientType'
  BY DEF ClientType
<1> QED
  BY <1>1, <1>3, <1>4, <1>5, <1>6, <1>7, StaysOpen DEF TypeOK

\* http_sent, or an acknowledgement that finds no callback.
LEMMA AckStep ==
    ASSUME WInv, NEW c \in Conn, Ack(c)
    PROVE  WInv'
<1> USE DEF WInv
<1>1. /\ machine = "serving" /\ order' = Touch(c)
      /\ UNCHANGED <<bank, expected, todo, upload, connects>>
  BY DEF Ack, clientVars
<1>2. order' \in Seq(Conn) /\ ClientType'
  BY <1>1, ListType DEF TypeOK, ClientType
<1> DEFINE h == [hs[c] EXCEPT !.retries = 0]
           Unseen(q) == /\ "sent" \notin cb[c]
                        /\ queued' = [queued EXCEPT ![c] = q]
                        /\ UNCHANGED <<tcp, cb, hs, buffers, orphans, flashVars>>
           More(q) == /\ "sent" \in cb[c]
                      /\ \E k \in Sent(h, q) :
                           /\ hs' = [hs EXCEPT ![c] = [h EXCEPT !.left = @ - k]]
                           /\ queued' = [queued EXCEPT ![c] = q + k]
                      /\ UNCHANGED <<tcp, cb, buffers, orphans, flashVars>>
           All(q) == /\ "sent" \in cb[c]
                     /\ queued' = [queued EXCEPT ![c] = q]
                     /\ CloseConn(c, h)
<1>3. PICK n \in 1 .. queued[c] :
        Unseen(queued[c] - n) \/ More(queued[c] - n) \/ All(queued[c] - n)
  BY DEF Ack
<1> DEFINE q == queued[c] - n
<1>4. q \in 0 .. SndBuf /\ queued[c] \in 0 .. SndBuf
  BY WebConstants DEF TypeOK
<1>5. Unseen(q) \/ More(q) \/ All(q)
  BY <1>3
<1> HIDE DEF q
<1>6. CASE Unseen(q)
  <2>1. queued' \in [Conn -> 0 .. SndBuf]
    BY <1>4, <1>6 DEF TypeOK
  <2>2. TypeOK' /\ Alone(c) /\ FlashInv'
    BY <1>1, <1>2, <1>6, <2>1 DEF TypeOK, Alone, FlashInv, flashVars
  <2>3. ConnInv(c)'
    <3>1. /\ tcp' = tcp /\ hs' = hs /\ cb' = cb /\ todo' = todo /\ upload' = upload
          /\ buffers' = buffers /\ expected' = expected
      BY <1>1, <1>6
    <3> QED
      BY <1>1, <3>1, SameConnection
  <2> QED
    BY <1>1, <1>2, <2>2, <2>3, OneConnection
<1>7. ASSUME "sent" \in cb[c]
      PROVE  /\ HasState(c) /\ h \in State /\ h.bios = hs[c].bios /\ h.postpos = hs[c].postpos
             /\ h.postlen = hs[c].postlen /\ h.ispost = hs[c].ispost
  <2>1. HasState(c)
    BY <1>1, <1>7 DEF ConnInv, CallbackInv
  <2>2. hs[c] \in State
    BY <2>1 DEF HasState, TypeOK
  <2> QED
    BY <2>1, <2>2 DEF State
<1> HIDE DEF h
<1>8. CASE More(q)
  <2>1. PICK k \in Sent(h, q) :
          /\ hs' = [hs EXCEPT ![c] = [h EXCEPT !.left = @ - k]]
          /\ queued' = [queued EXCEPT ![c] = q + k]
    BY <1>8
  <2> QED
    BY <1>1, <1>2, <1>4, <1>7, <1>8, <2>1, SendsMore DEF flashVars
<1>9. CASE All(q)
  <2>1. queued' \in [Conn -> 0 .. SndBuf]
    BY <1>4, <1>9 DEF TypeOK
  <2>2. Len(todo'[c]) <= Len(todo[c])
    <3>1. Len(todo[c]) \in Nat /\ todo' = todo
      BY <1>1 DEF ClientType
    <3> QED
      BY <3>1
  <2> QED
    BY <1>1, <1>2, <1>7, <1>9, <2>1, <2>2, Closes
<1> QED
  BY <1>5, <1>6, <1>8, <1>9

\* http_poll.
LEMMA PollStep ==
    ASSUME WInv, NEW c \in Conn, Poll(c)
    PROVE  WInv'
<1> USE DEF WInv
<1> DEFINE h == Retried(hs[c])
<1>1. /\ machine = "serving" /\ HasState(c)
      /\ UNCHANGED <<bank, expected, connects, flashVars>>
      /\ \/ /\ PollLimit(h) /\ ConnErr(c)
            /\ tcp' = [tcp EXCEPT ![c] = "free"] /\ order' = Forget(c)
            /\ cb' = [cb EXCEPT ![c] = {}] /\ queued' = [queued EXCEPT ![c] = 0]
         \/ /\ ~PollLimit(h)
            /\ \E k \in Sent(h, queued[c]) :
                 /\ hs' = [hs EXCEPT ![c] = [h EXCEPT !.left = @ - k]]
                 /\ queued' = [queued EXCEPT ![c] = @ + k]
            /\ UNCHANGED <<tcp, order, cb, todo, upload, buffers, orphans>>
  BY DEF Poll, HasState
<1>2. CASE PollLimit(h)
  <2>1. /\ ConnErr(c) /\ tcp' = [tcp EXCEPT ![c] = "free"] /\ order' = Forget(c)
        /\ cb' = [cb EXCEPT ![c] = {}] /\ queued' = [queued EXCEPT ![c] = 0]
    BY <1>1, <1>2
  <2>2. order' \in Seq(Conn) /\ connects' \in 0 .. MaxConnects
    BY <1>1, <2>1, ListType DEF TypeOK
  <2> QED
    BY <1>1, <2>1, <2>2, Dropped
<1>3. CASE ~PollLimit(h)
  <2>1. PICK k \in Sent(h, queued[c]) :
          /\ hs' = [hs EXCEPT ![c] = [h EXCEPT !.left = @ - k]]
          /\ queued' = [queued EXCEPT ![c] = queued[c] + k]
    BY <1>1, <1>3
  <2>2. hs[c] \in State
    BY <1>1 DEF HasState, TypeOK
  <2>3. /\ h \in State /\ h.bios = hs[c].bios /\ h.postpos = hs[c].postpos
        /\ h.postlen = hs[c].postlen /\ h.ispost = hs[c].ispost
    <3>1. hs[c].retries \in 0 .. 3 /\ hs[c].retries + 1 # 4
      BY <2>2, <1>3 DEF State, PollLimit, Retried
    <3>2. hs[c].retries + 1 \in 0 .. 3
      BY <3>1
    <3> QED
      BY <2>2, <3>2 DEF State, Retried
  <2> HIDE DEF h
  <2>4. queued[c] \in 0 .. SndBuf
    BY DEF TypeOK
  <2>5. order' \in Seq(Conn)
    BY <1>1, <1>3 DEF TypeOK
  <2> QED
    BY <1>1, <1>3, <2>1, <2>3, <2>4, <2>5, SendsMore DEF flashVars
<1> QED
  BY <1>2, <1>3

\* Init establishes the invariant.
LEMMA WebInit == Init => WInv
<1> SUFFICES ASSUME Init PROVE WInv
  OBVIOUS
<1>1. TypeOK
  <2>1. expected \in Sizes /\ 0 \in 0 .. SndBuf /\ 0 \in 0 .. MaxConnects /\ order \in Seq(Conn)
    BY WebConstants DEF Init, Sizes
  <2> QED
    BY <2>1, BiosFacts DEF Init, TypeOK
<1>2. ClientType
  <2>1. <<>> \in Seq(Pieces) /\ NoUpload \in [shape : Shapes \cup {"none"}, size : 0 .. 2]
    BY DEF NoUpload
  <2> QED
    BY <2>1 DEF Init, ClientType
<1>3. expected = BankSize[bank] /\ FlashInv
  BY DEF Init, BankSize, FlashInv
<1>4. \A c \in Conn : ConnInv(c)
  BY DEF Init, ConnInv, CallbackInv, RequestInv, ImageInv, HasState
<1> QED
  BY <1>1, <1>2, <1>3, <1>4 DEF WInv

\* Every step keeps the invariant.
LEMMA WebNext == WInv /\ [Next]_vars => WInv'
<1> SUFFICES ASSUME WInv, [Next]_vars PROVE WInv'
  OBVIOUS
<1>1. ASSUME NEW c \in Conn, Stack(c) \/ Recv(c) \/ Ack(c) \/ Poll(c) PROVE WInv'
  BY <1>1, StackStep, LineStep, BodyStep, FinStep, AckStep, PollStep DEF Recv
<1>2. CASE FlashReturns \/ UNCHANGED vars
  <2>1. /\ machine' \in {"serving", "flashing", "halted"}
        /\ machine' = "serving" <=> machine = "serving"
        /\ UNCHANGED <<bank, expected, tcp, order, cb, queued, hs, todo, upload, connects, buffers, orphans, flashed>>
    BY <1>2 DEF FlashReturns, vars, tcpVars, clientVars, flashVars, WInv, TypeOK
  <2>2. TypeOK' /\ ClientType' /\ (expected = BankSize[bank])' /\ FlashInv'
    BY <2>1 DEF WInv, TypeOK, ClientType, FlashInv, HasState
  <2>3. ASSUME NEW c \in Conn PROVE ConnInv(c)'
    BY <2>1, SameConnection DEF WInv
  <2> QED
    BY <2>2, <2>3 DEF WInv
<1> QED
  BY <1>1, <1>2 DEF Next

-----------------------------------------------------------------------------
\* The inductive invariant holds throughout.
THEOREM WebInvariance == Spec => []WInv
  BY WebInit, WebNext, PTL DEF Spec

\* Every field keeps its type: the send buffer is not overfilled, a body does
\* not outgrow its buffer and the poll counter stays below its limit.
THEOREM WebTypeCorrect == Spec => []TypeOK
<1>1. WInv => TypeOK
  BY DEF WInv
<1> QED
  BY <1>1, WebInvariance, PTL

\* No callback runs on a freed state and no state is left behind.
THEOREM WebStateIffReceiving == Spec => []StateIffReceiving
<1>1. WInv => StateIffReceiving
  BY DEF WInv, ConnInv, CallbackInv, HasState, StateIffReceiving
<1> QED
  BY <1>1, WebInvariance, PTL

\* An upload buffer belongs to a state that will free it.
THEOREM WebBuffersOwned == Spec => []BuffersOwned
<1>1. WInv => BuffersOwned
  BY DEF WInv, TypeOK, ConnInv, RequestInv, HasState, BuffersOwned
<1> QED
  BY <1>1, WebInvariance, PTL

\* What is flashed fits the bank, is complete, and is the uploaded file.
THEOREM WebFlashFitsBank == Spec => []FlashFitsBank
<1>1. WInv => FlashFitsBank
  <2> SUFFICES ASSUME WInv, machine # "serving"
               PROVE  /\ flashed.len = BankSize[bank]
                      /\ \E c \in Conn :
                            /\ hs[c] # NoState
                            /\ hs[c].bios = flashed
                            /\ hs[c].postpos = hs[c].postlen
                            /\ flashed.from = "upload" => upload[c].size = flashed.len
    BY DEF FlashFitsBank
  <2>1. PICK c \in Conn : HasState(c) /\ hs[c].bios = flashed /\ flashed # NoBios
    BY DEF WInv, FlashInv
  <2> QED
    BY <2>1 DEF WInv, ConnInv, ImageInv, RequestInv, HasState
<1> QED
  BY <1>1, WebInvariance, PTL

\* The buffer of an accepted image is allocated until the image is flashed.
THEOREM WebImageStaysAllocated == Spec => []ImageStaysAllocated
<1>1. WInv => ImageStaysAllocated
  <2> SUFFICES ASSUME WInv PROVE ImageStaysAllocated
    OBVIOUS
  <2>1. \A c \in Conn : hs[c] # NoState /\ hs[c].bios # NoBios => c \in buffers
    BY DEF WInv, ConnInv, ImageInv, HasState
  <2>2. ASSUME machine # "serving" PROVE \E c \in buffers : hs[c].bios = flashed
    BY <2>1, <2>2 DEF WInv, FlashInv, HasState
  <2> QED
    BY <2>1, <2>2 DEF ImageStaysAllocated
<1> QED
  BY <1>1, WebInvariance, PTL
=============================================================================

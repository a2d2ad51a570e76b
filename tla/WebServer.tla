------------------------------ MODULE WebServer ------------------------------
(***************************************************************************)
(* The web server that takes a BIOS image over the network and flashes it: *)
(* lwip/webserver.c, started by the Network* entries of the flash menu     *)
(* (menu/actions/FlashMenuActions.c), which choose the flash bank and the  *)
(* size an image must have.                                                *)
(*                                                                         *)
(* The server is a set of callbacks that the TCP stack runs one at a time. *)
(* The stack is modelled by the events it can deliver to them: a received  *)
(* piece of the request, the peer's FIN, an acknowledgement, the poll      *)
(* timer, an error, and a new connection that takes the PCB of an old one  *)
(* when all are in use.  The arena of flash content and the flashing       *)
(* itself are BootFlash's business; here BootReflashAndReset either never  *)
(* returns or returns and the server halts.                                *)
(*                                                                         *)
(* A request is a sequence of pieces: its lines, then pieces of its body.  *)
(* A body is told apart by what handle_post can find in it.  Clients send  *)
(* no more body than they announced.                                       *)
(***************************************************************************)
EXTENDS Integers, Sequences, FiniteSets, SequencesExt

CONSTANTS
    Conn,           \* the PCBs: MEMP_NUM_TCP_PCB of them
    Requests,       \* what clients send: sequences of pieces
    Shapes,         \* shapes of a body
    SndBuf,         \* TCP_SND_BUF, in units of response data
    PageLen,        \* length of the page of http_files that takes longest
    BodyPieces,     \* Content-Length, in pieces of the body
    MaxConnects     \* bound: connection requests in a behaviour

ASSUME WebAssumption ==
    /\ IsFiniteSet(Conn)
    /\ Requests \subseteq Seq({"GET", "POST", "length", "empty", "other", "body"})
    /\ Shapes \subseteq {"multipart", "nonewline", "nostart", "noend"}
    /\ SndBuf \in Nat \ {0}
    /\ PageLen \in Nat \ {0}
    /\ BodyPieces \in Nat \ {0}
    /\ MaxConnects \in Nat

\* What follows the empty line of a POST with a length is at most its body.
ASSUME BodyAssumption ==
    \A r \in Requests : \A i, j, k \in 1 .. Len(r) :
        r[i] = "POST" /\ r[j] = "length" /\ r[k] = "empty" /\ i < k /\ j < k
            => Len(r) - k <= BodyPieces

\* The three banks of the flash and how much fits in them, in units of 256 KB.
Banks == {"os", "user256", "user512"}
BankSize == [b \in Banks |-> IF b = "user512" THEN 2 ELSE 1]
Sizes == 1 .. 2

\* http_files: what GET can ask for (0..2, and 404), x3OK, x3BAD, Error 500.
Files == {"page", "ok", "bad", "error500"}
FileLen(f) == IF f = "page" THEN PageLen ELSE 1

NoState == [none |-> TRUE]
NoUpload == [shape |-> "none", size |-> 0]
NoBios == [len |-> 0, from |-> "nothing"]

VARIABLES
    bank,       \* the bank port 0x1912 was switched to
    expected,   \* GlobalExpectedFlashFileSize
    tcp,        \* the stack's view: "free", "syn", "open", "closing", "timewait"
    order,      \* tcp_active_pcbs, the connection heard of last at the front
    hs,         \* struct http_state of a connection, or NoState
    cb,         \* the callbacks that are registered: "recv", "sent", "poll"
    queued,     \* response data in the send buffer
    todo,       \* what the client has still to send
    upload,     \* the body the client has sent: [shape, size]
    buffers,    \* connections whose postdata is allocated on the heap
    orphans,    \* upload buffers nobody points to any more
    machine,    \* "serving", "flashing" or "halted"
    flashed,    \* the image given to BootReflashAndReset
    connects    \* connection requests so far

tcpVars == <<tcp, order, cb, queued>>
clientVars == <<todo, upload, connects>>
flashVars == <<machine, flashed>>
vars == <<bank, expected, tcpVars, hs, clientVars, buffers, orphans, flashVars>>

\* TCP_RMV and TCP_REG on tcp_active_pcbs.
Forget(c) == RemoveFirst(order, c)
Touch(c) == <<c>> \o Forget(c)

-----------------------------------------------------------------------------
\* NetworkFlashBios, NetworkFlashBios2 or NetworkUpdate, then httpd_init.
Init ==
    /\ bank \in Banks
    /\ expected = IF bank = "user512" THEN 2 ELSE 1
    /\ tcp = [c \in Conn |-> "free"]
    /\ order = <<>>
    /\ hs = [c \in Conn |-> NoState]
    /\ cb = [c \in Conn |-> {}]
    /\ queued = [c \in Conn |-> 0]
    /\ todo = [c \in Conn |-> <<>>]
    /\ upload = [c \in Conn |-> NoUpload]
    /\ buffers = {}
    /\ orphans = 0
    /\ machine = "serving"
    /\ flashed = NoBios
    /\ connects = 0

\* The client is gone; what it had still to send goes nowhere.
Gone(c) ==
    /\ todo' = [todo EXCEPT ![c] = <<>>]
    /\ upload' = [upload EXCEPT ![c] = NoUpload]

\* conn_err: the state is freed, the upload buffer it points to is not.
ConnErr(c) ==
    /\ hs' = [hs EXCEPT ![c] = NoState]
    /\ buffers' = buffers \ {c}
    /\ orphans' = orphans + IF c \in buffers THEN 1 ELSE 0
    /\ Gone(c)

\* Mutant: the callbacks stay registered.
Registered(c) == UNCHANGED cb

\* tcp_sent(pcb, NULL), tcp_recv(pcb, NULL); http_poll stays.
Unregister(c) == cb' = [cb EXCEPT ![c] = @ \ {"recv", "sent"}]

\* Mutant: the upload buffer is not freed.
KeepBuffer(c) == UNCHANGED buffers

\* free (hs->postdata)
FreeBuffer(c) == buffers' = buffers \ {c}

HasImage(h) == h.bios # NoBios

\* Mutant: the upload buffer is freed before the image in it is flashed.
CloseConnFreesFirst(c, h) ==
    /\ Unregister(c)
    /\ FreeBuffer(c)
    /\ \/ /\ HasImage(h)
          /\ machine' = "flashing"
          /\ flashed' = h.bios
          /\ hs' = [hs EXCEPT ![c] = h]
          /\ UNCHANGED <<tcp, orphans>>
       \/ /\ ~HasImage(h)
          /\ hs' = [hs EXCEPT ![c] = NoState]
          /\ tcp' = [tcp EXCEPT ![c] = "closing"]
          /\ UNCHANGED <<machine, flashed, orphans>>

\* close_conn, for a connection whose state is now h: the callbacks go first;
\* an image that was accepted is flashed and nothing after that is reached.
CloseConn(c, h) ==
    /\ Unregister(c)
    /\ \/ /\ HasImage(h)
          /\ machine' = "flashing"
          /\ flashed' = h.bios
          /\ hs' = [hs EXCEPT ![c] = h]
          /\ UNCHANGED <<tcp, buffers, orphans>>
       \/ /\ ~HasImage(h)
          /\ FreeBuffer(c)
          /\ hs' = [hs EXCEPT ![c] = NoState]
          /\ tcp' = [tcp EXCEPT ![c] = "closing"]
          /\ UNCHANGED <<machine, flashed, orphans>>

\* The lengths send_data tries: it halves the length while tcp_write has no
\* memory, and does not try again once it is down to one.
Tried(len) == {len} \cup {k \in 2 .. len : \E e \in 1 .. 8 : k = len \div (2 ^ e)}

\* send_data.  Nothing is queued if every attempt fails.
Sent(h, q) ==
    LET room == SndBuf - q
        len == IF room < h.left THEN room ELSE h.left
    IN  {0} \cup Tried(len)

\* send_data, tcp_poll, tcp_sent, gotfirst = 0: the response is on its way.
StartResponse(c, h) ==
    /\ \E n \in Sent(h, queued[c]) :
          /\ hs' = [hs EXCEPT ![c] = [h EXCEPT !.left = @ - n, !.gotfirst = FALSE]]
          /\ queued' = [queued EXCEPT ![c] = @ + n]
    /\ cb' = [cb EXCEPT ![c] = @ \cup {"poll", "sent"}]

-----------------------------------------------------------------------------
(* Connections come and go *)

\* http_accept's initial state.
NewState ==
    [file |-> "none", left |-> 0, retries |-> 0, gotfirst |-> FALSE,
     ispost |-> FALSE, postlen |-> 0, postpos |-> 0, bios |-> NoBios]

\* tcp_listen_input: a SYN takes a free PCB.
Syn(c) ==
    /\ machine = "serving"
    /\ connects < MaxConnects
    /\ tcp[c] = "free"
    /\ tcp' = [tcp EXCEPT ![c] = "syn"]
    /\ order' = Touch(c)
    /\ connects' = connects + 1
    /\ UNCHANGED <<bank, expected, hs, cb, queued, todo, upload, buffers, orphans, flashVars>>

\* tcp_kill_prio: connections that http_accept has given the lowest priority go
\* before those still in the handshake, the one silent for longest first.
KillPrio ==
    LET accepted == SelectSeq(order, LAMBDA d : tcp[d] # "syn")
    IN  Last(IF accepted = <<>> THEN order ELSE accepted)

\* The PCB tcp_alloc takes away when none is free: one in TIME-WAIT before any
\* that is active.
Victim(c) ==
    /\ \A d \in Conn : tcp[d] # "free"
    /\ \/ tcp[c] = "timewait"
       \/ (\A d \in Conn : tcp[d] # "timewait") /\ c = KillPrio

\* A SYN that finds no free PCB: tcp_abort runs the victim's conn_err.
SynKills(c) ==
    /\ machine = "serving"
    /\ connects < MaxConnects
    /\ Victim(c)
    /\ ConnErr(c)
    /\ tcp' = [tcp EXCEPT ![c] = "syn"]
    /\ order' = Touch(c)
    /\ cb' = [cb EXCEPT ![c] = {}]
    /\ queued' = [queued EXCEPT ![c] = 0]
    /\ connects' = connects + 1
    /\ UNCHANGED <<bank, expected, flashVars>>

\* http_accept, when the handshake completes.
Accept(c) ==
    /\ machine = "serving"
    /\ tcp[c] = "syn"
    /\ tcp' = [tcp EXCEPT ![c] = "open"]
    /\ order' = Touch(c)
    /\ hs' = [hs EXCEPT ![c] = NewState]
    /\ cb' = [cb EXCEPT ![c] = {"recv"}]
    /\ \E r \in Requests : todo' = [todo EXCEPT ![c] = r]
    /\ UNCHANGED <<bank, expected, queued, upload, buffers, orphans, flashVars, connects>>

\* mem_malloc has no memory for the state, or the handshake times out.
AcceptFails(c) ==
    /\ machine = "serving"
    /\ tcp[c] = "syn"
    /\ tcp' = [tcp EXCEPT ![c] = "free"]
    /\ order' = Forget(c)
    /\ UNCHANGED <<bank, expected, hs, cb, queued, clientVars, buffers, orphans, flashVars>>

\* The peer resets the connection, or the stack gives up retransmitting.
Reset(c) ==
    /\ machine = "serving"
    /\ tcp[c] \in {"open", "closing"}
    /\ ConnErr(c)
    /\ tcp' = [tcp EXCEPT ![c] = "free"]
    /\ order' = Forget(c)
    /\ cb' = [cb EXCEPT ![c] = {}]
    /\ queued' = [queued EXCEPT ![c] = 0]
    /\ UNCHANGED <<bank, expected, connects, flashVars>>

\* The closing handshake ends, at once or through TIME-WAIT.
Closed(c) ==
    /\ machine = "serving"
    /\ tcp[c] \in {"closing", "timewait"}
    /\ \E s \in {"free", "timewait"} :
          /\ tcp[c] = "timewait" => s = "free"
          /\ queued[c] = 0
          /\ tcp' = [tcp EXCEPT ![c] = s]
    /\ order' = Forget(c)
    /\ cb' = [cb EXCEPT ![c] = {}]
    /\ Gone(c)
    /\ UNCHANGED <<bank, expected, hs, queued, connects, buffers, orphans, flashVars>>

-----------------------------------------------------------------------------
(* http_recv *)

\* The next piece of the request arrives at a connection that is not in the
\* body yet (line) or is in it (body).
Piece(c) ==
    /\ machine = "serving"
    /\ "recv" \in cb[c]
    /\ todo[c] # <<>>
    /\ todo' = [todo EXCEPT ![c] = Tail(@)]
    /\ order' = Touch(c)
    /\ UNCHANGED <<bank, expected, connects>>

Line(c) == Piece(c) /\ c \notin buffers /\ UNCHANGED upload
InBody(c) == Piece(c) /\ c \in buffers

\* handle_line, the first line of a request.
FirstLine(c) ==
    /\ Line(c)
    /\ ~hs[c].gotfirst
    /\ Head(todo[c]) \in {"GET", "POST"}
    /\ LET f == IF Head(todo[c]) = "GET" THEN "page" ELSE "error500" IN
       hs' = [hs EXCEPT ![c].gotfirst = TRUE, ![c].file = f, ![c].left = FileLen(f),
                        ![c].ispost = @ \/ Head(todo[c]) = "POST"]
    /\ UNCHANGED <<tcp, cb, queued, buffers, orphans, flashVars>>

\* Any other first line, an empty one included, closes the connection.
BadFirstLine(c) ==
    /\ Line(c)
    /\ ~hs[c].gotfirst
    /\ Head(todo[c]) \notin {"GET", "POST"}
    /\ CloseConn(c, hs[c])
    /\ UNCHANGED queued

\* "Content-Length:"; other header lines change nothing.
HeaderLine(c) ==
    /\ Line(c)
    /\ hs[c].gotfirst
    /\ Head(todo[c]) # "empty"
    /\ hs' = [hs EXCEPT ![c].postlen =
                IF Head(todo[c]) = "length" THEN BodyPieces ELSE @]
    /\ UNCHANGED <<tcp, cb, queued, buffers, orphans, flashVars>>

\* The empty line before a body: malloc never returns NULL.
HeaderEndsPost(c) ==
    /\ Line(c)
    /\ hs[c].gotfirst
    /\ Head(todo[c]) = "empty"
    /\ hs[c].ispost /\ hs[c].postlen # 0
    /\ buffers' = buffers \cup {c}
    /\ hs' = [hs EXCEPT ![c].postpos = 0]
    /\ UNCHANGED <<tcp, cb, queued, orphans, flashVars>>

\* The empty line of a request without a body.
HeaderEndsGet(c) ==
    /\ Line(c)
    /\ hs[c].gotfirst
    /\ Head(todo[c]) = "empty"
    /\ ~(hs[c].ispost /\ hs[c].postlen # 0)
    /\ StartResponse(c, hs[c])
    /\ UNCHANGED <<tcp, buffers, orphans, flashVars>>

\* hs->postpos == hs->postlen, after the piece is stored.
BodyComplete(h) == h.postpos + 1 = h.postlen

\* A piece of the body.
BodyPiece(c) ==
    /\ InBody(c)
    /\ ~BodyComplete(hs[c])
    /\ UNCHANGED upload
    /\ hs' = [hs EXCEPT ![c].postpos = @ + 1]
    /\ UNCHANGED <<tcp, cb, queued, buffers, orphans, flashVars>>

\* What handle_post makes of a body: how far it gets and what it takes for the
\* image.  `start' and `end' are not initialised, so that without the mark they
\* are searched for they can be anything: NULL, or a distance apart that is or
\* is not the expected size.
Parses(u) ==
    CASE u.shape = "nonewline" -> {NoBios}
      [] u.shape = "multipart" -> {[len |-> u.size, from |-> "upload"]}
      [] OTHER -> {NoBios} \cup {[len |-> n, from |-> "garbage"] : n \in Sizes}

\* Mutant: the size of the upload is not compared.
AnySize(img) == img # NoBios

\* len != GlobalExpectedFlashFileSize
RightSize(img) == img.len = expected

\* handle_post.
HandlePost(h, img) ==
    LET f == IF img = NoBios THEN "error500" ELSE IF RightSize(img) THEN "ok" ELSE "bad"
    IN  [h EXCEPT !.postpos = @ + 1, !.file = f, !.left = FileLen(f),
                  !.bios = IF img # NoBios /\ RightSize(img) THEN img ELSE @]

\* The last piece of the body: only now does it matter what the body was.
BodyEnd(c) ==
    /\ InBody(c)
    /\ BodyComplete(hs[c])
    /\ \E u \in [shape : Shapes, size : Sizes] :
          /\ upload' = [upload EXCEPT ![c] = u]
          /\ \E img \in Parses(u) : StartResponse(c, HandlePost(hs[c], img))
    /\ UNCHANGED <<tcp, buffers, orphans, flashVars>>

\* http_recv without a pbuf: the peer has closed its side.
Fin(c) ==
    /\ machine = "serving"
    /\ "recv" \in cb[c]
    /\ todo' = [todo EXCEPT ![c] = <<>>]
    /\ order' = Touch(c)
    /\ CloseConn(c, hs[c])
    /\ UNCHANGED <<bank, expected, queued, upload, connects>>

-----------------------------------------------------------------------------
(* http_sent and http_poll *)

\* An acknowledgement, with or without a registered http_sent.
Ack(c) ==
    /\ machine = "serving"
    /\ \E n \in 1 .. queued[c] :
          LET q == queued[c] - n
              h == [hs[c] EXCEPT !.retries = 0]
          IN  \/ /\ "sent" \notin cb[c]
                 /\ queued' = [queued EXCEPT ![c] = q]
                 /\ UNCHANGED <<tcp, cb, hs, buffers, orphans, flashVars>>
              \/ /\ "sent" \in cb[c]
                 /\ h.left > 0
                 /\ \E k \in Sent(h, q) :
                      /\ hs' = [hs EXCEPT ![c] = [h EXCEPT !.left = @ - k]]
                      /\ queued' = [queued EXCEPT ![c] = q + k]
                 /\ UNCHANGED <<tcp, cb, buffers, orphans, flashVars>>
              \/ /\ "sent" \in cb[c]
                 /\ h.left = 0
                 /\ queued' = [queued EXCEPT ![c] = q]
                 /\ CloseConn(c, h)
    /\ order' = Touch(c)
    /\ UNCHANGED <<bank, expected, clientVars>>

\* Mutant: polls are not counted.
Uncounted(h) == h

\* ++hs->retries
Retried(h) == [h EXCEPT !.retries = @ + 1]

\* Mutant: one poll too many before the connection is given up.
PollLimitLate(h) == h.retries = 5

PollLimit(h) == h.retries = 4

\* http_poll on a connection that still has its state: the fourth poll since
\* the last acknowledgement aborts it.
Poll(c) ==
    /\ machine = "serving"
    /\ "poll" \in cb[c]
    /\ hs[c] # NoState
    /\ LET h == Retried(hs[c]) IN
       \/ /\ PollLimit(h)
          /\ ConnErr(c)
          /\ tcp' = [tcp EXCEPT ![c] = "free"]
          /\ order' = Forget(c)
          /\ cb' = [cb EXCEPT ![c] = {}]
          /\ queued' = [queued EXCEPT ![c] = 0]
       \/ /\ ~PollLimit(h)
          /\ \E k \in Sent(h, queued[c]) :
               /\ hs' = [hs EXCEPT ![c] = [h EXCEPT !.left = @ - k]]
               /\ queued' = [queued EXCEPT ![c] = @ + k]
          /\ UNCHANGED <<tcp, order, cb, todo, upload, buffers, orphans>>
    /\ UNCHANGED <<bank, expected, connects, flashVars>>

\* BootReflashAndReset returns: "FLASHING FAILED? - halting".
FlashReturns ==
    /\ machine = "flashing"
    /\ machine' = "halted"
    /\ UNCHANGED <<bank, expected, tcpVars, hs, clientVars, buffers, orphans, flashed>>

Recv(c) ==
    \/ FirstLine(c) \/ BadFirstLine(c) \/ HeaderLine(c)
    \/ HeaderEndsPost(c) \/ HeaderEndsGet(c)
    \/ BodyPiece(c) \/ BodyEnd(c) \/ Fin(c)

Stack(c) ==
    \/ Syn(c) \/ SynKills(c) \/ Accept(c) \/ AcceptFails(c) \/ Reset(c) \/ Closed(c)

Next ==
    \/ \E c \in Conn : Stack(c) \/ Recv(c) \/ Ack(c) \/ Poll(c)
    \/ FlashReturns

Spec == Init /\ [][Next]_vars

\* tcp_slowtmr keeps running: the network has quiet moments in which ebd_wait
\* times out and run_lwip calls tcp_tmr.
FairSpec == Spec /\ \A c \in Conn : WF_vars(Poll(c))

-----------------------------------------------------------------------------
(* Properties *)

Bios == [len : 0 .. 2, from : {"nothing", "upload", "garbage"}]

State ==
    [file : Files \cup {"none"}, left : 0 .. (PageLen + 1), retries : 0 .. 3,
     gotfirst : BOOLEAN, ispost : BOOLEAN, postlen : {0, BodyPieces},
     postpos : 0 .. BodyPieces, bios : Bios]

\* Every variable keeps its type; the send buffer is never overfilled, a body
\* never outgrows its buffer and the poll counter stays below its limit.
TypeOK ==
    /\ bank \in Banks
    /\ expected \in Sizes
    /\ tcp \in [Conn -> {"free", "syn", "open", "closing", "timewait"}]
    /\ order \in Seq(Conn)
    /\ hs \in [Conn -> State \cup {NoState}]
    /\ cb \in [Conn -> SUBSET {"recv", "sent", "poll"}]
    /\ queued \in [Conn -> 0 .. SndBuf]
    /\ buffers \subseteq Conn
    /\ orphans \in Nat
    /\ machine \in {"serving", "flashing", "halted"}
    /\ flashed \in Bios
    /\ connects \in 0 .. MaxConnects

\* A callback that dereferences the connection's state is registered exactly
\* while that state is allocated: no event, in whatever order it comes after a
\* close, an abort or a takeover of the PCB, meets a freed state, and no state
\* is left behind without a callback that will free it.
StateIffReceiving ==
    machine = "serving" =>
        \A c \in Conn :
            /\ hs[c] # NoState <=> "recv" \in cb[c]
            /\ "sent" \in cb[c] => hs[c] # NoState

\* Every upload buffer that is not an orphan of conn_err belongs to a state.
BuffersOwned == \A c \in buffers : hs[c] # NoState

\* What is flashed has exactly the size of the bank that was selected, it was
\* received to its last byte, and if handle_post found the file in the upload
\* it is that file.
FlashFitsBank ==
    machine # "serving" =>
        /\ flashed.len = BankSize[bank]
        /\ \E c \in Conn :
              /\ hs[c] # NoState
              /\ hs[c].bios = flashed
              /\ hs[c].postpos = hs[c].postlen
              /\ flashed.from = "upload" => upload[c].size = flashed.len

\* bios_start points into the upload buffer.  From the moment handle_post has
\* accepted an image until BootReflashAndReset has been given it, that buffer is
\* not freed, whatever polls, acknowledgements, errors and new connections come
\* in between; and when the image is lost, by conn_err, its state is gone with
\* it, so that nothing flashes what is left of it.
ImageStaysAllocated ==
    /\ \A c \in Conn : hs[c] # NoState /\ hs[c].bios # NoBios => c \in buffers
    /\ machine # "serving" => \E c \in buffers : hs[c].bios = flashed

\* A connection that has been answered is released: acknowledged to the end,
\* aborted by the fourth poll, or overtaken by the flashing.
AnsweredIsReleased ==
    \A c \in Conn :
        ("poll" \in cb[c] /\ hs[c] # NoState) ~> (hs[c] = NoState \/ machine # "serving")
=============================================================================

---------------------------- MODULE ManifestServ ----------------------------
(***************************************************************************)
(* The manifest server: one process answers requests for manifest values   *)
(* on a socket, a thread per connection; ManifestRead asks, one request    *)
(* after another. A connection is two streams of tokens, a token being     *)
(* what one send() of the protocol writes: messages have no boundaries, a  *)
(* recv() takes what is there, up to its size.                             *)
(***************************************************************************)
EXTENDS Integers, Sequences, SequencesExt, Functions

CONSTANTS
  Readers,     \* clients, each with one connection
  Found,       \* for each request: the values of the nodes it matches, or one of Errors
  MaxAsked,    \* bound on the requests of all readers together
  Buffer       \* tokens a stream holds before sendall() has to wait

(* What is not a list of values: the path does not parse (TreeAccError);   *)
(* space_parse finds an open quote (Exception); a value is not ASCII, which *)
(* sendall() cannot write (UnicodeEncodeError).                            *)
BadPath == <<"TreeAccError">>
Quotes  == <<"Exception">>
NotAscii == <<"UnicodeEncodeError">>
Requests == DOMAIN Found

ASSUME MsAssumption ==
  /\ MaxAsked \in Nat /\ Buffer \in Nat \ {0}
  /\ Requests \subseteq STRING /\ \A r \in Requests : Found[r] \in Seq(STRING)
  /\ {"stop", "none"} \cap Readers = {}

VARIABLES
  alive,       \* the server's process exists
  server_run,  \* the flag that stop_socket_server clears
  accepting,   \* __socket_server_main: "starting", "checks", "accepts", "took", "over"
  sock,        \* the name /tmp/ManifestServ.<pid> exists
  stop,        \* stop_socket_server: "no", "connected", "done", "raised"
  backlog,     \* connections not yet accepted, "stop" being the server's own
  taken,       \* connection just accepted, or "none"
  session,     \* for each reader, what its thread waits for in the server
  pc,          \* for each reader, what it waits for
  up, down,    \* the streams to and from the server
  open,        \* whether the server's end of the connection is open
  gone,        \* whether the reader's end is closed
  request, left, \* what each session looked up, results it has yet to send
  size, got,   \* size announced to the reader, results it has
  asked,       \* the requests of each reader, the last one last
  answer       \* what its last get_values returned
srvVars == <<alive, server_run, accepting, sock, stop, backlog, taken>>
wordVars == <<session, pc, up, down, gone, request, left, size, got, asked, answer>>
talkVars == <<open, wordVars>>
msVars == <<srvVars, talkVars>>

Empty == ""
Token(kind) == [kind |-> kind, value |-> Empty, count |-> 0]
Value(v)    == [kind |-> IF v = Empty THEN "EMPTY_STR" ELSE "value", value |-> v, count |-> 0]
ValuesOf(r)   == IF Found[r] = BadPath THEN <<>> ELSE Found[r]
Results(r)  == Append([i \in 1..Len(ValuesOf(r)) |-> Value(ValuesOf(r)[i])], Token("REQ_COMPLETE"))
Params(r)   == [kind |-> "params", value |-> Empty, count |-> Len(ValuesOf(r))]
Request(c)  == Last(asked[c])

MsInit ==
  /\ alive = TRUE /\ server_run = TRUE /\ accepting = "starting" /\ sock = FALSE
  /\ stop = "no" /\ backlog = <<>> /\ taken = "none"
  /\ session = [c \in Readers |-> "none"] /\ pc = [c \in Readers |-> "new"]
  /\ up = [c \in Readers |-> <<>>] /\ down = [c \in Readers |-> <<>>]
  /\ open = [c \in Readers |-> FALSE] /\ gone = [c \in Readers |-> FALSE]
  /\ left = [c \in Readers |-> <<>>] /\ request = [c \in Readers |-> Empty] /\ size = [c \in Readers |-> 0]
  /\ got = [c \in Readers |-> <<>>] /\ asked = [c \in Readers |-> <<>>]
  /\ answer = [c \in Readers |-> <<>>]
-----------------------------------------------------------------------------
(* The thread that accepts. start_socket_server has returned before it     *)
(* listens; the flag is looked at before and after accept().               *)
Listen ==
  /\ alive /\ accepting = "starting"
  /\ accepting' = "checks" /\ sock' = TRUE
  /\ UNCHANGED <<alive, server_run, stop, backlog, taken, talkVars>>

(* Once the loop is left and the listening socket closed, whoever was not  *)
(* accepted is cut off.                                                    *)
CutOff(cs) == open' = [c \in Readers |-> open[c] /\ c \notin cs]

Check ==
  /\ alive /\ accepting = "checks"
  /\ accepting' = IF server_run THEN "accepts" ELSE "over"
  /\ IF ~server_run /\ stop = "done" THEN CutOff(Range(backlog)) ELSE UNCHANGED open
  /\ UNCHANGED <<alive, server_run, sock, stop, backlog, taken, wordVars>>

Accept ==
  /\ alive /\ accepting = "accepts" /\ backlog # <<>>
  /\ accepting' = "took" /\ taken' = Head(backlog) /\ backlog' = Tail(backlog)
  /\ UNCHANGED <<alive, server_run, sock, stop, talkVars>>

StartSession ==
  /\ alive /\ accepting = "took" /\ taken' = "none"
  /\ IF server_run
     THEN /\ accepting' = "checks"
          /\ session' = [session EXCEPT ![taken] = "pre"]
          /\ UNCHANGED open
     ELSE /\ accepting' = "over"
          /\ CutOff({taken} \cup (IF stop = "done" THEN Range(backlog) ELSE {}))
          /\ UNCHANGED session
  /\ UNCHANGED <<alive, server_run, sock, stop, backlog, pc, up, down, gone, request, left, size, got, asked, answer>>

(* stop_socket_server, called as the process exits: it connects, so that   *)
(* accept() returns. Only OSError is caught: when nobody listens yet, it   *)
(* leaves by an exception and the name stays.                              *)
StopConnect ==
  /\ alive /\ stop = "no"
  /\ server_run' = FALSE
  /\ IF sock THEN stop' = "connected" /\ backlog' = Append(backlog, "stop")
             ELSE stop' = "raised" /\ UNCHANGED backlog
  /\ UNCHANGED <<alive, accepting, sock, taken, talkVars>>

StopClose ==
  /\ alive /\ stop = "connected"
  /\ stop' = "done" /\ sock' = FALSE
  /\ IF accepting = "over" THEN CutOff(Range(backlog)) ELSE UNCHANGED open
  /\ UNCHANGED <<alive, server_run, accepting, backlog, taken, wordVars>>

(* The process ends, its threads with it: in good order, or killed.        *)
Exit ==
  /\ alive /\ alive' = FALSE
  /\ CutOff(Readers)
  /\ UNCHANGED <<server_run, accepting, sock, stop, backlog, taken, wordVars>>
-----------------------------------------------------------------------------
(* A thread of the server: __serve and __process_srvr_requests. However it *)
(* ends, its end of the connection is closed.                              *)
Send(c, s)   == down' = [down EXCEPT ![c] = @ \o s]
Receive(c)   == up' = [up EXCEPT ![c] = Tail(@)]
Awaits(c, n) == session' = [session EXCEPT ![c] = n]

End(c) ==
  /\ Awaits(c, "ended") /\ CutOff({c})
  /\ left' = [left EXCEPT ![c] = <<>>]
  /\ UNCHANGED <<down, up>>

(* send() to a reader that is gone fails with EPIPE.                       *)
Answer(c, s, n) ==
  IF gone[c] THEN End(c)
  ELSE Send(c, s) /\ Receive(c) /\ Awaits(c, n) /\ UNCHANGED <<left, open>>

PreRequest(c) ==
  /\ session[c] = "pre"
  /\ IF up[c] # <<>> /\ Head(up[c]).kind = "pre"
     THEN Answer(c, <<Token("ack")>>, "request")
     ELSE (up[c] # <<>> \/ gone[c]) /\ End(c)
  /\ UNCHANGED request

LookUp(c) ==
  /\ session[c] = "request"
  /\ request' = [request EXCEPT ![c] = IF up[c] = <<>> THEN @ ELSE Head(up[c]).value]
  /\ IF up[c] # <<>> /\ Found[Head(up[c]).value] # Quotes
     THEN Answer(c, <<Params(Head(up[c]).value)>>, "params")
     ELSE (up[c] # <<>> \/ gone[c]) /\ End(c)

(* The results follow only when the reader has said that it knows their    *)
(* number and size; what it says next is read after them.                  *)
ParamsReceived(c) ==
  /\ session[c] = "params" /\ UNCHANGED request
  /\ IF up[c] # <<>> /\ Head(up[c]).kind = "RECV_PARAMS_RECVD" /\ Found[request[c]] # NotAscii
     THEN /\ Receive(c)
          /\ IF ValuesOf(request[c]) = <<>>
             THEN Awaits(c, "pre") /\ UNCHANGED left
             ELSE Awaits(c, "results") /\ left' = [left EXCEPT ![c] = Results(request[c])]
          /\ UNCHANGED <<down, open>>
     ELSE (up[c] # <<>> \/ gone[c]) /\ End(c)

SendResults(c) ==
  /\ session[c] = "results" /\ UNCHANGED request
  /\ IF gone[c] THEN End(c)
     ELSE \E n \in 1..Len(left[c]) :
            /\ Len(down[c]) + n <= Buffer
            /\ Send(c, SubSeq(left[c], 1, n))
            /\ left' = [left EXCEPT ![c] = SubSeq(@, n + 1, Len(@))]
            /\ Awaits(c, IF n = Len(left[c]) THEN "pre" ELSE "results")
            /\ UNCHANGED <<up, open>>

Serve(c) ==
  /\ alive /\ open[c]
  /\ PreRequest(c) \/ LookUp(c) \/ ParamsReceived(c) \/ SendResults(c)
  /\ UNCHANGED <<srvVars, pc, gone, size, got, asked, answer>>
-----------------------------------------------------------------------------
(* A reader: the constructor connects, get_values asks, the destructor     *)
(* sends TERM_LINK. An error of the socket is an exception of the caller.  *)
Reads(c, n)  == pc' = [pc EXCEPT ![c] = n]
Says(c, t)   == up' = [up EXCEPT ![c] = Append(@, t)]
Raise(c)     == Reads(c, "raised") /\ UNCHANGED <<up, down, size, got, answer>>
Returns(c, s) == Reads(c, "idle") /\ answer' = [answer EXCEPT ![c] = s]
Lost(c)      == down[c] = <<>> /\ ~open[c]

Connect(c) ==
  /\ pc[c] = "new"
  /\ IF sock /\ alive
     THEN /\ backlog' = Append(backlog, c) /\ open' = [open EXCEPT ![c] = TRUE] /\ Reads(c, "idle")
     ELSE Reads(c, "raised") /\ UNCHANGED <<backlog, open>>
  /\ UNCHANGED <<alive, server_run, accepting, sock, stop, taken, session, up, down, gone, request, left, size, got, asked, answer>>

(* The bound on requests. *)
MayAsk == FoldFunction(+, 0, [d \in Readers |-> Len(asked[d])]) < MaxAsked

Ask(c, r) ==
  /\ pc[c] = "idle" /\ MayAsk
  /\ asked' = [asked EXCEPT ![c] = Append(@, r)]
  /\ IF open[c] THEN Says(c, Token("pre")) /\ Reads(c, "ack") /\ UNCHANGED <<down, size, got, answer>>
     ELSE Raise(c)

TakeAck(c) ==
  /\ pc[c] = "ack" /\ UNCHANGED asked
  /\ IF down[c] # <<>> /\ Head(down[c]).kind = "ack" /\ open[c]
     THEN /\ down' = [down EXCEPT ![c] = Tail(@)]
          /\ Says(c, [Token("request") EXCEPT !.value = Request(c)])
          /\ Reads(c, "params") /\ UNCHANGED <<size, got, answer>>
     ELSE (down[c] # <<>> \/ Lost(c)) /\ Raise(c)

(* recv(1024) takes all there is; "count,size" must be all of it.          *)
TakeParams(c) ==
  /\ pc[c] = "params" /\ UNCHANGED asked
  /\ IF Len(down[c]) = 1 /\ Head(down[c]).kind = "params" /\ open[c]
     THEN LET count == Head(down[c]).count IN
          /\ down' = [down EXCEPT ![c] = <<>>]
          /\ Says(c, Token("RECV_PARAMS_RECVD"))
          /\ size' = [size EXCEPT ![c] = IF count = 0 THEN 0 ELSE count + 1]
          /\ got' = [got EXCEPT ![c] = <<>>]
          /\ IF count = 0 THEN Returns(c, <<>>) ELSE Reads(c, "results") /\ UNCHANGED answer
     ELSE (down[c] # <<>> \/ Lost(c)) /\ Raise(c)

(* Results come in any number of pieces. A reader whose server is gone     *)
(* receives nothing, again and again.                                      *)
Decoded(s) == [i \in 1..(Len(s) - 1) |-> IF s[i].kind = "EMPTY_STR" THEN Empty ELSE s[i].value]
(* Mutant: one recv() is taken for all of the results. *)
TakeResultsOnce(c) ==
  /\ pc[c] = "results" /\ UNCHANGED <<asked, size, up, got>>
  /\ \E n \in 1..Len(down[c]) :
       /\ down' = [down EXCEPT ![c] = SubSeq(@, n + 1, Len(@))]
       /\ Returns(c, Decoded(SubSeq(down[c], 1, n)))
TakeResults(c) ==
  /\ pc[c] = "results" /\ UNCHANGED <<asked, size, up>>
  /\ \E n \in 1..Len(down[c]) :
       /\ n <= size[c] - Len(got[c])
       /\ down' = [down EXCEPT ![c] = SubSeq(@, n + 1, Len(@))]
       /\ got' = [got EXCEPT ![c] = @ \o SubSeq(down[c], 1, n)]
       /\ IF Len(got[c]) + n = size[c] THEN Returns(c, Decoded(got'[c]))
          ELSE UNCHANGED <<pc, answer>>

Leave(c) ==
  /\ pc[c] \in {"idle", "raised"} /\ ~gone[c]
  /\ Reads(c, "left") /\ gone' = [gone EXCEPT ![c] = TRUE]
  /\ IF open[c] THEN Says(c, Token("TERM_LINK")) ELSE UNCHANGED up
  /\ UNCHANGED <<srvVars, session, down, open, request, left, size, got, asked, answer>>

(* A reader may be killed.                                                 *)
Killed(c) ==
  /\ pc[c] \notin {"new", "left"} /\ Reads(c, "left") /\ gone' = [gone EXCEPT ![c] = TRUE]
  /\ UNCHANGED <<srvVars, session, up, down, open, request, left, size, got, asked, answer>>

GetValues(c) ==
  /\ (\E r \in Requests : Ask(c, r)) \/ TakeAck(c) \/ TakeParams(c) \/ TakeResults(c)
  /\ UNCHANGED <<srvVars, session, open, gone, request, left>>
-----------------------------------------------------------------------------
Server == Listen \/ Check \/ Accept \/ StartSession \/ StopConnect \/ StopClose \/ Exit
MsNext == \/ Server
          \/ \E c \in Readers : Serve(c) \/ Connect(c) \/ GetValues(c) \/ Leave(c) \/ Killed(c)
MsSpec == MsInit /\ [][MsNext]_msVars
-----------------------------------------------------------------------------
(* What get_values returns are the values of the nodes its request names,  *)
(* the empty ones among them, however the streams were cut and whatever    *)
(* was asked before; nothing of an answer is left for the next request.    *)
AnswersAreRight ==
  \A c \in Readers : pc[c] = "idle" /\ asked[c] # <<>> =>
    answer[c] = ValuesOf(Request(c)) /\ down[c] = <<>>

(* get_values raises only when the server stopped, when the reader came    *)
(* before it listened, or for a value with an open quote.                  *)
ErrorsHaveACause ==
  \A c \in Readers : pc[c] = "raised" =>
    ~alive \/ stop # "no" \/ asked[c] = <<>> \/ Found[Request(c)] = Quotes

(* Reader and server never wait for each other: when a reader waits on an  *)
(* open connection and nothing is there for it, the server has something   *)
(* to do for it, or is about to exit (the acknowledgements of              *)
(* SocketServProtocol.py).                                                 *)
NobodyWaitsInVain ==
  \A c \in Readers :
    alive /\ open[c] /\ pc[c] \in {"ack", "params", "results"} /\ down[c] = <<>> =>
      \/ session[c] = "results"
      \/ session[c] \in {"pre", "request", "params"} /\ up[c] # <<>>
      \/ session[c] = "none" /\ (accepting # "over" \/ stop # "no")

(* Together: a conversation on the socket ends with the right values or    *)
(* with an error that has a cause (ManifestServ.py, ManifestRead.py).      *)
ConversationsAreSound == AnswersAreRight /\ ErrorsHaveACause /\ NobodyWaitsInVain
=============================================================================

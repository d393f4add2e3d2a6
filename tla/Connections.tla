---------------------------- MODULE Connections ----------------------------
(***************************************************************************)
(* The connections of one editor server, each on a thread of its own       *)
(* (http_connections.py, http_deadline.py, _EditorHandler): a request is   *)
(* received under two time bounds, run, answered in chunks, and a stop of  *)
(* the server shuts whatever is idle.  HTTP/1.0: one request each.         *)
(***************************************************************************)
EXTENDS Naturals

CONSTANTS Conns,
          WaitSeconds, TotalSeconds, \* WAIT_SECONDS and TOTAL_SECONDS
          Chunks                     \* how many chunks an answer has

ASSUME ConnectionAssumption == {WaitSeconds, TotalSeconds, Chunks} \subseteq Nat \ {0}

VARIABLES conn,    \* the thread and the socket of each connection
          busy,    \* ConnectionRegistry._busy, restricted to its keys
          closing, \* ConnectionRegistry._closing
          listening

connVars == <<conn, busy, closing, listening>>

(* got: a byte came.  left: seconds until the wait under way ends.  age: seconds since the first *)
(* byte, before it since the wait began.  chunks: still to be sent.  ran: the route's handler    *)
(* has run.  client: "there", "gone", or "late" when it let a chunk wait too long.               *)
Fresh == [at |-> "none", got |-> FALSE, left |-> 0, age |-> 0, shut |-> FALSE, chunks |-> Chunks,
          began |-> FALSE, ran |-> FALSE, client |-> "there"]

ConnInit ==
  /\ conn = [c \in Conns |-> Fresh]
  /\ busy = [c \in {} |-> FALSE]
  /\ closing = FALSE /\ listening = TRUE

Receiving == {"line", "headers", "body"}

Shorter(a, b) == IF a < b THEN a ELSE b

(* Mutant: the second bound is forgotten. *)
ArmWaitOnly(age) == WaitSeconds

(* _arm of a connection whose first byte came age seconds ago; 0 raises RequestTimeout at once. *)
Arm(age) == IF age >= TotalSeconds THEN 0 ELSE Shorter(WaitSeconds, TotalSeconds - age)

Going(c, at) == conn' = [conn EXCEPT ![c].at = at]

(* The body of an answer goes out in chunks, each with a wait of its own. *)
Answering(c) == [conn[c] EXCEPT !.at = "answering", !.left = WaitSeconds]

Keep == UNCHANGED <<busy, closing, listening>>

Accept(c) ==
  /\ listening /\ conn[c].at = "none"
  /\ Going(c, "accepted") /\ Keep

(* Mutant: a connection registered after close_idle stays open. *)
AddUnshut(c) ==
  /\ conn[c].at = "accepted"
  /\ conn' = [conn EXCEPT ![c].at = "line", ![c].left = WaitSeconds]
  /\ busy' = [d \in DOMAIN busy \cup {c} |-> IF d = c THEN FALSE ELSE busy[d]]
  /\ UNCHANGED <<closing, listening>>

Add(c) ==
  /\ conn[c].at = "accepted"
  /\ conn' = [conn EXCEPT ![c].at = "line", ![c].left = WaitSeconds, ![c].shut = closing]
  /\ busy' = [d \in DOMAIN busy \cup {c} |-> IF d = c THEN FALSE ELSE busy[d]]
  /\ UNCHANGED <<closing, listening>>

Bytes(c) == conn[c].at \in Receiving /\ ~conn[c].shut /\ conn[c].client = "there" /\ conn[c].left > 0

(* Bytes that do not end what is being read: the next wait is armed. *)
Receive(c) ==
  LET age == IF conn[c].got THEN conn[c].age ELSE 0
  IN  /\ Bytes(c)
      /\ conn' = [conn EXCEPT ![c].got = TRUE, ![c].age = age, ![c].left = Arm(age)]
      /\ Keep

EndOfStream(c) == conn[c].at \in Receiving /\ (conn[c].shut \/ conn[c].client = "gone")

(* parse_request with the request line read, or cut by the end of the stream: the closing check *)
(* comes before the line is judged.  Nothing at all received ends the connection silently.      *)
ParseLine(c) ==
  /\ conn[c].at = "line"
  /\ \/ EndOfStream(c) /\ ~conn[c].got /\ Going(c, "ending")
     \/ EndOfStream(c) /\ conn[c].got /\ IF closing THEN Going(c, "ending") ELSE conn' = [conn EXCEPT ![c] = Answering(c)]
     \/ LET age == IF conn[c].got THEN conn[c].age ELSE 0
        IN  /\ Bytes(c)
            /\ IF closing THEN conn' = [conn EXCEPT ![c].at = "ending", ![c].got = TRUE]
               ELSE conn' = [conn EXCEPT ![c].at = "headers", ![c].got = TRUE, ![c].age = age, ![c].left = Arm(age)]
  /\ Keep

(* A request goes on to its body, or to its handler when it has none or is refused without it. *)
Begun(c) ==
  /\ busy' = [busy EXCEPT ![c] = TRUE]
  /\ \E at \in {"body", "run"} :
       conn' = [conn EXCEPT ![c].at = at, ![c].left = Arm(conn[c].age), ![c].began = TRUE]

(* Mutant: the answer of begin_request is not looked at. *)
BeginUnchecked(c) ==
  /\ conn[c].at = "headers" /\ (Bytes(c) \/ EndOfStream(c))
  /\ Begun(c)
  /\ UNCHANGED <<closing, listening>>

(* The end of the headers, or of the stream in them, and begin_request. *)
BeginRequest(c) ==
  /\ conn[c].at = "headers" /\ (Bytes(c) \/ EndOfStream(c))
  /\ IF closing THEN Going(c, "ending") /\ UNCHANGED busy ELSE Begun(c)
  /\ UNCHANGED <<closing, listening>>

(* All of the body, or what came before the end of the stream. *)
ReadBody(c) == conn[c].at = "body" /\ (Bytes(c) \/ EndOfStream(c)) /\ Going(c, "run") /\ Keep

(* do_GET or do_POST: refused or run; an exception is answered as well. *)
Run(c) ==
  /\ conn[c].at = "run"
  /\ \E ran \in BOOLEAN : conn' = [conn EXCEPT ![c] = [Answering(c) EXCEPT !.ran = ran]]
  /\ Keep

(* RequestTimeout: 408 once a byte came, else silence; ResponseTimeout: the connection is given up. *)
Expire(c) ==
  /\ conn[c].left = 0
  /\ \/ conn[c].at \in Receiving /\ conn[c].got /\ conn' = [conn EXCEPT ![c] = Answering(c)]
     \/ conn[c].at = "line" /\ ~conn[c].got /\ Going(c, "ending")
     \/ conn[c].at = "answering" /\ conn' = [conn EXCEPT ![c].at = "ending", ![c].client = "late"]
  /\ Keep

(* One chunk: taken, refused by a broken connection, or not taken in time (Expire). *)
Send(c) ==
  /\ conn[c].at = "answering"
  /\ \/ /\ conn[c].shut \/ conn[c].client = "gone"
        /\ Going(c, "ending")
     \/ /\ ~conn[c].shut /\ conn[c].client = "there" /\ conn[c].left > 0
        /\ conn' = [conn EXCEPT ![c].chunks = @ - 1, ![c].left = WaitSeconds,
                                ![c].at = IF conn[c].chunks = 1 THEN "ending" ELSE "answering"]
  /\ Keep

(* end_request, for a request that began; then finish removes the connection. *)
EndRequest(c) ==
  /\ conn[c].at = "ending"
  /\ busy' = IF conn[c].began THEN [busy EXCEPT ![c] = FALSE] ELSE busy
  /\ conn' = [conn EXCEPT ![c].at = "finishing", ![c].left = 0, ![c].age = 0, ![c].got = FALSE]
  /\ UNCHANGED <<closing, listening>>

RemoveConn(c) ==
  /\ conn[c].at = "finishing"
  /\ busy' = [d \in DOMAIN busy \ {c} |-> busy[d]]
  /\ Going(c, "closed")
  /\ UNCHANGED <<closing, listening>>

(* stop_http_server: shutdown ends the accept loop and server_close the socket, then close_idle. *)
StopListening ==
  /\ listening /\ listening' = FALSE
  /\ UNCHANGED <<conn, busy, closing>>

CloseIdle ==
  /\ ~listening /\ ~closing /\ closing' = TRUE
  /\ conn' = [c \in Conns |-> IF c \in DOMAIN busy /\ ~busy[c] THEN [conn[c] EXCEPT !.shut = TRUE] ELSE conn[c]]
  /\ UNCHANGED <<busy, listening>>

(* The other end leaves. *)
Leave(c) ==
  /\ conn[c].at \in Receiving \cup {"answering"} /\ conn[c].client = "there"
  /\ conn' = [conn EXCEPT ![c].client = "gone"]
  /\ Keep

(* A second passes; a wait that is over ends before it. *)
Second ==
  /\ \A c \in Conns : conn[c].at \in Receiving \cup {"answering"} => conn[c].left > 0
  /\ conn' = [c \in Conns |->
       IF conn[c].at \in Receiving THEN [conn[c] EXCEPT !.left = @ - 1, !.age = Shorter(@ + 1, TotalSeconds + 1)]
       ELSE IF conn[c].at = "answering" THEN [conn[c] EXCEPT !.left = @ - 1] ELSE conn[c]]
  /\ Keep

ConnStep(c) ==
  \/ Accept(c) \/ Add(c) \/ Receive(c) \/ ParseLine(c) \/ BeginRequest(c) \/ ReadBody(c) \/ Run(c)
  \/ Expire(c) \/ Send(c) \/ EndRequest(c) \/ RemoveConn(c) \/ Leave(c)

ConnNext == StopListening \/ CloseIdle \/ Second \/ \E c \in Conns : ConnStep(c)

ConnSpec == ConnInit /\ [][ConnNext]_connVars

-----------------------------------------------------------------------------
(* A stop neither cuts nor loses a request: one that began is never shut before its answer is  *)
(* sent, and when a client that kept reading gets no whole answer, its request has not run, so  *)
(* it may be sent again (parse_request, begin_request, close_idle).                             *)
StopIsClean ==
  \A c \in Conns :
    /\ conn[c].at \in {"body", "run", "answering"} /\ conn[c].began => ~conn[c].shut
    /\ conn[c].at \in {"ending", "finishing", "closed"} /\ conn[c].client = "there" /\ conn[c].chunks > 0 => ~conn[c].ran

(* No connection outlives a stop by waiting for a request: once the registry is closing, one    *)
(* that has not begun a request is shut, so its read ends (add, close_idle).                    *)
IdleIsShut ==
  closing => \A c \in Conns : conn[c].at \in {"line", "headers"} => conn[c].shut

(* Receiving is bounded: at most WAIT_SECONDS before the first byte, and TOTAL_SECONDS after it  *)
(* however steadily bytes come, through the request line, the headers and the body (_arm).       *)
ReceivingIsBounded ==
  \A c \in Conns : conn[c].at \in Receiving => conn[c].age <= IF conn[c].got THEN TotalSeconds ELSE WaitSeconds
=============================================================================

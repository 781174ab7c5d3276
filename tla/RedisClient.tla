------------------------------ MODULE RedisClient ------------------------------
(***************************************************************************)
(* The command line client over one connection to the server: CLI sends a  *)
(* command and reads one reply with ResponseParser before it prompts for   *)
(* the next.  The server side is RedisCommandHandler behind the recv, send *)
(* loop of RedisServer; one worker serves the connection.  The server may  *)
(* die at any moment, and the client does not connect again.               *)
(*                                                                         *)
(* The server takes what one recv returns for one request.  The stream has *)
(* no such boundaries: a recv may return several requests, or one up to    *)
(* any of its words, or the middle of one and the beginning of the next.   *)
(***************************************************************************)
EXTENDS RedisCommandHandler, RespRequest

CONSTANTS
    Tears,          \* how a recv may end inside a word: the word, front and back
    MaxCuts,        \* bound: recvs that end elsewhere than behind a request
    MaxCommands     \* bound: commands typed

ASSUME ClientAssumption ==
    /\ Cardinality(Worker) = 1
    /\ MaxCuts \in Nat
    /\ MaxCommands \in Nat
    /\ \A r \in Requests :
          /\ r = Request(r.cmd, r.args) /\ r.args \in Seq(Range(r.args))
          /\ Star \notin Range(<<r.cmd>> \o r.args)

VARIABLES
    cli,        \* where CLI::run stands
    need,       \* the values ResponseParser still reads for this reply
    wire,       \* the words sent and not received
    crlf,       \* whether the CRLF of the word before them is still to come
    replies,    \* the items sent and not read
    link,       \* the client's socket; "deaf" when the server's task has thrown
    typed,      \* bound: counts the commands
    cuts,       \* counts the recvs that ended elsewhere than behind a request
    misread     \* history: whether a Misread command has been processed

clientSide == <<cli, need, typed>>
stream == <<wire, crlf, cuts, misread>>
clientVars == <<handlerVars, clientSide, stream, replies, link>>

\* The socket is open at the server's end.
LinkOpen == link \in {"up", "deaf"}

(***************************************************************************)
(* The commands whose reply ResponseParser reads too little or too much    *)
(* of: parseArray reads one value more than the array has, LGET and LPOP   *)
(* send no RESP value, ECHO without a message sends none either.           *)
(***************************************************************************)
Misread(r) ==
    \/ r.cmd \in {"KEYS", "HGETALL", "HKEYS", "HVALS", "LGET", "LPOP"}
    \/ r = Request("ECHO", <<>>)

ClientInit ==
    /\ HandlerInit
    /\ cli = "prompt" /\ need = 0 /\ typed = 0
    /\ wire = <<>> /\ crlf = FALSE /\ cuts = 0 /\ misread = FALSE
    /\ replies = <<>>
    /\ link = "up"

-------------------------------------------------------------------------------
(* The client.                                                               *)

\* A command is typed and sent.  The first send after the server has closed
\* its end succeeds and is answered by a reset.
SendCommand(r) ==
    /\ cli = "prompt" /\ link # "reset" /\ typed < MaxCommands
    /\ cli' = "reading"
    /\ need' = 1
    /\ typed' = typed + 1
    /\ IF link = "closed"
       THEN link' = "reset" /\ UNCHANGED wire
       ELSE wire' = wire \o buildRESPcommand(<<r.cmd>> \o r.args) /\ UNCHANGED link
    /\ UNCHANGED <<handlerVars, crlf, cuts, misread, replies>>

\* A send on a reset socket raises SIGPIPE, which nobody handles.
SendSignals ==
    /\ cli = "prompt" /\ link = "reset"
    /\ cli' = "killed"
    /\ UNCHANGED <<handlerVars, need, typed, stream, replies, link>>

Quit ==
    /\ cli = "prompt"
    /\ cli' = "quit"
    /\ UNCHANGED <<handlerVars, need, typed, stream, replies, link>>

\* One value has been read, or more have turned out to come: n are still due.
Reads(n) ==
    /\ need' = n
    /\ cli' = IF n = 0 THEN "prompt" ELSE "reading"
    /\ UNCHANGED <<handlerVars, typed, stream, link>>

\* The header of a bulk string or an array of which the number is missing.
Torn == Item("torn", 0)

\* parserResponse on the next item.  std::stoi throws on a torn header, which
\* nobody catches; the loop of parseArray starts at -1.
ReadValue ==
    /\ cli = "reading" /\ replies # <<>>
    /\ replies' = Tail(replies)
    /\ LET item == Head(replies)
       IN  CASE item \in {BulkHeader, Torn} ->
                    /\ cli' = IF item = Torn THEN "aborted" ELSE "text"
                    /\ UNCHANGED <<handlerVars, need, typed, stream, link>>
             [] item.prefix = "*" -> Reads(need + item.val)
             [] OTHER -> Reads(need - 1)

\* Mutant of ReadText: the text is left where it is.
ReadTextLater ==
    /\ cli = "text" /\ replies # <<>>
    /\ Reads(need - 1)
    /\ UNCHANGED replies

\* The characters of a bulk string.
ReadText ==
    /\ cli = "text" /\ replies # <<>>
    /\ replies' = Tail(replies)
    /\ Reads(need - 1)

\* Mutant of ReadEnd: the reader waits for more.
ReadEndAgain ==
    /\ cli \in {"reading", "text"} /\ replies = <<>> /\ ~LinkOpen
    /\ Reads(need)
    /\ UNCHANGED replies

\* recv reports the end of the stream; the reader makes an error text of it.
ReadEnd ==
    /\ cli \in {"reading", "text"} /\ replies = <<>> /\ ~LinkOpen
    /\ Reads(need - 1)
    /\ UNCHANGED replies

-------------------------------------------------------------------------------
(* The server.                                                               *)

\* A recv that returns these words, and what it leaves in the stream.
Part(words, ending, rest) ==
    [data |-> Data(crlf, words, ending), rest |-> rest, behind |-> ending = "bare"]

Words(n) == SubSeq(wire, 1, n)
Rest(n) == SubSeq(wire, n + 1, Len(wire))

\* What the next recv may return.
Received ==
    {Part(Words(n), "crlf", Rest(n)) : n \in {m \in 0..Len(wire) : m > 0 \/ crlf}}
    \cup {Part(Words(n), "bare", Rest(n)) : n \in 1..Len(wire)}
    \cup UNION {{Part(Append(Words(n - 1), t.front), "torn", <<t.back>> \o Rest(n)) :
            n \in {m \in 1..Len(wire) : wire[m] = t.word}} : t \in Tears}

\* The recv ends behind a request.
Whole(p) == p.data.ending = "crlf" /\ (p.rest = <<>> \/ p.rest[1] = Star)

\* One recv takes part p of the stream.
Receives(p) ==
    /\ link = "up" /\ \A w \in Worker : frame[w] = Idle
    /\ wire' = p.rest /\ crlf' = p.behind
    /\ cuts' = cuts + (IF Whole(p) THEN 0 ELSE 1) /\ cuts' <= MaxCuts

\* The first token is the command.
RequestOf(tokens) ==
    IF tokens = <<>> THEN NoRequest ELSE Request(Head(tokens), Tail(tokens))

\* Request r is processed: in one step, or in several when it is a push.
Process(r) ==
    /\ \/ Command(r) /\ replies' = replies \o last'.reply
       \/ \E w \in Worker : BeginPush(w, r) /\ UNCHANGED replies
    /\ misread' = (misread \/ Misread(r))

\* One turn of the loop of the client's task.
Receive ==
    /\ \E p \in Received :
          /\ Receives(p)
          /\ \E tokens \in parseRespCommand(p.data) : Process(RequestOf(tokens))
    /\ UNCHANGED <<clientSide, link>>

\* The exception leaves the task; nobody answers, nobody closes the socket.
Throw ==
    /\ \E p \in Received : Receives(p) /\ parseThrows(p.data)
    /\ link' = "deaf"
    /\ UNCHANGED <<handlerVars, clientSide, misread, replies>>

\* The rest of a push.
Push ==
    /\ link = "up"
    /\ \E w \in Worker :
          \/ PushElement(w) /\ UNCHANGED replies
          \/ EndPush(w) /\ replies' = replies \o last'.reply
    /\ UNCHANGED <<clientSide, stream, link>>

\* What may have come of items q when no more will: some, and the beginning of
\* another.
Truncated(q) ==
    {SubSeq(q, 1, n) : n \in 0..Len(q)}
    \cup {Append(SubSeq(q, 1, n - 1), Torn) :
            n \in {m \in 1..Len(q) : q[m].prefix \in {"$", "*"}}}

\* The process ends, inside a push or not; its memory no longer matters.
\* Unread requests make its kernel reset the connection.
ServerDies ==
    /\ LinkOpen
    /\ link' = IF wire = <<>> /\ ~crlf THEN "closed" ELSE "reset"
    /\ wire' = <<>> /\ crlf' = FALSE
    /\ frame' = [w \in Worker |-> Idle]
    /\ replies' \in Truncated(replies)
    /\ UNCHANGED <<vars, todo, last, clientSide, cuts, misread>>

-------------------------------------------------------------------------------
(* The specification.                                                        *)

Read == ReadValue \/ ReadText \/ ReadEnd

Serve == Receive \/ Throw \/ Push

ClientNext ==
    \/ \E r \in Requests : SendCommand(r)
    \/ SendSignals
    \/ Quit
    \/ Read
    \/ Serve
    \/ ServerDies
    \/ /\ Tick
       /\ UNCHANGED <<frame, todo, last, clientSide, stream, replies, link>>

\* A reader that finds something reads it; a server that received something
\* processes it.  Nothing makes the user type, or the server die.
ClientSpec ==
    /\ ClientInit /\ [][ClientNext]_clientVars
    /\ WF_clientVars(Read) /\ WF_clientVars(Serve)

-------------------------------------------------------------------------------
(* Properties.                                                               *)

(***************************************************************************)
(* When the client prompts, the reply to every command has come and has    *)
(* been read to its end: the next thing it reads answers the next thing it *)
(* sends.  The exceptions are the commands that it misreads, and a recv    *)
(* that ended inside a request, after which the server takes the rest for  *)
(* a request of its own.                                                   *)
(***************************************************************************)
InStep ==
    cli = "prompt" /\ cuts = 0 /\ ~misread =>
        /\ wire = <<>> /\ ~crlf /\ replies = <<>>
        /\ \A w \in Worker : frame[w] = Idle

(***************************************************************************)
(* The user gets the prompt back after every command, also when requests   *)
(* are cut, torn and taken for others, and when the server dies before,    *)
(* while or after it answers.  Excepted are the Misread commands, a piece  *)
(* of a request that begins with '*' and makes the server's task throw,    *)
(* and a reply that ends inside a number and makes the client throw.       *)
(***************************************************************************)
PromptReturns ==
    cli = "reading" ~> cli \in {"prompt", "aborted"} \/ misread \/ link = "deaf"
===============================================================================

----------------------------- MODULE VSTPLines -----------------------------
(***************************************************************************)
(* services/apis/vstp/vstp.go and misc/tcpserver: what one connection      *)
(* reads and writes.                                                       *)
(*                                                                         *)
(* The handler goroutine of the connection greets the client, cuts what it *)
(* reads into lines and starts a goroutine for every line.  Such a         *)
(* goroutine makes one call of the controller and writes the lines of its  *)
(* answer one by one, so the answers to several commands may come in any   *)
(* order and mixed.                                                        *)
(*                                                                         *)
(* A fragment of text is a string: a line is a command and its payload,    *)
(* and a read may end after any fragment.  Of the controller's state only  *)
(* what an answer depends on is kept, for one variable, and a call is one  *)
(* step; the calls in detail, and the notifications that NotifyClient      *)
(* writes between the answers, are in the modules of the controller, the   *)
(* maps of the connections in module VSTPSession.                          *)
(***************************************************************************)
EXTENDS Naturals, FiniteSets, Sequences, SequencesExt

CONSTANTS Streams     \* what the client may send, as sequences of fragments

ASSUME LinesAssumption == \A s \in Streams : s \in Seq(Range(s))

NL == "\n"
CR == "\r"
Name == "x"           \* the payload of a command
NameLong == "x=9"     \* payload of lock: the name and a long timeout
Commands == {"set", "delete", "get", "subscribe", "unsubscribe", "lock", "unlock",
             "ping", "setid", "getchilds", "lockstatus"}

VARIABLES left,       \* what the client has still to send
          patient,    \* the client awaits an answer before it sends a line
          socket,     \* "open", "broken" (by the peer), "closed" (callback done)
          reader,     \* the handler goroutine: "greets", "reads", "splits"
          got,        \* everything read so far
          buf,        \* incomingDataBuffer[cli]
          cur,        \* the local buf of the data callback
          named,      \* clientsByTcpCli has an id, and not an empty one, for it
          tasks,      \* the processReceivedMessage goroutines, in order of start
          greeted,    \* lines of the header sent
          last,       \* the latest line of an answer that the client was sent
          answered,   \* the lines whose answer has ended
          ver,        \* how often the variable was written
          locked,
          acked       \* how many writes were confirmed to the client

input == <<left, patient, got>>
output == <<greeted, last, answered, acked>>
store == <<ver, locked>>
lineVars == <<input, socket, reader, buf, cur, named, tasks, output, store>>

NoMessage == [of |-> 0, msg |-> ""]
Opens(msg) == msg \in {"beginresponse", "lockstatusresult"}
Ends(msg) == msg \in {"endresponse", "lockstatusresult"}
Greeting == <<"beginserverheaders", "serverinfo", "serverinfo", "sugestednewid",
              "endserverheaders">>

LinesInit ==
    /\ left \in Streams /\ patient \in BOOLEAN
    /\ socket = "open" /\ reader = "greets"
    /\ got = <<>> /\ buf = <<>> /\ cur = <<>>
    /\ named = TRUE
    /\ tasks = <<>> /\ greeted = 0 /\ last = NoMessage /\ answered = {}
    /\ ver = 0 /\ locked = FALSE
    /\ acked = 0

-----------------------------------------------------------------------------
(* The end of the connect callback: the header, before the first read.     *)
Greet ==
    /\ reader = "greets"
    /\ greeted' = greeted + 1
    /\ reader' = IF greeted' = Len(Greeting) THEN "reads" ELSE reader
    /\ UNCHANGED <<input, socket, buf, cur, named, tasks, last, answered, store, acked>>

(* The client: a patient one sends one line, or a part of it, at a time.   *)
MaySend(chunk) ==
    patient => /\ \A i \in 1..(Len(chunk) - 1) : chunk[i] # NL
               /\ DOMAIN tasks \subseteq answered

(* Broken variant: the callback forgets what the buffer holds. *)
ReceiveFresh(n) ==
    /\ reader = "reads" /\ socket = "open"
    /\ LET chunk == SubSeq(left, 1, n) IN
          /\ MaySend(chunk)
          /\ got' = got \o chunk
          /\ cur' = chunk
    /\ left' = SubSeq(left, n + 1, Len(left))
    /\ reader' = "splits"
    /\ UNCHANGED <<patient, socket, buf, named, tasks, output, store>>

(* A read of n fragments, and the data callback up to the loop.            *)
Receive(n) ==
    /\ reader = "reads" /\ socket = "open"
    /\ LET chunk == SubSeq(left, 1, n) IN
          /\ MaySend(chunk)
          /\ got' = got \o chunk
          /\ cur' = buf \o chunk
    /\ left' = SubSeq(left, n + 1, Len(left))
    /\ reader' = "splits"
    /\ UNCHANGED <<patient, socket, buf, named, tasks, output, store>>

Trim(line) ==
    LET texts == {i \in DOMAIN line : line[i] # CR}
    IN  SubSeq(line, 1, IF texts = {} THEN 0 ELSE CHOOSE i \in texts : \A j \in texts : j <= i)

Task(line, todo) == [line |-> line, todo |-> todo, ver |-> 0, refused |-> FALSE, floor |-> acked]

Command(line) == IF line = <<>> THEN "" ELSE line[1]
Payload(line) == IF Len(line) > 1 THEN line[2] ELSE ""

(* Broken variant: the answer ends before the call. *)
ExchangeTooSoon == <<"beginresponse", "endresponse", "call", "body">>

(* Broken variant: the result follows the end of the answer. *)
ExchangeBodyLast == <<"call", "beginresponse", "endresponse", "body">>

(* The answer of most commands: the call, then a block with its result.    *)
Exchange == <<"call", "beginresponse", "body", "endresponse">>

(* processReceivedMessage: what a command does, in order.  "call" is its   *)
(* call of the controller, "name" its access to the maps, "body" stands    *)
(* for the lines that the result of the call gives.                        *)
Script(line) ==
    CASE Command(line) = "set" /\ Payload(line) = "" ->
            <<"beginresponse", "error", "endresponse">>
      [] Command(line) = "ping" -> <<"beginresponse", "pong", "endresponse">>
      [] Command(line) = "lockstatus" -> <<"call", "body">>
      [] Command(line) \in {"subscribe", "unsubscribe"} ->
            <<"name", "beginresponse", "call", "endresponse">>
      [] Command(line) = "setid" -> <<"name">> \o Exchange
      [] \/ Command(line) = "set" /\ Payload(line) # ""
         \/ Command(line) \in {"delete", "get", "lock", "unlock", "getchilds"} -> Exchange
      [] OTHER -> <<>>

(* Broken variant: the callback processes the line itself. *)
TakeLineInTurn ==
    /\ reader = "splits"
    /\ \A k \in DOMAIN tasks : tasks[k].todo = <<>>
    /\ \E i \in DOMAIN cur :
          /\ cur[i] = NL /\ \A j \in 1..(i - 1) : cur[j] # NL
          /\ LET line == Trim(SubSeq(cur, 1, i - 1))
             IN  tasks' = Append(tasks, Task(line, Script(line)))
          /\ cur' = SubSeq(cur, i + 1, Len(cur))
    /\ UNCHANGED <<input, socket, reader, buf, named, output, store>>

(* One pass of the loop: the first line of buf gets its goroutine.         *)
TakeLine ==
    /\ reader = "splits"
    /\ \E i \in DOMAIN cur :
          /\ cur[i] = NL /\ \A j \in 1..(i - 1) : cur[j] # NL
          /\ LET line == Trim(SubSeq(cur, 1, i - 1))
             IN  tasks' = Append(tasks, Task(line, Script(line)))
          /\ cur' = SubSeq(cur, i + 1, Len(cur))
    /\ UNCHANGED <<input, socket, reader, buf, named, output, store>>

(* The end of the data callback: the rest waits for the next read.         *)
KeepTail ==
    /\ reader = "splits"
    /\ \A i \in DOMAIN cur : cur[i] # NL
    /\ buf' = cur /\ cur' = <<>>
    /\ reader' = "reads"
    /\ UNCHANGED <<input, socket, named, tasks, output, store>>

(* The peer goes away; the handler finds out when it reads again.  Lines   *)
(* that are running go on.                                                 *)
Breaks ==
    /\ socket = "open"
    /\ socket' = "broken"
    /\ UNCHANGED <<input, reader, buf, cur, named, tasks, output, store>>

Disconnected ==
    /\ socket = "broken" /\ reader = "reads"
    /\ socket' = "closed"
    /\ named' = FALSE /\ buf' = <<>>
    /\ UNCHANGED <<input, reader, cur, tasks, output, store>>

-----------------------------------------------------------------------------
(* The steps of the goroutine of line k.                                   *)
At(k, step) == tasks[k].todo # <<>> /\ Head(tasks[k].todo) = step

(* subscribe names a connection that has no name, setid gives it the name  *)
(* it is sent, which may be empty, and unsubscribe gives up without one.   *)
GetsName(k) ==
    LET cmd == Command(tasks[k].line) IN
    /\ At(k, "name")
    /\ named' = CASE cmd = "setid" -> Payload(tasks[k].line) # ""
                  [] cmd = "subscribe" -> TRUE
                  [] OTHER -> named
    /\ tasks' = [tasks EXCEPT ![k].todo = IF cmd = "unsubscribe" /\ ~named THEN <<>> ELSE Tail(@)]
    /\ UNCHANGED <<input, socket, reader, buf, cur, output, store>>

(* The lines of a result take the place of "body". *)
Filled(script, body) ==
    IF \E i \in DOMAIN script : script[i] = "body"
    THEN LET i == CHOOSE i \in DOMAIN script : script[i] = "body"
         IN  SubSeq(script, 1, i - 1) \o body \o SubSeq(script, i + 1, Len(script))
    ELSE script

(* A call of the controller has returned. *)
Returns(k, body) ==
    /\ At(k, "call")
    /\ tasks' = [tasks EXCEPT ![k].todo = Filled(Tail(@), body),
                              ![k].ver = ver', ![k].refused = (body = <<"error">>)]
    /\ UNCHANGED <<input, socket, reader, buf, cur, named, output>>

CallsSet(k) ==
    /\ Command(tasks[k].line) = "set"
    /\ ver' = IF locked THEN ver ELSE ver + 1
    /\ UNCHANGED locked
    /\ Returns(k, IF locked THEN <<"error">> ELSE <<>>)

(* DelVar answers that it failed when there is no name, and only then.     *)
CallsDelete(k) ==
    /\ Command(tasks[k].line) = "delete"
    /\ ver' = IF Payload(tasks[k].line) = "" THEN ver ELSE ver + 1
    /\ UNCHANGED locked
    /\ Returns(k, <<"deleteresult">>)

(* LockVar answers when it has the lock; without a timeout its first try   *)
(* is the last, because the default overflows (module VarLock).            *)
CallsLock(k) ==
    /\ Command(tasks[k].line) = "lock"
    /\ ~locked \/ Payload(tasks[k].line) # NameLong
    /\ locked' = TRUE
    /\ UNCHANGED ver
    /\ Returns(k, <<"lockresult">>)

(* The long timeout ends.                                                  *)
LockTimesOut(k) ==
    /\ Command(tasks[k].line) = "lock" /\ Payload(tasks[k].line) = NameLong
    /\ locked
    /\ UNCHANGED store
    /\ Returns(k, <<"lockresult">>)

CallsUnlock(k) ==
    /\ Command(tasks[k].line) = "unlock"
    /\ locked' = FALSE
    /\ UNCHANGED ver
    /\ Returns(k, <<"unlockdone">>)

(* The calls that leave the variable alone: GetVars, GetChildsOfVar,       *)
(* IsVarLocked, ObserveVar, StopObservingVar and ClientConnected.          *)
CallsOther(k) ==
    LET cmd == Command(tasks[k].line)
    IN  /\ cmd \in {"get", "getchilds", "lockstatus", "subscribe", "unsubscribe", "setid"}
        /\ UNCHANGED store
        /\ Returns(k, CASE cmd = "get" -> IF Payload(tasks[k].line) = "" THEN <<"error">>
                                         ELSE <<"varvalue">>
                        [] cmd = "getchilds" -> <<"childs">>
                        [] cmd = "lockstatus" -> <<"lockstatusresult">>
                        [] cmd = "setid" -> <<"aoc">>
                        [] OTHER -> <<>>)

(* The end of this answer tells that the variable was written.             *)
Confirms(k) ==
    /\ Command(tasks[k].line) \in {"set", "delete"} /\ Payload(tasks[k].line) # ""
    /\ ~tasks[k].refused

(* One protocolWrite of the answer.  A failed write is not noticed by the  *)
(* command, which goes on.                                                 *)
Writes(k) ==
    LET msg == Head(tasks[k].todo)
    IN  /\ tasks[k].todo # <<>> /\ msg \notin {"call", "name"}
        /\ tasks' = [tasks EXCEPT ![k].todo = Tail(@)]
        /\ IF socket = "open"
           THEN /\ last' = [of |-> k, msg |-> msg]
                /\ answered' = answered \cup (IF Ends(msg) THEN {k} ELSE {})
                /\ acked' = IF Ends(msg) /\ Confirms(k) THEN acked + 1 ELSE acked
           ELSE UNCHANGED <<last, answered, acked>>
        /\ UNCHANGED <<input, socket, reader, buf, cur, named, greeted, store>>

-----------------------------------------------------------------------------
Calls(k) ==
    CallsSet(k) \/ CallsDelete(k) \/ CallsLock(k) \/ CallsUnlock(k) \/ CallsOther(k)

Reads == \E n \in 1..Len(left) : Receive(n)
Splits == TakeLine \/ KeepTail
Runs(k) == GetsName(k) \/ Calls(k) \/ Writes(k)

LinesNext ==
    \/ Greet \/ Reads \/ Splits \/ Breaks \/ Disconnected
    \/ \E k \in DOMAIN tasks : Runs(k) \/ LockTimesOut(k)

(* Go runs every goroutine that can go on.  A client may send any timeout, *)
(* so nothing is assumed of when a long one ends.                          *)
FairLines == 3
LinesSpec ==
    /\ LinesInit /\ [][LinesNext]_lineVars
    /\ WF_lineVars(Greet) /\ WF_lineVars(Reads) /\ WF_lineVars(Splits) /\ WF_lineVars(Disconnected)
    /\ \A k \in 1..FairLines : WF_lineVars(k \in DOMAIN tasks /\ Runs(k))

-----------------------------------------------------------------------------
NLs(s) == {i \in DOMAIN s : s[i] = NL}
(* The place of the k-th end of line, 0 for k = 0.                         *)
NLAt(s, k) == IF k = 0 THEN 0
              ELSE CHOOSE i \in NLs(s) : Cardinality({j \in NLs(s) : j <= i}) = k
LinesIn(s) == [k \in 1..Cardinality(NLs(s)) |->
                 Trim(SubSeq(s, NLAt(s, k - 1) + 1, NLAt(s, k) - 1))]
RestOf(s) == SubSeq(s, NLAt(s, Cardinality(NLs(s))) + 1, Len(s))

(* Types of the connection, the tasks and what they saw.                   *)
LinesTypeOK ==
    /\ socket \in {"open", "broken", "closed"}
    /\ reader \in {"greets", "reads", "splits"}
    /\ greeted \in 0..Len(Greeting) /\ named \in BOOLEAN /\ locked \in BOOLEAN
    /\ answered \subseteq DOMAIN tasks /\ last.of \in {0} \cup DOMAIN tasks
    /\ acked \in Nat
    /\ \A k \in DOMAIN tasks : tasks[k].ver \in 0..ver /\ tasks[k].floor \in 0..acked

(* The data callback: however the reads cut the stream, the lines that got *)
(* a goroutine and those still in the buffer are the lines of what was     *)
(* read, each once and in order, and the unfinished rest is kept.  Types   *)
(* included.                                                               *)
FramesMatch ==
    LET kept == IF reader = "splits" THEN cur ELSE buf
    IN  /\ LinesTypeOK
        /\ socket # "closed" =>
              /\ [k \in DOMAIN tasks |-> tasks[k].line] \o LinesIn(kept) = LinesIn(got)
              /\ RestOf(kept) = RestOf(got)

(* processReceivedMessage confirms set and delete after the controller has *)
(* written: no more writes are confirmed than were made, and a get whose   *)
(* line was read after a confirmation reports that write or a later one.   *)
AckedIsSeen ==
    /\ acked <= ver
    /\ last.msg = "varvalue" => tasks[last.of].ver >= tasks[last.of].floor

(* A client that awaits each answer reads whole blocks in the order of its *)
(* commands, after the header; lockstatus answers without a block.         *)
PatientReadsBlocks ==
    [][patient /\ last' # last =>
          /\ greeted = Len(Greeting)
          /\ IF last = NoMessage \/ Ends(last.msg)
             THEN Opens(last'.msg) /\ last'.of > last.of
             ELSE ~Opens(last'.msg) /\ last'.of = last.of]_lineVars

Speechless(k) ==
    \/ Command(tasks[k].line) \notin Commands
    \/ /\ Command(tasks[k].line) = "unsubscribe"
       /\ \E j \in DOMAIN tasks : tasks[j].line = <<"setid">>
Waits(line) == Command(line) = "lock" /\ Payload(line) = NameLong

(* Nothing holds the reader up, not even a lock that waits: on a           *)
(* connection that stays open everything sent is read, and every command   *)
(* is answered at last, but for a lock on a variable that nobody unlocks,  *)
(* an unknown command, and unsubscribe on a connection with an empty id.   *)
EveryLineIsAnswered ==
    <>[](socket = "open" =>
           /\ patient \/ (left = <<>> /\ reader = "reads")
           /\ \A k \in DOMAIN tasks :
                 \/ k \in answered \/ Speechless(k)
                 \/ Waits(tasks[k].line) /\ locked)
=============================================================================

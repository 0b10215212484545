---------------------------- MODULE VSTPSession ----------------------------
(***************************************************************************)
(* services/apis/vstp/vstp.go: which TCP connection is which client.       *)
(*                                                                         *)
(* Two maps, both guarded by clientsLock, tie a client id to a connection: *)
(* clientsById routes the notifications of an id, clientsByTcpCli names    *)
(* the connection.  The handler goroutine of a connection runs the connect *)
(* callback, the data callback for every chunk and, when a read fails, the *)
(* disconnect callback.  Every line of a chunk is processed by a goroutine *)
(* of its own, so the lines of a connection may run in any order, and      *)
(* after its disconnect callback.                                          *)
(*                                                                         *)
(* Only the commands that touch the maps are kept: setid and subscribe.    *)
(* The tail of an unfinished line in incomingDataBuffer is abstracted to   *)
(* the presence of the buffer.                                             *)
(***************************************************************************)
EXTENDS Naturals, FiniteSets

CONSTANTS Conns,        \* TCP connections; an accepted one is never reused
          Ids,          \* non-empty client ids
          Asked,        \* ids that clients send with setid
          Suggested,    \* Suggested[n]: the ids "n-<fun name>"
          Stamps,       \* ids made from time.Now().UnixNano()
          EmptyId,      \* ""
          NoId,         \* no entry for a connection
          NoConn,       \* no entry for an id
          MaxLines      \* lines that a connection sends

ASSUME SessionAssumption ==
    /\ EmptyId \notin Ids /\ NoId \notin Ids /\ NoId # EmptyId
    /\ NoConn \notin Conns
    /\ Asked \subseteq Ids \cup {EmptyId}
    /\ \A n \in DOMAIN Suggested : Suggested[n] \subseteq Ids
    /\ Stamps \subseteq Ids
    /\ MaxLines \in Nat

VARIABLES stage,            \* callbacks that NewVSTP has set so far
          conn,             \* where the handler goroutine of a connection is, and how it ended
          pending,          \* connect callback: the count read and the id made
          cliIdCount,
          clientsById, clientsByTcpCli,
          buffered,         \* connections with an entry in incomingDataBuffer
          running,          \* processReceivedMessage goroutines
          sent,             \* lines that each connection has sent
          wedged            \* a goroutine holds clientsLock for ever

maps == <<clientsById, clientsByTcpCli>>
vars == <<stage, conn, pending, cliIdCount, maps, buffered, running, sent, wedged>>

AllIds == Ids \cup {EmptyId}

SetIdLines == [cmd : {"setid"}, id : Asked]
SubscribeLine == [cmd |-> "subscribe", id |-> EmptyId]
Lines == SetIdLines \cup {SubscribeLine}

NoPending == [seen |-> 0, id |-> NoId]

SessionInit ==
    /\ stage = 0
    /\ conn = [c \in Conns |-> "none"]
    /\ pending = [c \in Conns |-> NoPending]
    /\ cliIdCount = 0
    /\ clientsById = [i \in AllIds |-> NoConn]
    /\ clientsByTcpCli = [c \in Conns |-> NoId]
    /\ buffered = {}
    /\ running = {}
    /\ sent = [c \in Conns |-> 0]
    /\ wedged = FALSE

-----------------------------------------------------------------------------
(* NewVSTP, after tcpserver.New started to accept: SetOnCLientConnect,      *)
(* SetOnClientDisconnect and SetOnClientData, in this order.               *)
SetsCallback ==
    /\ stage < 3
    /\ stage' = stage + 1
    /\ UNCHANGED <<conn, pending, cliIdCount, maps, buffered, running, sent, wedged>>

ConnectIsSet == stage >= 1
DisconnectIsSet == stage >= 2
DataIsSet == stage >= 3

(* handleClient before the connect callback is set: the default callback   *)
(* does nothing and the connection stays unknown to VSTP.                  *)
AcceptsUnseen(c) ==
    /\ conn[c] = "none"
    /\ ~ConnectIsSet
    /\ conn' = [conn EXCEPT ![c] = "open"]
    /\ UNCHANGED <<stage, pending, cliIdCount, maps, buffered, running, sent, wedged>>

(* The connect callback makes an id from cliIdCount and a random name.  It *)
(* holds no lock: handlers of several connections race for the counter.    *)
Accepts(c) ==
    /\ conn[c] = "none"
    /\ ConnectIsSet
    /\ cliIdCount \in DOMAIN Suggested
    /\ \E i \in Suggested[cliIdCount] :
          pending' = [pending EXCEPT ![c] = [seen |-> cliIdCount, id |-> i]]
    /\ conn' = [conn EXCEPT ![c] = "naming"]
    /\ UNCHANGED <<stage, cliIdCount, maps, buffered, running, sent, wedged>>

(* cliIdCount++ without a lock may lose the increments of others.          *)
Increments(c) == cliIdCount' \in {pending[c].seen + 1, cliIdCount + 1}

(* The id names the connection and the connection serves the id.           *)
Bind(c, i) ==
    /\ clientsById' = [clientsById EXCEPT ![i] = c]
    /\ clientsByTcpCli' = [clientsByTcpCli EXCEPT ![c] = i]

(* Broken variant: the buffer is left to the first chunk. *)
ConnectsNoBuffer(c) ==
    /\ conn[c] = "naming"
    /\ ~wedged
    /\ Increments(c)
    /\ Bind(c, pending[c].id)
    /\ conn' = [conn EXCEPT ![c] = "open"]
    /\ pending' = [pending EXCEPT ![c] = NoPending]
    /\ UNCHANGED <<stage, buffered, running, sent, wedged>>

(* The rest of the connect callback.  The header it sends is left out.     *)
Connects(c) ==
    /\ conn[c] = "naming"
    /\ ~wedged
    /\ Increments(c)
    /\ Bind(c, pending[c].id)
    /\ buffered' = buffered \cup {c}
    /\ conn' = [conn EXCEPT ![c] = "open"]
    /\ pending' = [pending EXCEPT ![c] = NoPending]
    /\ UNCHANGED <<stage, running, sent, wedged>>

(* The data callback, one line of the chunk: a goroutine per line.         *)
ReceivesLine(c) ==
    /\ c \in buffered
    /\ \E line \in Lines : running' = running \cup {<<c, sent[c], line>>}
    /\ sent' = [sent EXCEPT ![c] = @ + 1]
    /\ UNCHANGED <<buffered, wedged>>

(* The data callback for a connection without a buffer: it makes one and   *)
(* calls clientsLock.Lock() a second time.                                 *)
ReceivesFromUnknown(c) ==
    /\ c \notin buffered
    /\ buffered' = buffered \cup {c}
    /\ wedged' = TRUE
    /\ UNCHANGED <<running, sent>>

Receives(c) ==
    /\ conn[c] = "open"
    /\ DataIsSet
    /\ ~wedged
    /\ sent[c] < MaxLines
    /\ ReceivesLine(c) \/ ReceivesFromUnknown(c)
    /\ UNCHANGED <<stage, conn, pending, cliIdCount, maps>>

-----------------------------------------------------------------------------
(* Broken variant of the fallback: no test that the entry is of this cli.  *)
ForgetAny(c) ==
    IF clientsByTcpCli[c] # NoId
    THEN /\ clientsById' = [clientsById EXCEPT ![clientsByTcpCli[c]] = NoConn]
         /\ clientsByTcpCli' = [clientsByTcpCli EXCEPT ![c] = NoId]
    ELSE /\ \E i \in AllIds : clientsById' = [clientsById EXCEPT ![i] = NoConn]
         /\ UNCHANGED clientsByTcpCli

(* Broken variant: the disconnect callback leaves the maps alone.          *)
ForgetNothing(c) == UNCHANGED maps

(* The disconnect callback on the maps: by the name of the connection, or  *)
(* else by a scan that stops at the first id routed to it.                 *)
Forget(c) ==
    IF clientsByTcpCli[c] # NoId
    THEN /\ clientsById' = [clientsById EXCEPT ![clientsByTcpCli[c]] = NoConn]
         /\ clientsByTcpCli' = [clientsByTcpCli EXCEPT ![c] = NoId]
    ELSE /\ \/ \E i \in AllIds : /\ clientsById[i] = c
                                 /\ clientsById' = [clientsById EXCEPT ![i] = NoConn]
            \/ /\ \A i \in AllIds : clientsById[i] # c
               /\ UNCHANGED clientsById
         /\ UNCHANGED clientsByTcpCli

LinesOf(c) == {g \in running : g[1] = c}

Disconnects(c) ==
    /\ conn[c] = "open"
    /\ DisconnectIsSet
    /\ ~wedged
    /\ Forget(c)
    /\ buffered' = buffered \ {c}
    /\ conn' = [conn EXCEPT ![c] = IF LinesOf(c) = {} THEN "closed" ELSE "late"]
    /\ UNCHANGED <<stage, pending, cliIdCount, running, sent, wedged>>

(* A connection that ends before the disconnect callback is set.           *)
DisconnectsUnseen(c) ==
    /\ conn[c] = "open"
    /\ ~DisconnectIsSet
    /\ conn' = [conn EXCEPT ![c] = "unseen"]
    /\ UNCHANGED <<stage, pending, cliIdCount, maps, buffered, running, sent, wedged>>

-----------------------------------------------------------------------------
(* Broken variant: the route of the old id stays.                          *)
RenameKeepsOld(c, i) == Bind(c, i)

(* processReceivedMessage, setid: the old id loses its route, the new one  *)
(* is bound.  An old id "" counts as none.                                 *)
Rename(c, i) ==
    LET old == clientsByTcpCli[c]
        cleared == IF old \in {NoId, EmptyId} THEN clientsById
                   ELSE [clientsById EXCEPT ![old] = NoConn]
    IN  /\ clientsById' = [cleared EXCEPT ![i] = c]
        /\ clientsByTcpCli' = [clientsByTcpCli EXCEPT ![c] = i]

(* processReceivedMessage, subscribe: a connection with no name or with    *)
(* the name "" gets one from the clock.                                    *)
Identify(c) ==
    IF clientsByTcpCli[c] \in {NoId, EmptyId}
    THEN \E i \in Stamps : /\ \A d \in Conns : clientsByTcpCli[d] # i
                           /\ Bind(c, i)
    ELSE UNCHANGED maps

Processes(c) ==
    /\ ~wedged
    /\ \E g \in running :
          /\ g[1] = c
          /\ \/ g[3].cmd = "setid" /\ Rename(c, g[3].id)
             \/ g[3].cmd = "subscribe" /\ Identify(c)
          /\ running' = running \ {g}
    /\ UNCHANGED <<stage, conn, pending, cliIdCount, buffered, sent, wedged>>

SessionNext ==
    \/ SetsCallback
    \/ \E c \in Conns :
          \/ AcceptsUnseen(c)
          \/ Accepts(c)
          \/ Connects(c)
          \/ Receives(c)
          \/ Disconnects(c)
          \/ DisconnectsUnseen(c)
          \/ Processes(c)

SessionSpec == SessionInit /\ [][SessionNext]_vars

-----------------------------------------------------------------------------
(* Properties *)

(* A connection ends "late" when some of its lines are still running, and  *)
(* "unseen" when the disconnect callback was not set yet.                  *)
Stages == {"none", "naming", "open", "closed", "late", "unseen"}

(* Types of the maps, the connections and the lines. *)
SessionTypeOK ==
    /\ stage \in 0..3
    /\ conn \in [Conns -> Stages]
    /\ pending \in [Conns -> [seen : Nat, id : Ids \cup {NoId}]]
    /\ \A c \in Conns : conn[c] = "naming" => pending[c].id \in Ids
    /\ cliIdCount \in Nat
    /\ clientsById \in [AllIds -> Conns \cup {NoConn}]
    /\ clientsByTcpCli \in [Conns -> AllIds \cup {NoId}]
    /\ buffered \subseteq Conns
    /\ running \subseteq Conns \X Nat \X Lines
    /\ sent \in [Conns -> Nat]
    /\ wedged \in BOOLEAN

(* The connection that the notifications of an id go to is named by that   *)
(* id, whatever order connects, setids, subscribes and disconnects run in  *)
(* and whoever asks for whose id: no connection is served under an id that *)
(* it gave up.  Holds as long as nobody asks for the id "".                *)
RouteMatchesName ==
    \A i \in AllIds, c \in Conns : clientsById[i] = c => clientsByTcpCli[c] = i

(* The route of an id to a connection is lost only if the connection takes *)
(* another name or closes, or if another connection has or takes that id.  *)
RoutesAreNotStolen ==
    [][\A i \in AllIds, c \in Conns :
          clientsById[i] = c /\ clientsById'[i] # c =>
             \/ clientsByTcpCli'[c] # i
             \/ \E d \in Conns \ {c} : i \in {clientsByTcpCli[d], clientsByTcpCli'[d]}]_vars

(* vstp.go:106, "remove from maps using secondary index": a connection     *)
(* that closed with none of its lines still running is in neither map, so  *)
(* CheckAlive of no id answers through it, however its lines and those of  *)
(* others renamed it.  (A line that runs later puts it back.)              *)
ClosedIsForgotten ==
    \A c \in Conns :
        conn[c] = "closed" => /\ clientsByTcpCli[c] = NoId
                              /\ \A i \in AllIds : clientsById[i] # c

(* The API stops (clientsLock is taken twice) only through a connection    *)
(* accepted before NewVSTP had set the connect callback: a connection that *)
(* was ever given a name always has its buffer while it is open.           *)
OnlyUnseenWedges ==
    wedged => \E c \in Conns : conn[c] = "open" /\ clientsByTcpCli[c] = NoId

=============================================================================

----------------------------- MODULE VSTPProofs -----------------------------
(***************************************************************************)
(* Proofs about services/apis/vstp/vstp.go: its session maps, for any      *)
(* number of connections, lines and ids, and the lines of one connection,  *)
(* for any streams of bytes, however the network splits them and the       *)
(* goroutines of the commands interleave.                                  *)
(***************************************************************************)
EXTENDS VSTPSession, VSTPLines, FiniteSetTheorems, SequenceTheorems, WellFoundedInduction, TLAPS

-----------------------------------------------------------------------------
(* VSTPSession *)

(* Binding a connection to an id keeps the types of the maps. *)
LEMMA BindTyped ==
  ASSUME SessionTypeOK, NEW c \in Conns, NEW i \in AllIds, Bind(c, i)
  PROVE  /\ clientsById' \in [AllIds -> Conns \cup {NoConn}]
         /\ clientsByTcpCli' \in [Conns -> AllIds \cup {NoId}]
  BY DEF SessionTypeOK, Bind

(* The initial values have their types. *)
LEMMA InitTyped == SessionInit => SessionTypeOK
<1> SUFFICES ASSUME SessionInit
             PROVE  SessionTypeOK
  OBVIOUS
<1>1. NoPending \in [seen : Nat, id : Ids \cup {NoId}]
  BY DEF NoPending
<1>2. pending \in [Conns -> [seen : Nat, id : Ids \cup {NoId}]]
  BY <1>1 DEF SessionInit
<1>3. /\ clientsById \in [AllIds -> Conns \cup {NoConn}]
      /\ clientsByTcpCli \in [Conns -> AllIds \cup {NoId}]
  BY DEF SessionInit
<1>4. conn \in [Conns -> Stages] /\ \A c \in Conns : conn[c] # "naming"
  BY DEF SessionInit, Stages
<1>5. sent \in [Conns -> Nat] /\ stage \in 0..3 /\ cliIdCount \in Nat
  BY DEF SessionInit
<1>6. wedged \in BOOLEAN /\ buffered \subseteq Conns /\ running \subseteq Conns \X Nat \X Lines
  BY DEF SessionInit
<1> QED
  BY <1>2, <1>3, <1>4, <1>5, <1>6 DEF SessionTypeOK

(* The connect, setid, subscribe and disconnect handlers of vstp.go keep   *)
(* every variable of the session within its type.                          *)
THEOREM SessionTypeCorrect == SessionSpec => []SessionTypeOK
<1>1. SessionInit => SessionTypeOK
  BY InitTyped
<1>2. SessionTypeOK /\ [SessionNext]_vars => SessionTypeOK'
  <2> SUFFICES ASSUME SessionTypeOK, [SessionNext]_vars
               PROVE  SessionTypeOK'
    OBVIOUS
  <2>1. CASE SetsCallback
    BY <2>1 DEF SetsCallback, SessionTypeOK, maps
  <2>2. ASSUME NEW c \in Conns, AcceptsUnseen(c)
        PROVE  SessionTypeOK'
    BY <2>2 DEF AcceptsUnseen, SessionTypeOK, Stages, maps
  <2>3. ASSUME NEW c \in Conns, Accepts(c)
        PROVE  SessionTypeOK'
    <3>1. PICK i \in Suggested[cliIdCount] :
              pending' = [pending EXCEPT ![c] = [seen |-> cliIdCount, id |-> i]]
      BY <2>3 DEF Accepts
    <3>2. i \in Ids
      BY <2>3, <3>1, SessionAssumption DEF Accepts
    <3> QED
      BY <2>3, <3>1, <3>2 DEF Accepts, SessionTypeOK, Stages, maps
  <2>4. ASSUME NEW c \in Conns, Connects(c)
        PROVE  SessionTypeOK'
    <3>1. pending[c].id \in Ids /\ pending[c].seen \in Nat
      BY <2>4 DEF Connects, SessionTypeOK
    <3>2. cliIdCount' \in Nat
      BY <2>4, <3>1 DEF Connects, Increments, SessionTypeOK
    <3>3. /\ clientsById' \in [AllIds -> Conns \cup {NoConn}]
          /\ clientsByTcpCli' \in [Conns -> AllIds \cup {NoId}]
      BY <2>4, <3>1, BindTyped DEF Connects, AllIds
    <3> QED
      BY <2>4, <3>2, <3>3 DEF Connects, SessionTypeOK, NoPending, Stages
  <2>5. ASSUME NEW c \in Conns, Receives(c)
        PROVE  SessionTypeOK'
    <3>1. CASE ReceivesLine(c)
      <4>1. PICK line \in Lines : running' = running \cup {<<c, sent[c], line>>}
        BY <3>1 DEF ReceivesLine
      <4>2. running' \subseteq Conns \X Nat \X Lines
        BY <4>1 DEF SessionTypeOK
      <4> QED
        BY <2>5, <3>1, <4>2 DEF Receives, ReceivesLine, SessionTypeOK, maps
    <3>2. CASE ReceivesFromUnknown(c)
      BY <2>5, <3>2 DEF Receives, ReceivesFromUnknown, SessionTypeOK, maps
    <3> QED
      BY <2>5, <3>1, <3>2 DEF Receives
  <2>6. ASSUME NEW c \in Conns, Disconnects(c)
        PROVE  SessionTypeOK'
    <3>1. /\ clientsById' \in [AllIds -> Conns \cup {NoConn}]
          /\ clientsByTcpCli' \in [Conns -> AllIds \cup {NoId}]
      BY <2>6 DEF Disconnects, Forget, SessionTypeOK
    <3> QED
      BY <2>6, <3>1 DEF Disconnects, SessionTypeOK, Stages
  <2>7. ASSUME NEW c \in Conns, DisconnectsUnseen(c)
        PROVE  SessionTypeOK'
    BY <2>7 DEF DisconnectsUnseen, SessionTypeOK, Stages, maps
  <2>8. ASSUME NEW c \in Conns, Processes(c)
        PROVE  SessionTypeOK'
    <3>1. PICK g \in running :
              /\ \/ g[3].cmd = "setid" /\ Rename(c, g[3].id)
                 \/ g[3].cmd = "subscribe" /\ Identify(c)
              /\ running' = running \ {g}
      BY <2>8 DEF Processes
    <3>2. g[3].id \in AllIds
      <4>1. g[3] \in Lines
        BY DEF SessionTypeOK
      <4> QED
        BY <4>1, SessionAssumption DEF Lines, SetIdLines, SubscribeLine, AllIds
    <3>3. ASSUME Rename(c, g[3].id)
          PROVE  /\ clientsById' \in [AllIds -> Conns \cup {NoConn}]
                 /\ clientsByTcpCli' \in [Conns -> AllIds \cup {NoId}]
      BY <3>2, <3>3 DEF Rename, SessionTypeOK
    <3>4. ASSUME Identify(c)
          PROVE  /\ clientsById' \in [AllIds -> Conns \cup {NoConn}]
                 /\ clientsByTcpCli' \in [Conns -> AllIds \cup {NoId}]
      <4>1. CASE clientsByTcpCli[c] \in {NoId, EmptyId}
        <5>1. PICK i \in Stamps : Bind(c, i)
          BY <3>4, <4>1 DEF Identify
        <5>2. i \in AllIds
          BY SessionAssumption DEF AllIds
        <5> QED
          BY <5>1, <5>2, BindTyped
      <4>2. CASE clientsByTcpCli[c] \notin {NoId, EmptyId}
        <5>1. UNCHANGED maps
          BY <3>4, <4>2 DEF Identify
        <5> QED
          BY <5>1 DEF maps, SessionTypeOK
      <4> QED
        BY <4>1, <4>2
    <3>5. /\ clientsById' \in [AllIds -> Conns \cup {NoConn}]
          /\ clientsByTcpCli' \in [Conns -> AllIds \cup {NoId}]
      BY <3>1, <3>3, <3>4
    <3>6. running' \subseteq Conns \X Nat \X Lines
      BY <3>1 DEF SessionTypeOK
    <3>7. UNCHANGED <<stage, conn, pending, cliIdCount, buffered, sent, wedged>>
      BY <2>8 DEF Processes
    <3> QED
      BY <3>5, <3>6, <3>7 DEF SessionTypeOK
  <2>9. CASE UNCHANGED vars
    BY <2>9 DEF vars, maps, SessionTypeOK
  <2> QED
    BY <2>1, <2>2, <2>3, <2>4, <2>5, <2>6, <2>7, <2>8, <2>9 DEF SessionNext
<1> QED
  BY <1>1, <1>2, PTL DEF SessionSpec

(* A step that binds a connection without any route to an id keeps every   *)
(* route with its name: the old holder of the id only loses its route.     *)
LEMMA BindKeepsRoutes ==
  ASSUME SessionTypeOK, RouteMatchesName,
         NEW c \in Conns, NEW i \in AllIds, Bind(c, i),
         \A j \in AllIds : clientsById[j] = c => j = i
  PROVE  RouteMatchesName'
  BY DEF SessionTypeOK, RouteMatchesName, Bind

(* The inductive invariant: besides the routes, no connection is named "", *)
(* one without a buffer that is not over is not named and has no lines,    *)
(* and a line belongs to a connection that is open or ended with lines.    *)
SessionInv ==
    /\ SessionTypeOK
    /\ RouteMatchesName
    /\ \A c \in Conns : clientsByTcpCli[c] # EmptyId
    /\ \A c \in Conns : conn[c] \in {"none", "naming", "closed"} => clientsByTcpCli[c] = NoId
    /\ \A g \in running : conn[g[1]] \in {"open", "late", "unseen"}

(* Every callback and every line keeps it. *)
LEMMA SessionInvariant ==
  ASSUME EmptyId \notin Asked
  PROVE  SessionSpec => []SessionInv
<1> DEFINE IInv == SessionInv
<1>1. SessionInit => IInv
  <2>1. SessionInit => SessionTypeOK
    BY InitTyped
  <2>2. SessionInit => RouteMatchesName
    BY SessionAssumption DEF SessionInit, RouteMatchesName
  <2>3. SessionInit => \A c \in Conns : clientsByTcpCli[c] = NoId
    BY DEF SessionInit
  <2>4. SessionInit => running = {}
    BY DEF SessionInit
  <2> QED
    BY <2>1, <2>2, <2>3, <2>4, SessionAssumption DEF SessionInv
<1>2. IInv /\ SessionTypeOK' /\ [SessionNext]_vars => IInv'
  <2> SUFFICES ASSUME IInv, SessionTypeOK', [SessionNext]_vars
               PROVE  IInv'
    OBVIOUS
  <2> USE DEF IInv, SessionInv
  <2>1. CASE SetsCallback
    BY <2>1 DEF SetsCallback, RouteMatchesName, maps
  <2>2. ASSUME NEW c \in Conns, AcceptsUnseen(c)
        PROVE  IInv'
    BY <2>2 DEF AcceptsUnseen, RouteMatchesName, maps, SessionTypeOK
  <2>3. ASSUME NEW c \in Conns, Accepts(c)
        PROVE  IInv'
    BY <2>3 DEF Accepts, RouteMatchesName, maps, SessionTypeOK
  <2>4. ASSUME NEW c \in Conns, Connects(c)
        PROVE  IInv'
    <3>1. pending[c].id \in Ids /\ Bind(c, pending[c].id)
      BY <2>4 DEF Connects, SessionTypeOK
    <3>2. \A j \in AllIds : clientsById[j] # c
      <4>1. clientsByTcpCli[c] = NoId
        BY <2>4 DEF Connects
      <4> QED
        BY <4>1, SessionAssumption DEF RouteMatchesName, AllIds
    <3>3. RouteMatchesName'
      BY <3>1, <3>2, BindKeepsRoutes DEF AllIds
    <3> QED
      BY <2>4, <3>1, <3>3, SessionAssumption DEF Connects, Bind, SessionTypeOK
  <2>5. ASSUME NEW c \in Conns, Receives(c)
        PROVE  IInv'
    <3>1. \A g \in running' : g \in running \/ g[1] = c
      BY <2>5 DEF Receives, ReceivesLine, ReceivesFromUnknown
    <3> QED
      BY <2>5, <3>1 DEF Receives, RouteMatchesName, maps
  <2>6. ASSUME NEW c \in Conns, Disconnects(c)
        PROVE  IInv'
    <3>0. \A g \in running' : conn'[g[1]] \in {"open", "late", "unseen"}
      BY <2>6 DEF Disconnects, SessionTypeOK, LinesOf
    <3>1. CASE clientsByTcpCli[c] # NoId
      <4>1. /\ clientsById' = [clientsById EXCEPT ![clientsByTcpCli[c]] = NoConn]
            /\ clientsByTcpCli' = [clientsByTcpCli EXCEPT ![c] = NoId]
        BY <2>6, <3>1 DEF Disconnects, Forget
      <4>2. RouteMatchesName'
        BY <4>1, SessionAssumption DEF RouteMatchesName, SessionTypeOK
      <4> QED
        BY <2>6, <3>0, <4>1, <4>2, SessionAssumption DEF Disconnects, SessionTypeOK
    <3>2. CASE clientsByTcpCli[c] = NoId
      <4>1. \A i \in AllIds : clientsById[i] # c
        BY <3>2, SessionAssumption DEF RouteMatchesName, AllIds
      <4>2. UNCHANGED maps
        BY <2>6, <3>2, <4>1 DEF Disconnects, Forget, maps
      <4>3. RouteMatchesName'
        BY <4>2 DEF RouteMatchesName, maps
      <4>4. \A d \in Conns : clientsByTcpCli'[d] = clientsByTcpCli[d]
        BY <4>2 DEF maps
      <4>5. \A d \in Conns \ {c} : conn'[d] = conn[d]
        BY <2>6 DEF Disconnects, SessionTypeOK
      <4> QED
        BY <3>0, <3>2, <4>3, <4>4, <4>5
    <3> QED
      BY <3>1, <3>2
  <2>7. ASSUME NEW c \in Conns, DisconnectsUnseen(c)
        PROVE  IInv'
    BY <2>7 DEF DisconnectsUnseen, RouteMatchesName, maps, SessionTypeOK
  <2>8. ASSUME NEW c \in Conns, Processes(c)
        PROVE  IInv'
    <3>1. PICK g \in running :
              /\ g[1] = c
              /\ \/ g[3].cmd = "setid" /\ Rename(c, g[3].id)
                 \/ g[3].cmd = "subscribe" /\ Identify(c)
              /\ running' = running \ {g}
      BY <2>8 DEF Processes
    <3>2. conn[c] \in {"open", "late", "unseen"}
      BY <3>1
    <3>3. ASSUME RouteMatchesName',
                 \A d \in Conns : clientsByTcpCli'[d] # EmptyId,
                 \A d \in Conns \ {c} : clientsByTcpCli'[d] = clientsByTcpCli[d]
          PROVE  IInv'
      BY <2>8, <3>1, <3>2, <3>3 DEF Processes
    <3>4. CASE g[3].cmd = "setid" /\ Rename(c, g[3].id)
      <4> DEFINE i == g[3].id
                 old == clientsByTcpCli[c]
      <4>1. i \in Ids
        <5>1. g[3] \in Lines
          BY DEF SessionTypeOK
        <5>2. g[3].cmd = "setid"
          BY <3>4
        <5>3. g[3].id \in Asked
          BY <5>1, <5>2 DEF Lines, SetIdLines, SubscribeLine
        <5> QED
          BY <5>3, SessionAssumption
      <4>2. /\ clientsByTcpCli' = [clientsByTcpCli EXCEPT ![c] = i]
            /\ \A d \in Conns : clientsByTcpCli'[d] # EmptyId
        BY <3>4, <4>1, SessionAssumption DEF Rename, SessionTypeOK
      <4>3. \A j \in AllIds : clientsById'[j] = (IF j = i THEN c ELSE IF j = old THEN NoConn ELSE clientsById[j])
        <5>1. old # EmptyId
          OBVIOUS
        <5> QED
          BY <3>4, <4>1, <5>1, SessionAssumption DEF Rename, SessionTypeOK, AllIds
      <4>4. RouteMatchesName'
        BY <4>1, <4>2, <4>3, SessionAssumption DEF RouteMatchesName, SessionTypeOK
      <4> HIDE DEF i
      <4> QED
        BY <3>3, <4>2, <4>4 DEF SessionTypeOK
    <3>5. CASE Identify(c)
      <4>1. CASE clientsByTcpCli[c] = NoId
        <5>1. PICK i \in Stamps : Bind(c, i)
          BY <3>5, <4>1 DEF Identify
        <5>2. i \in Ids /\ i \in AllIds
          BY SessionAssumption DEF AllIds
        <5>3. \A j \in AllIds : clientsById[j] # c
          BY <4>1, SessionAssumption DEF RouteMatchesName, AllIds
        <5>4. RouteMatchesName'
          BY <5>1, <5>2, <5>3, BindKeepsRoutes
        <5> QED
          BY <3>3, <5>1, <5>2, <5>4, SessionAssumption DEF Bind, SessionTypeOK
      <4>2. CASE clientsByTcpCli[c] # NoId
        <5>1. UNCHANGED maps
          BY <3>5, <4>2 DEF Identify
        <5> QED
          BY <3>3, <5>1 DEF maps, RouteMatchesName
      <4> QED
        BY <4>1, <4>2
    <3> QED
      BY <3>1, <3>4, <3>5
  <2>9. CASE UNCHANGED vars
    BY <2>9 DEF vars, maps, RouteMatchesName
  <2> QED
    BY <2>1, <2>2, <2>3, <2>4, <2>5, <2>6, <2>7, <2>8, <2>9 DEF SessionNext
<1> QED
  BY <1>1, <1>2, SessionTypeCorrect, PTL DEF SessionSpec

(* If no client asks for the id "", whatever order the callbacks and the   *)
(* line goroutines run in, notifications of an id go only to a connection  *)
(* that is named by it.                                                    *)
THEOREM SessionRouteMatchesName ==
  ASSUME EmptyId \notin Asked
  PROVE  SessionSpec => []RouteMatchesName
<1>1. SessionInv => RouteMatchesName
  BY DEF SessionInv
<1> QED
  BY <1>1, SessionInvariant, PTL

(* And a connection that closed with no line still running is forgotten.   *)
THEOREM SessionClosedIsForgotten ==
  ASSUME EmptyId \notin Asked
  PROVE  SessionSpec => []ClosedIsForgotten
<1>1. SessionInv => ClosedIsForgotten
  BY SessionAssumption DEF SessionInv, ClosedIsForgotten, RouteMatchesName, AllIds
<1> QED
  BY <1>1, SessionInvariant, PTL

-----------------------------------------------------------------------------
(* Who can wedge the API *)

(* An open connection without a buffer has no name and no line, and once   *)
(* the API is wedged such a connection stays.                              *)
BufferInv ==
    /\ \A c \in Conns : conn[c] \in {"none", "naming"} \/ (conn[c] = "open" /\ c \notin buffered)
                        => clientsByTcpCli[c] = NoId /\ LinesOf(c) = {}
    /\ wedged => stage = 3
    /\ OnlyUnseenWedges

(* Every step keeps it. *)
LEMMA BufferStep ==
  ASSUME SessionTypeOK, BufferInv, [SessionNext]_vars
  PROVE  BufferInv'
<1> USE DEF SessionTypeOK, BufferInv, OnlyUnseenWedges, LinesOf, maps, Stages
<1>1. CASE SetsCallback
  BY <1>1 DEF SetsCallback
<1>2. ASSUME NEW c \in Conns, AcceptsUnseen(c) PROVE BufferInv'
  BY <1>2 DEF AcceptsUnseen
<1>3. ASSUME NEW c \in Conns, Accepts(c) PROVE BufferInv'
  BY <1>3 DEF Accepts
<1>4. ASSUME NEW c \in Conns, Connects(c) PROVE BufferInv'
  BY <1>4 DEF Connects, Bind
<1>5. ASSUME NEW c \in Conns, Receives(c) PROVE BufferInv'
  <2>1. CASE ReceivesLine(c)
    BY <1>5, <2>1 DEF Receives, ReceivesLine
  <2>2. CASE ReceivesFromUnknown(c)
    BY <1>5, <2>2 DEF Receives, ReceivesFromUnknown, DataIsSet
  <2> QED BY <1>5, <2>1, <2>2 DEF Receives
<1>6. ASSUME NEW c \in Conns, Disconnects(c) PROVE BufferInv'
  <2>1. \A d \in Conns \ {c} : clientsByTcpCli'[d] = clientsByTcpCli[d]
    BY <1>6 DEF Disconnects, Forget
  <2> QED BY <1>6, <2>1 DEF Disconnects
<1>7. ASSUME NEW c \in Conns, DisconnectsUnseen(c) PROVE BufferInv'
  BY <1>7 DEF DisconnectsUnseen, DisconnectIsSet
<1>8. ASSUME NEW c \in Conns, Processes(c) PROVE BufferInv'
  <2>1. PICK g \in running :
            /\ g[1] = c
            /\ \/ g[3].cmd = "setid" /\ Rename(c, g[3].id)
               \/ g[3].cmd = "subscribe" /\ Identify(c)
            /\ running' = running \ {g}
    BY <1>8 DEF Processes
  <2>2. LinesOf(c) # {}
    BY <2>1
  <2>3. \A d \in Conns \ {c} : clientsByTcpCli'[d] = clientsByTcpCli[d]
    BY <2>1 DEF Rename, Identify, Bind
  <2>4. \A d \in Conns : LinesOf(d)' \subseteq LinesOf(d)
    BY <2>1
  <2>5. ~wedged /\ UNCHANGED <<stage, conn, buffered, wedged>>
    BY <1>8 DEF Processes
  <2> QED BY <2>2, <2>3, <2>4, <2>5
<1>9. CASE UNCHANGED vars
  BY <1>9 DEF vars
<1> QED
  BY <1>1, <1>2, <1>3, <1>4, <1>5, <1>6, <1>7, <1>8, <1>9 DEF SessionNext

(* The API stops only through a connection that was accepted before the    *)
(* connect callback was set, for any number of connections and ids.        *)
THEOREM SessionOnlyUnseenWedges == SessionSpec => []OnlyUnseenWedges
<1>1. SessionInit => BufferInv
  BY DEF SessionInit, BufferInv, OnlyUnseenWedges, LinesOf
<1>2. SessionTypeOK /\ BufferInv /\ [SessionNext]_vars => BufferInv'
  BY BufferStep
<1>3. BufferInv => OnlyUnseenWedges
  BY DEF BufferInv
<1> QED
  BY <1>1, <1>2, <1>3, SessionTypeCorrect, PTL DEF SessionSpec

-----------------------------------------------------------------------------
(* How a route is lost *)

(* A route lost in this step belongs to a connection that gave its name    *)
(* up, or to an id that another connection has or takes.                   *)
LossIsExplained ==
    \A i \in AllIds, c \in Conns :
        clientsById[i] = c /\ clientsById'[i] # c =>
           \/ clientsByTcpCli'[c] # i
           \/ \E d \in Conns \ {c} : i \in {clientsByTcpCli[d], clientsByTcpCli'[d]}

(* To bind d to j only takes the route of j away. *)
LEMMA BindExplains ==
  ASSUME SessionTypeOK, NEW d \in Conns, NEW j \in AllIds, Bind(d, j)
  PROVE  LossIsExplained
  BY DEF SessionTypeOK, Bind, LossIsExplained

(* The disconnect callback only takes routes of the connection's own name, *)
(* or routes to the connection itself.                                     *)
LEMMA ForgetExplains ==
  ASSUME SessionTypeOK, NEW d \in Conns, Forget(d)
  PROVE  LossIsExplained
<1>1. CASE clientsByTcpCli[d] # NoId
  <2>1. clientsByTcpCli[d] \in AllIds
    BY <1>1 DEF SessionTypeOK
  <2> QED
    BY <1>1, <2>1, SessionAssumption DEF SessionTypeOK, Forget, LossIsExplained, AllIds
<1>2. CASE clientsByTcpCli[d] = NoId
  <2>1. \A i \in AllIds : clientsById'[i] # clientsById[i] => clientsById[i] = d
    BY <1>2 DEF Forget, SessionTypeOK
  <2>2. \A i \in AllIds : clientsByTcpCli'[d] # i
    BY <1>2, SessionAssumption DEF Forget, AllIds
  <2> QED BY <2>1, <2>2 DEF LossIsExplained
<1> QED BY <1>1, <1>2

(* setid only takes the route of the old name and that of the new one. *)
LEMMA RenameExplains ==
  ASSUME SessionTypeOK, NEW d \in Conns, NEW j \in AllIds, Rename(d, j)
  PROVE  LossIsExplained
<1>1. \A i \in AllIds : clientsById'[i] # clientsById[i] => i \in {j, clientsByTcpCli[d]}
  BY DEF Rename, SessionTypeOK
<1>2. clientsById'[j] = d /\ clientsByTcpCli'[d] = j
  BY DEF Rename, SessionTypeOK
<1> QED BY <1>1, <1>2 DEF LossIsExplained

(* Whatever order the callbacks and the line goroutines run in, and        *)
(* whatever ids clients ask for, the route of an id to a connection is     *)
(* lost only if the connection gives the name up or another has or takes   *)
(* it: the disconnect of a stranger never cuts anyone off.                 *)
THEOREM SessionRoutesAreNotStolen == SessionSpec => RoutesAreNotStolen
<1>1. ASSUME SessionTypeOK, [SessionNext]_vars
      PROVE  LossIsExplained
  <2>0. ASSUME UNCHANGED maps PROVE LossIsExplained
    BY <2>0 DEF maps, LossIsExplained
  <2>1. ASSUME NEW c \in Conns, Connects(c) PROVE LossIsExplained
    <3>1. pending[c].id \in AllIds /\ Bind(c, pending[c].id)
      BY <2>1, <1>1 DEF Connects, SessionTypeOK, AllIds
    <3> QED BY <1>1, <3>1, BindExplains
  <2>2. ASSUME NEW c \in Conns, Disconnects(c) PROVE LossIsExplained
    BY <1>1, <2>2, ForgetExplains DEF Disconnects
  <2>3. ASSUME NEW c \in Conns, Processes(c) PROVE LossIsExplained
    <3>1. PICK g \in running :
              \/ g[3].cmd = "setid" /\ Rename(c, g[3].id)
              \/ g[3].cmd = "subscribe" /\ Identify(c)
      BY <2>3 DEF Processes
    <3>2. g[3].id \in AllIds
      <4>1. g[3] \in Lines
        BY <1>1 DEF SessionTypeOK
      <4> QED
        BY <4>1, SessionAssumption DEF Lines, SetIdLines, SubscribeLine, AllIds
    <3>3. CASE Rename(c, g[3].id)
      BY <1>1, <3>2, <3>3, RenameExplains
    <3>4. CASE Identify(c)
      BY <1>1, <2>0, <3>4, BindExplains, SessionAssumption DEF Identify, AllIds
    <3> QED BY <3>1, <3>3, <3>4
  <2>4. CASE SetsCallback
    BY <2>0, <2>4 DEF SetsCallback
  <2>5. ASSUME NEW c \in Conns,
               AcceptsUnseen(c) \/ Accepts(c) \/ Receives(c) \/ DisconnectsUnseen(c)
        PROVE  LossIsExplained
    BY <2>0, <2>5 DEF AcceptsUnseen, Accepts, Receives, DisconnectsUnseen
  <2>6. CASE UNCHANGED vars
    BY <2>0, <2>6 DEF vars
  <2> QED
    BY <1>1, <2>1, <2>2, <2>3, <2>4, <2>5, <2>6 DEF SessionNext
<1>2. SessionTypeOK /\ [SessionNext]_vars
        => [\A i \in AllIds, c \in Conns :
              clientsById[i] = c /\ clientsById'[i] # c =>
                 \/ clientsByTcpCli'[c] # i
                 \/ \E d \in Conns \ {c} : i \in {clientsByTcpCli[d], clientsByTcpCli'[d]}]_vars
  BY <1>1 DEF LossIsExplained
<1> QED
  BY <1>2, SessionTypeCorrect, PTL DEF SessionSpec, RoutesAreNotStolen

-----------------------------------------------------------------------------
(***************************************************************************)
(* VSTPLines                                                               *)
(***************************************************************************)

(* What a goroutine may have still to do: it has not written yet           *)
(* (Starting), is within its block (InBlock), or is done.                  *)
ResultLines == {"error", "pong", "deleteresult", "lockresult", "unlockdone", "varvalue", "childs", "aoc"}
Naming == <<"name", "call", "beginresponse", "body", "endresponse">>
Subscribing == <<"name", "beginresponse", "call", "endresponse">>
SubscribingNamed == <<"beginresponse", "call", "endresponse">>
CallInBlock == <<"call", "endresponse">>
AskStatus == <<"call", "body">>
TellStatus == <<"lockstatusresult">>
EmptyBlock == <<"beginresponse", "endresponse">>
LastLine == <<"endresponse">>
Block(x) == <<"beginresponse", x, "endresponse">>
Inner(x) == <<x, "endresponse">>

Blocks == {EmptyBlock} \cup {Block(x) : x \in ResultLines}
Inners == {LastLine} \cup {Inner(x) : x \in ResultLines}
Starting == {Naming, Exchange, Subscribing, SubscribingNamed, AskStatus, TellStatus} \cup Blocks
InBlock == {CallInBlock} \cup Inners
Todos == Starting \cup InBlock \cup {<<>>}

Fragments == UNION {Range(s) : s \in Streams}
Messages == ResultLines \cup {"", "beginresponse", "endresponse", "lockstatusresult"}

Trimmed == {Trim(line) : line \in Seq(Fragments)}

TaskRecords == [line : Trimmed, todo : Todos, ver : Nat, refused : BOOLEAN, floor : Nat]

LinesTypes ==
    /\ left \in Seq(Fragments) /\ got \in Seq(Fragments) /\ buf \in Seq(Fragments) /\ cur \in Seq(Fragments)
    /\ patient \in BOOLEAN /\ named \in BOOLEAN /\ locked \in BOOLEAN
    /\ socket \in {"open", "broken", "closed"}
    /\ reader \in {"greets", "reads", "splits"}
    /\ greeted \in 0..5
    /\ tasks \in Seq(TaskRecords)
    /\ ver \in Nat /\ acked \in Nat
    /\ last \in [of : Nat, msg : Messages]

(* Records of the past stay within bounds. *)
LinesBounds ==
    /\ answered \subseteq DOMAIN tasks
    /\ last.of \in {0} \cup DOMAIN tasks
    /\ \A k \in DOMAIN tasks : tasks[k].ver <= ver /\ tasks[k].floor <= acked
    /\ reader = "greets" <=> greeted < 5
    /\ reader = "greets" => tasks = <<>>

(* The commands keep to their scripts: set and delete make their call      *)
(* before their block, and only lockstatus answers without a block.        *)
KeepsToScript(k) ==
    LET cmd == Command(tasks[k].line)
        todo == tasks[k].todo
    IN  /\ cmd \in {"set", "delete"} => todo \in {Exchange, <<>>} \cup Blocks \cup Inners
        /\ cmd = "lockstatus" => todo \in {AskStatus, TellStatus, <<>>}
        /\ todo \in {AskStatus, TellStatus} => cmd = "lockstatus"

(* Writes that were made and are not confirmed yet. *)
Unconfirmed == {k \in DOMAIN tasks : Confirms(k) /\ tasks[k].todo \notin {Exchange, <<>>}}

AcksAreCovered == acked + Cardinality(Unconfirmed) <= ver

(* A value that is told, or is about to be, was read after the             *)
(* confirmations that the line came after.                                 *)
SeesFloor ==
    \A k \in DOMAIN tasks :
        \/ tasks[k].todo \in {Block("varvalue"), Inner("varvalue")}
        \/ last = [of |-> k, msg |-> "varvalue"]
        => tasks[k].ver >= tasks[k].floor

(* An answer that has ended has nothing left to do. *)
AnsweredAreDone ==
    /\ \A k \in answered : tasks[k].todo = <<>>
    /\ Ends(last.msg) => last.of \in answered
    /\ last.of = 0 => last = NoMessage

(* A patient client sends a line when all before it are answered: only the *)
(* last goroutine may be at work, and it is where the client's latest line *)
(* says.                                                                   *)
BetweenBlocks == last = NoMessage \/ Ends(last.msg)

OneAtATime ==
    /\ \A k \in DOMAIN tasks : k < Len(tasks) => k \in answered
    /\ \A i \in DOMAIN cur : cur[i] = NL => i = Len(cur) /\ DOMAIN tasks \subseteq answered
    /\ socket = "open" /\ BetweenBlocks =>
          \A k \in DOMAIN tasks : tasks[k].todo \in Starting \cup {<<>>}
    /\ socket = "open" /\ ~BetweenBlocks => tasks[last.of].todo \in InBlock

BufferHoldsNoLine == \A i \in DOMAIN buf : buf[i] # NL

LinesInv ==
    /\ LinesTypes /\ LinesBounds
    /\ \A k \in DOMAIN tasks : KeepsToScript(k)
    /\ AcksAreCovered
    /\ SeesFloor
    /\ AnsweredAreDone
    /\ BufferHoldsNoLine
    /\ patient => OneAtATime

-----------------------------------------------------------------------------
(* Scripts *)

(* What is left of a script after a step. *)
LEMMA ScriptTails ==
  /\ Tail(Naming) = Exchange /\ Tail(Subscribing) = SubscribingNamed
  /\ Tail(SubscribingNamed) = CallInBlock /\ Tail(CallInBlock) = LastLine
  /\ Tail(TellStatus) = <<>> /\ Tail(EmptyBlock) = LastLine /\ Tail(LastLine) = <<>>
  /\ \A x : Tail(Block(x)) = Inner(x) /\ Tail(Inner(x)) = LastLine
<1>1. Tail(Naming) = Exchange
  BY DEF Naming, Exchange
<1>2. Tail(Subscribing) = SubscribingNamed
  BY DEF Subscribing, SubscribingNamed
<1>3. Tail(SubscribingNamed) = CallInBlock /\ Tail(CallInBlock) = LastLine
  BY DEF SubscribingNamed, CallInBlock, LastLine
<1>4. Tail(TellStatus) = <<>> /\ Tail(EmptyBlock) = LastLine /\ Tail(LastLine) = <<>>
  BY DEF TellStatus, EmptyBlock, LastLine
<1>5. \A x : Tail(Block(x)) = Inner(x) /\ Tail(Inner(x)) = LastLine
  BY DEF Block, Inner, LastLine
<1> QED BY <1>1, <1>2, <1>3, <1>4, <1>5

(* The step that a script is at. *)
LEMMA ScriptHeads ==
  /\ Head(Naming) = "name" /\ Head(Subscribing) = "name"
  /\ Head(Exchange) = "call" /\ Head(AskStatus) = "call" /\ Head(CallInBlock) = "call"
  /\ Head(SubscribingNamed) = "beginresponse" /\ Head(EmptyBlock) = "beginresponse"
  /\ Head(TellStatus) = "lockstatusresult" /\ Head(LastLine) = "endresponse"
  /\ \A x : Head(Block(x)) = "beginresponse" /\ Head(Inner(x)) = x
  BY DEF Naming, Subscribing, Exchange, AskStatus, CallInBlock, SubscribingNamed, EmptyBlock,
         TellStatus, LastLine, Block, Inner

(* The scripts have different lengths where they begin with the same step. *)
LEMMA ScriptLengths ==
  /\ Len(Naming) = 5 /\ Len(Subscribing) = 4 /\ Len(Exchange) = 4 /\ Len(AskStatus) = 2
  /\ Len(CallInBlock) = 2 /\ Len(SubscribingNamed) = 3 /\ Len(EmptyBlock) = 2
  /\ Len(TellStatus) = 1 /\ Len(LastLine) = 1
  /\ \A x : Len(Block(x)) = 3 /\ Len(Inner(x)) = 2
  BY DEF Naming, Subscribing, Exchange, AskStatus, CallInBlock, SubscribingNamed, EmptyBlock,
         TellStatus, LastLine, Block, Inner

(* And their second steps. *)
LEMMA ScriptSeconds ==
  /\ AskStatus[2] = "body" /\ CallInBlock[2] = "endresponse" /\ SubscribingNamed[2] = "call"
  /\ EmptyBlock[2] = "endresponse"
  /\ \A x : Block(x)[2] = x /\ Inner(x)[2] = "endresponse"
  BY DEF AskStatus, CallInBlock, SubscribingNamed, EmptyBlock, Block, Inner

LEMMA TwoAndOne ==
  ASSUME NEW S, NEW a \in Seq(S), NEW b \in Seq(S), NEW c \in Seq(S),
         Len(a) = 2, Len(b) = 1, Len(c) = 3, c[1] = a[1], c[2] = a[2], c[3] = b[1]
  PROVE  a \o b = c
<1>1. a \o b \in Seq(S) /\ Len(a \o b) = 3
  BY ConcatProperties
<1>2. \A i \in 1..(Len(a) + Len(b)) : (a \o b)[i] = IF i <= Len(a) THEN a[i] ELSE b[i - Len(a)]
  BY ConcatProperties
<1> QED BY <1>1, <1>2, SeqEqual

(* The lines of the result take their place within the block. *)
LEMMA ScriptFills ==
  /\ Filled(Tail(Exchange), <<>>) = EmptyBlock
  /\ \A x : Filled(Tail(Exchange), <<x>>) = Block(x)
  /\ \A x : Filled(Tail(AskStatus), <<x>>) = <<x>>
  /\ \A b : Filled(Tail(CallInBlock), b) = LastLine
<1> DEFINE begin == <<"beginresponse">>
           end == <<"endresponse">>
<1>1. Tail(Exchange) = <<"beginresponse", "body", "endresponse">>
  BY DEF Exchange
<1>2. ASSUME NEW S, "beginresponse" \in S
      PROVE  begin \in Seq(S) /\ Len(begin) = 1 /\ begin[1] = "beginresponse"
  BY <1>2
<1>3. ASSUME NEW S, "endresponse" \in S
      PROVE  end \in Seq(S) /\ Len(end) = 1 /\ end[1] = "endresponse"
  BY <1>3
<1>4. ASSUME NEW b
      PROVE  Filled(Tail(Exchange), b) = begin \o b \o end
  <2> DEFINE s == <<"beginresponse", "body", "endresponse">>
             S == {"beginresponse", "body", "endresponse"}
  <2>1. /\ s \in Seq(S) /\ DOMAIN s = 1..3 /\ Len(s) = 3
        /\ s[1] = "beginresponse" /\ s[2] = "body" /\ s[3] = "endresponse"
    OBVIOUS
  <2> HIDE DEF s
  <2>a. begin \in Seq(S) /\ Len(begin) = 1 /\ begin[1] = "beginresponse"
    BY <1>2
  <2>b. end \in Seq(S) /\ Len(end) = 1 /\ end[1] = "endresponse"
    BY <1>3
  <2>2. SubSeq(s, 1, 1) = begin
    <3>1. /\ SubSeq(s, 1, 1) \in Seq(S) /\ Len(SubSeq(s, 1, 1)) = 1
          /\ SubSeq(s, 1, 1)[1] = s[1]
      BY <2>1, SubSeqProperties
    <3> HIDE DEF begin
    <3> QED BY <2>a, <2>1, <3>1, SeqEqual
  <2>3. SubSeq(s, 3, 3) = end
    <3>1. /\ SubSeq(s, 3, 3) \in Seq(S) /\ Len(SubSeq(s, 3, 3)) = 1
          /\ SubSeq(s, 3, 3)[1] = s[3]
      BY <2>1, SubSeqProperties
    <3> HIDE DEF end
    <3> QED BY <2>b, <2>1, <3>1, SeqEqual
  <2>4. (CHOOSE i \in DOMAIN s : s[i] = "body") = 2
    <3>1. \A i \in DOMAIN s : s[i] = "body" <=> i = 2
      BY <2>1
    <3> QED BY <2>1, <3>1
  <2>5. \E i \in DOMAIN s : s[i] = "body"
    BY <2>1
  <2> DEFINE i == CHOOSE i \in DOMAIN s : s[i] = "body"
  <2>6. Filled(s, b) = SubSeq(s, 1, i - 1) \o b \o SubSeq(s, i + 1, Len(s))
    BY <2>5 DEF Filled
  <2>7. i - 1 = 1 /\ i + 1 = 3 /\ Len(s) = 3
    BY <2>1, <2>4
  <2> HIDE DEF i, begin, end
  <2>8. Filled(s, b) = begin \o b \o end
    BY <2>2, <2>3, <2>6, <2>7
  <2> QED BY <1>1, <2>8 DEF s
<1>5. Filled(Tail(Exchange), <<>>) = EmptyBlock
  <2>1. begin \o <<>> = begin
    <3>1. begin \in Seq({"beginresponse"})
      BY <1>2
    <3> QED BY <3>1, ConcatEmptySeq
  <2>2. begin \o end = EmptyBlock
    <3> DEFINE S == {"beginresponse", "endresponse"}
    <3>1. /\ EmptyBlock \in Seq(S) /\ Len(EmptyBlock) = 2
          /\ EmptyBlock[1] = "beginresponse" /\ EmptyBlock[2] = "endresponse"
      BY DEF EmptyBlock
    <3>2. begin \in Seq(S) /\ end \in Seq(S)
      BY <1>2, <1>3
    <3>3. /\ begin \o end \in Seq(S) /\ Len(begin \o end) = 2
          /\ (begin \o end)[1] = "beginresponse" /\ (begin \o end)[2] = "endresponse"
      BY <1>2, <1>3, <3>2, ConcatProperties
    <3> QED BY <3>1, <3>3, SeqEqual
  <2> QED BY <1>4, <2>1, <2>2
<1>6. ASSUME NEW x PROVE Filled(Tail(Exchange), <<x>>) = Block(x)
  <2> DEFINE S == {"beginresponse", x, "endresponse"}
             bx == begin \o <<x>>
  <2>1. "beginresponse" \in S /\ x \in S /\ "endresponse" \in S
    OBVIOUS
  <2> HIDE DEF S
  <2>2. bx \in Seq(S) /\ Len(bx) = 2 /\ bx[1] = "beginresponse" /\ bx[2] = x
    BY <2>1
  <2>3. end \in Seq(S) /\ Len(end) = 1 /\ end[1] = "endresponse"
    BY <1>3, <2>1
  <2>4. /\ Block(x) \in Seq(S) /\ Len(Block(x)) = 3
        /\ Block(x)[1] = "beginresponse" /\ Block(x)[2] = x /\ Block(x)[3] = "endresponse"
    BY <2>1 DEF Block
  <2>5. Filled(Tail(Exchange), <<x>>) = bx \o end
    BY <1>4
  <2> HIDE DEF bx, end
  <2>6. bx \o end = Block(x)
    BY <2>2, <2>3, <2>4, TwoAndOne
  <2> QED BY <2>5, <2>6
<1>7. ASSUME NEW x PROVE Filled(Tail(AskStatus), <<x>>) = <<x>>
  <2> DEFINE s == <<"body">>
  <2>1. Tail(AskStatus) = s /\ DOMAIN s = {1} /\ s[1] = "body" /\ Len(s) = 1
    BY DEF AskStatus
  <2>2. SubSeq(s, 1, 1 - 1) = <<>> /\ SubSeq(s, 1 + 1, 1) = <<>>
    BY SubSeqEmpty
  <2> HIDE DEF s
  <2>3. (CHOOSE i \in DOMAIN s : s[i] = "body") = 1
    BY <2>1
  <2>4. Filled(s, <<x>>) = SubSeq(s, 1, 1 - 1) \o <<x>> \o SubSeq(s, 1 + 1, 1)
    BY <2>1, <2>3, Zenon DEF Filled
  <2>5. <<x>> \in Seq({x})
    OBVIOUS
  <2>6. <<>> \o <<x>> = <<x>> /\ <<x>> \o <<>> = <<x>>
    BY <2>5, ConcatEmptySeq
  <2> QED BY <2>1, <2>2, <2>4, <2>6
<1>8. ASSUME NEW b PROVE Filled(Tail(CallInBlock), b) = LastLine
  <2>1. DOMAIN LastLine = {1} /\ LastLine[1] # "body"
    BY DEF LastLine
  <2> QED BY <2>1, ScriptTails DEF Filled
<1> QED BY <1>5, <1>6, <1>7, <1>8

LEMMA OneAndFour ==
  ASSUME NEW S, NEW a \in Seq(S), NEW b \in Seq(S), NEW c \in Seq(S),
         Len(a) = 1, Len(b) = 4, Len(c) = 5,
         c[1] = a[1], c[2] = b[1], c[3] = b[2], c[4] = b[3], c[5] = b[4]
  PROVE  a \o b = c
<1> DEFINE m == Len(a)
           n == Len(b)
<1>a. /\ a \o b \in Seq(S) /\ Len(a \o b) = m + n
      /\ \A i \in 1..(m + n) : (a \o b)[i] = IF i <= m THEN a[i] ELSE b[i - m]
  BY ConcatProperties
<1>b. m = 1 /\ n = 4
  OBVIOUS
<1> HIDE DEF m, n
<1>1. a \o b \in Seq(S) /\ Len(a \o b) = 1 + 4
  BY <1>a, <1>b
<1>2. \A i \in 1..(1 + 4) : (a \o b)[i] = IF i <= 1 THEN a[i] ELSE b[i - 1]
  BY <1>a, <1>b
<1>3. \A i \in 1..(1 + 4) : c[i] = IF i <= 1 THEN a[i] ELSE b[i - 1]
  OBVIOUS
<1>4. Len(a \o b) = Len(c) /\ \A i \in 1..Len(a \o b) : (a \o b)[i] = c[i]
  BY <1>1, <1>2, <1>3
<1> QED BY <1>1, <1>4, SeqEqual

(* A line begins with its script. *)
LEMMA ScriptBegins ==
  ASSUME NEW line
  PROVE  /\ Script(line) \in Starting \cup {<<>>}
         /\ Command(line) \in {"set", "delete"} => Script(line) \in {Exchange} \cup Blocks
         /\ Command(line) \in {"set", "delete"} /\ Payload(line) # "" => Script(line) = Exchange
         /\ Command(line) = "lockstatus" => Script(line) = AskStatus
         /\ Script(line) \in {AskStatus, TellStatus} => Command(line) = "lockstatus"
         /\ Script(line) # Block("varvalue") /\ Script(line) # Inner("varvalue")
<1> DEFINE c == Command(line)
           p == Payload(line)
<1>1. CASE c = "set" /\ p = ""
  <2>1. Script(line) = Block("error")
    BY <1>1 DEF Script, Block
  <2>2. Block("error") \in Blocks /\ Block("error") \in Starting
    BY DEF Blocks, ResultLines, Starting
  <2>3. Block("error") # AskStatus /\ Block("error") # TellStatus /\ Block("error") # Inner("varvalue")
    BY ScriptLengths
  <2>4. Block("error") # Block("varvalue")
    BY ScriptSeconds
  <2> QED BY <1>1, <2>1, <2>2, <2>3, <2>4
<1>2. CASE c = "ping"
  <2>1. Script(line) = Block("pong")
    BY <1>2 DEF Script, Block
  <2>2. Block("pong") \in Starting
    BY DEF Blocks, ResultLines, Starting
  <2>3. Block("pong") # AskStatus /\ Block("pong") # TellStatus /\ Block("pong") # Inner("varvalue")
    BY ScriptLengths
  <2>4. Block("pong") # Block("varvalue")
    BY ScriptSeconds
  <2> QED BY <1>2, <2>1, <2>2, <2>3, <2>4
<1>3. CASE c = "lockstatus"
  <2>1. Script(line) = AskStatus
    BY <1>3 DEF Script, AskStatus
  <2>2. AskStatus \in Starting
    BY DEF Starting
  <2>3. AskStatus # Block("varvalue") /\ AskStatus # Inner("varvalue")
    BY ScriptLengths, ScriptHeads
  <2> QED BY <1>3, <2>1, <2>2, <2>3
<1>4. CASE c \in {"subscribe", "unsubscribe"}
  <2>1. Script(line) = Subscribing
    BY <1>4 DEF Script, Subscribing
  <2>2. Subscribing \in Starting
    BY DEF Starting
  <2>3. /\ Subscribing # AskStatus /\ Subscribing # TellStatus
        /\ Subscribing # Block("varvalue") /\ Subscribing # Inner("varvalue")
    BY ScriptLengths
  <2> QED BY <1>4, <2>1, <2>2, <2>3
<1>5. CASE c = "setid"
  <2>1. Script(line) = <<"name">> \o Exchange
    BY <1>5 DEF Script
  <2>2. <<"name">> \o Exchange = Naming
    <3> DEFINE S == {"name", "call", "beginresponse", "body", "endresponse"}
               n == <<"name">>
    <3>1. n \in Seq(S) /\ Len(n) = 1 /\ n[1] = "name"
      OBVIOUS
    <3>2. /\ Exchange \in Seq(S) /\ Len(Exchange) = 4 /\ Exchange[1] = "call"
          /\ Exchange[2] = "beginresponse" /\ Exchange[3] = "body" /\ Exchange[4] = "endresponse"
      BY DEF Exchange
    <3>3. /\ Naming \in Seq(S) /\ Len(Naming) = 5 /\ Naming[1] = "name" /\ Naming[2] = "call"
          /\ Naming[3] = "beginresponse" /\ Naming[4] = "body" /\ Naming[5] = "endresponse"
      BY DEF Naming
    <3> HIDE DEF S, n
    <3>4. n \o Exchange = Naming
      BY <3>1, <3>2, <3>3, OneAndFour
    <3> QED BY <3>4 DEF n
  <2>3. Naming \in Starting
    BY DEF Starting
  <2>4. /\ Naming # AskStatus /\ Naming # TellStatus
        /\ Naming # Block("varvalue") /\ Naming # Inner("varvalue")
    BY ScriptLengths
  <2> QED BY <1>5, <2>1, <2>2, <2>3, <2>4
<1>6. CASE c \in {"set", "delete", "get", "lock", "unlock", "getchilds"} /\ ~(c = "set" /\ p = "")
  <2>1. Script(line) = Exchange
    BY <1>6 DEF Script
  <2>2. Exchange \in Starting
    BY DEF Starting
  <2>3. /\ Exchange # AskStatus /\ Exchange # TellStatus
        /\ Exchange # Block("varvalue") /\ Exchange # Inner("varvalue")
    BY ScriptLengths
  <2> QED BY <1>6, <2>1, <2>2, <2>3
<1>7. CASE c \notin {"set", "delete", "get", "lock", "unlock", "getchilds", "setid", "subscribe",
                     "unsubscribe", "lockstatus", "ping"}
  <2>1. Script(line) = <<>>
    BY <1>7 DEF Script
  <2>2. /\ <<>> # AskStatus /\ <<>> # TellStatus
        /\ <<>> # Block("varvalue") /\ <<>> # Inner("varvalue")
    BY ScriptLengths
  <2> QED BY <1>7, <2>1, <2>2
<1> QED BY <1>1, <1>2, <1>3, <1>4, <1>5, <1>6, <1>7

(* Which scripts begin with a step, for the scripts that occur. *)
LEMMA ScriptSorts ==
  ASSUME NEW t \in Todos
  PROVE  /\ t # <<>> /\ Head(t) = "name" => t \in {Naming, Subscribing}
         /\ t # <<>> /\ Head(t) = "call" => t \in {Exchange, AskStatus, CallInBlock}
         /\ t # <<>> /\ Head(t) = "beginresponse" => t \in {SubscribingNamed} \cup Blocks
         /\ t # <<>> /\ Head(t) = "endresponse" => t = LastLine
         /\ t # <<>> /\ Head(t) = "lockstatusresult" => t = TellStatus
         /\ t # <<>> => Head(t) \in Messages \cup {"name", "call"}
         /\ t # <<>> /\ Head(t) \in ResultLines => \E x \in ResultLines : t = Inner(x)
         /\ t # <<>> => Len(t) > 0
<1>2. CASE t \in {Naming, Subscribing}
  BY <1>2, ScriptHeads, ScriptLengths DEF ResultLines
<1>3. CASE t \in {Exchange, AskStatus, CallInBlock}
  BY <1>3, ScriptHeads, ScriptLengths DEF ResultLines
<1>4. CASE t \in {SubscribingNamed, EmptyBlock}
  <2>1. t \in {SubscribingNamed} \cup Blocks /\ Head(t) = "beginresponse" /\ Len(t) > 0
    BY <1>4, ScriptHeads, ScriptLengths DEF Blocks
  <2> QED BY <2>1 DEF ResultLines, Messages
<1>5. CASE t = TellStatus \/ t = LastLine
  <2>1. \/ t = TellStatus /\ Head(t) = "lockstatusresult" /\ Len(t) > 0
        \/ t = LastLine /\ Head(t) = "endresponse" /\ Len(t) > 0
    BY <1>5, ScriptHeads, ScriptLengths
  <2> QED BY <2>1 DEF ResultLines, Messages
<1>6. ASSUME NEW x \in ResultLines, t = Block(x)
      PROVE  t \in Blocks /\ Head(t) = "beginresponse" /\ Len(t) = 3
  BY <1>6, ScriptHeads, ScriptLengths DEF Blocks
<1>7. ASSUME NEW x \in ResultLines, t = Inner(x)
      PROVE  Head(t) = x /\ Len(t) = 2 /\ x \in Messages
  BY <1>7, ScriptHeads, ScriptLengths DEF Messages
<1>8. CASE \E x \in ResultLines : t = Block(x)
  <2>1. t \in Blocks /\ Head(t) = "beginresponse" /\ Len(t) > 0
    BY <1>6, <1>8
  <2> QED BY <2>1 DEF ResultLines, Messages
<1>9. CASE \E x \in ResultLines : t = Inner(x)
  BY <1>7, <1>9 DEF ResultLines
<1> QED BY <1>2, <1>3, <1>4, <1>5, <1>8, <1>9 DEF Todos, Starting, InBlock, Blocks, Inners

(* A script tells how far its goroutine has come. *)
LEMMA ScriptsDiffer ==
  /\ <<>> \notin Starting \cup InBlock
  /\ Exchange \notin Blocks \cup InBlock /\ Exchange # <<>>
  /\ {AskStatus, TellStatus} \cap (Blocks \cup InBlock) = {}
  /\ {CallInBlock, SubscribingNamed, Naming, Subscribing} \cap ({Exchange, AskStatus, TellStatus} \cup Blocks \cup Inners) = {}
  /\ {Block("varvalue"), Inner("varvalue")} \cap
        {Exchange, EmptyBlock, LastLine, TellStatus, CallInBlock, SubscribingNamed} = {}
  /\ Starting \cap InBlock = {}
<1>1. <<>> \notin Starting \cup InBlock
  BY ScriptLengths DEF Starting, InBlock, Blocks, Inners
<1>2. Exchange \notin Blocks \cup InBlock /\ Exchange # <<>>
  <2>1. Exchange # <<>> /\ Exchange # CallInBlock /\ Exchange # EmptyBlock /\ Exchange # LastLine
    BY ScriptLengths
  <2>2. \A x : Exchange # Block(x) /\ Exchange # Inner(x)
    BY ScriptLengths
  <2> QED BY <2>1, <2>2 DEF InBlock, Blocks, Inners
<1>3. {AskStatus, TellStatus} \cap (Blocks \cup InBlock) = {}
  BY ScriptLengths, ScriptHeads, ScriptSeconds DEF InBlock, Blocks, Inners
<1>4. {Naming, Subscribing} \cap ({Exchange, AskStatus, TellStatus} \cup Blocks \cup Inners) = {}
  BY ScriptLengths, ScriptHeads DEF Blocks, Inners
<1>5. {CallInBlock, SubscribingNamed} \cap {Exchange, AskStatus, TellStatus, EmptyBlock, LastLine} = {}
  BY ScriptLengths, ScriptHeads, ScriptSeconds
<1>6. \A x \in ResultLines : {CallInBlock, SubscribingNamed} \cap {Block(x), Inner(x)} = {}
  BY ScriptLengths, ScriptHeads, ScriptSeconds DEF ResultLines
<1>7. {Block("varvalue"), Inner("varvalue")} \cap
        {Exchange, EmptyBlock, LastLine, TellStatus, CallInBlock, SubscribingNamed} = {}
  BY ScriptLengths, ScriptHeads, ScriptSeconds
<1>8. Starting \cap InBlock = {}
  <2>1. \A s \in Inners : Head(s) \in ResultLines \cup {"endresponse"}
    BY ScriptHeads DEF Inners
  <2>2. \A s \in Starting : Head(s) \in {"name", "call", "beginresponse", "lockstatusresult"}
    BY ScriptHeads DEF Starting, Blocks
  <2>3. Starting \cap Inners = {}
    BY <2>1, <2>2 DEF ResultLines
  <2>4. CallInBlock \notin Starting
    BY <1>5, <1>6, ScriptLengths, ScriptHeads DEF Starting, Blocks
  <2> QED BY <2>3, <2>4 DEF InBlock
<1> QED BY <1>1, <1>2, <1>3, <1>4, <1>5, <1>6, <1>7, <1>8 DEF Blocks, Inners

LEMMA OtherScripts ==
  {Exchange, SubscribingNamed, <<>>} \cap {AskStatus, TellStatus, Block("varvalue"), Inner("varvalue")} = {}
<1>1. <<>> \notin {AskStatus, TellStatus, Block("varvalue"), Inner("varvalue")}
  BY ScriptLengths
<1>2. Exchange \notin {AskStatus, TellStatus, Block("varvalue"), Inner("varvalue")}
  BY ScriptLengths
<1>3. SubscribingNamed \notin {AskStatus, TellStatus, Inner("varvalue")}
  BY ScriptLengths
<1>4. SubscribingNamed # Block("varvalue")
  BY ScriptSeconds
<1> QED BY <1>1, <1>2, <1>3, <1>4

-----------------------------------------------------------------------------
(* One step of a goroutine *)

(* A goroutine changes its own record only. *)
LEMMA OwnRecord ==
  ASSUME tasks \in Seq(TaskRecords), NEW k \in DOMAIN tasks, NEW rec \in TaskRecords,
         tasks' = [tasks EXCEPT ![k] = rec]
  PROVE  /\ tasks' \in Seq(TaskRecords)
         /\ Len(tasks') = Len(tasks)
         /\ DOMAIN tasks' = DOMAIN tasks
         /\ tasks'[k] = rec
         /\ \A j \in DOMAIN tasks : j # k => tasks'[j] = tasks[j]
<1>1. k \in 1..Len(tasks) /\ DOMAIN tasks = 1..Len(tasks)
  BY LenProperties
<1> QED BY <1>1, ExceptSeq

(* GetsName: on with the script, or up if there is no name. *)
LEMMA NameMoves ==
  ASSUME LinesTypes, NEW k \in DOMAIN tasks, GetsName(k)
  PROVE  \E rec \in TaskRecords :
            /\ tasks' = [tasks EXCEPT ![k] = rec]
            /\ rec.line = tasks[k].line /\ rec.ver = tasks[k].ver
            /\ rec.refused = tasks[k].refused /\ rec.floor = tasks[k].floor
            /\ tasks[k].todo \in {Naming, Subscribing}
            /\ rec.todo \in {Exchange, SubscribingNamed, <<>>}
            /\ rec.todo = Exchange => tasks[k].todo = Naming
<1>1. tasks[k] \in TaskRecords
  BY LenProperties DEF LinesTypes
<1>2. tasks[k].todo \in {Naming, Subscribing}
  BY <1>1, ScriptSorts DEF GetsName, At, TaskRecords
<1>3. PICK t \in {<<>>, Tail(tasks[k].todo)} : tasks' = [tasks EXCEPT ![k].todo = t]
  BY DEF GetsName
<1>4. t \in {Exchange, SubscribingNamed, <<>>} /\ (t = Exchange => tasks[k].todo = Naming)
  BY <1>2, <1>3, ScriptTails, ScriptsDiffer, ScriptLengths
<1>5. t \in Todos
  BY <1>4 DEF Todos, Starting
<1> DEFINE rec == [tasks[k] EXCEPT !.todo = t]
<1>6. rec \in TaskRecords /\ tasks' = [tasks EXCEPT ![k] = rec]
  BY <1>1, <1>3, <1>5 DEF TaskRecords
<1>7. /\ rec.line = tasks[k].line /\ rec.ver = tasks[k].ver /\ rec.todo = t
      /\ rec.refused = tasks[k].refused /\ rec.floor = tasks[k].floor
  BY <1>1 DEF TaskRecords
<1> QED BY <1>2, <1>4, <1>6, <1>7

CallBodies == {<<>>} \cup {<<x>> : x \in ResultLines}

(* What a call returns and what it does to the variable. *)
CallEffect(k, body) ==
    /\ Returns(k, body)
    /\ ver' \in {ver, ver + 1} /\ locked' \in BOOLEAN
    /\ body = TellStatus <=> Command(tasks[k].line) = "lockstatus"
    /\ Command(tasks[k].line) = "set" /\ body # <<"error">> => ver' = ver + 1
    /\ Command(tasks[k].line) = "delete" /\ Payload(tasks[k].line) # "" => ver' = ver + 1

LEMMA CallReturns ==
  ASSUME LinesTypes, NEW k \in DOMAIN tasks, Calls(k) \/ LockTimesOut(k)
  PROVE  \E body \in CallBodies \cup {TellStatus} : CallEffect(k, body)
<1>1. \A x \in ResultLines : <<x>> # TellStatus /\ <<x>> \in CallBodies
  BY DEF ResultLines, TellStatus, CallBodies
<1>2. <<>> \in CallBodies /\ <<>> # TellStatus /\ <<>> # <<"error">>
  BY DEF CallBodies, TellStatus
<1>3. locked \in BOOLEAN
  BY DEF LinesTypes
<1>4. /\ "error" \in ResultLines /\ "deleteresult" \in ResultLines /\ "lockresult" \in ResultLines
      /\ "unlockdone" \in ResultLines /\ "varvalue" \in ResultLines /\ "childs" \in ResultLines
      /\ "aoc" \in ResultLines
  BY DEF ResultLines
<1>5. CASE CallsSet(k)
  <2> DEFINE body == IF locked THEN <<"error">> ELSE <<>>
  <2>1. body \in CallBodies /\ body # TellStatus
    BY <1>1, <1>2, <1>4
  <2>2. CallEffect(k, body)
    BY <1>2, <1>3, <1>5, <2>1 DEF CallsSet, CallEffect
  <2> QED BY <2>1, <2>2
<1>6. CASE CallsDelete(k)
  <2>1. CallEffect(k, <<"deleteresult">>)
    BY <1>1, <1>3, <1>4, <1>6 DEF CallsDelete, CallEffect
  <2> QED BY <1>1, <1>4, <2>1
<1>7. CASE CallsLock(k)
  <2>1. CallEffect(k, <<"lockresult">>)
    BY <1>1, <1>3, <1>4, <1>7 DEF CallsLock, CallEffect
  <2> QED BY <1>1, <1>4, <2>1
<1>8. CASE CallsUnlock(k)
  <2>1. CallEffect(k, <<"unlockdone">>)
    BY <1>1, <1>3, <1>4, <1>8 DEF CallsUnlock, CallEffect
  <2> QED BY <1>1, <1>4, <2>1
<1>9. CASE LockTimesOut(k)
  <2>1. CallEffect(k, <<"lockresult">>)
    BY <1>1, <1>3, <1>4, <1>9 DEF LockTimesOut, CallEffect, store
  <2> QED BY <1>1, <1>4, <2>1
<1>10. CASE CallsOther(k)
  <2> DEFINE cmd == Command(tasks[k].line)
             body == CASE cmd = "get" -> IF Payload(tasks[k].line) = "" THEN <<"error">>
                                         ELSE <<"varvalue">>
                       [] cmd = "getchilds" -> <<"childs">>
                       [] cmd = "lockstatus" -> <<"lockstatusresult">>
                       [] cmd = "setid" -> <<"aoc">>
                       [] OTHER -> <<>>
  <2>1. Returns(k, body) /\ UNCHANGED <<ver, locked>> /\ cmd \notin {"set", "delete"}
    BY <1>10 DEF CallsOther, store
  <2>2. body \in CallBodies \cup {TellStatus} /\ (body = TellStatus <=> cmd = "lockstatus")
    <3>1. CASE cmd = "lockstatus"
      BY <3>1 DEF TellStatus
    <3>2. CASE cmd = "get"
      BY <3>2, <1>1, <1>4
    <3>3. CASE cmd = "getchilds"
      BY <3>3, <1>1, <1>4
    <3>4. CASE cmd = "setid"
      BY <3>4, <1>1, <1>4
    <3>5. CASE cmd \notin {"lockstatus", "get", "getchilds", "setid"}
      BY <3>5, <1>2
    <3> QED BY <3>1, <3>2, <3>3, <3>4, <3>5
  <2> HIDE DEF body
  <2>3. CallEffect(k, body)
    BY <1>3, <2>1, <2>2 DEF CallEffect
  <2> QED BY <2>2, <2>3
<1> QED BY <1>5, <1>6, <1>7, <1>8, <1>9, <1>10 DEF Calls

(* A call goes on with the lines of its result. *)
LEMMA CallMoves ==
  ASSUME LinesTypes, NEW k \in DOMAIN tasks, KeepsToScript(k), Calls(k) \/ LockTimesOut(k)
  PROVE  \E rec \in TaskRecords :
            /\ tasks' = [tasks EXCEPT ![k] = rec]
            /\ rec.line = tasks[k].line /\ rec.ver = ver' /\ rec.floor = tasks[k].floor
            /\ ver' \in {ver, ver + 1} /\ locked' \in BOOLEAN
            /\ UNCHANGED <<input, socket, reader, buf, cur, named, output>>
            /\ \/ tasks[k].todo = Exchange /\ rec.todo \in Blocks
               \/ tasks[k].todo = AskStatus /\ rec.todo = TellStatus
               \/ tasks[k].todo = CallInBlock /\ rec.todo = LastLine
            /\ Command(rec.line) \in {"set", "delete"} /\ Payload(rec.line) # "" /\ ~rec.refused
               => ver' = ver + 1
<1>1. tasks[k] \in TaskRecords /\ ver \in Nat
  BY LenProperties DEF LinesTypes
<1>2. PICK body \in CallBodies \cup {TellStatus} : CallEffect(k, body)
  BY CallReturns
<1> DEFINE t == Filled(Tail(tasks[k].todo), body)
           rec == [tasks[k] EXCEPT !.todo = t, !.ver = ver', !.refused = (body = <<"error">>)]
<1>3. /\ tasks' = [tasks EXCEPT ![k] = rec]
      /\ UNCHANGED <<input, socket, reader, buf, cur, named, output>>
      /\ At(k, "call")
  BY <1>1, <1>2 DEF CallEffect, Returns, TaskRecords
<1>4. tasks[k].todo \in {Exchange, AskStatus, CallInBlock}
  BY <1>1, <1>3, ScriptSorts DEF At, TaskRecords
<1>5. \/ tasks[k].todo = Exchange /\ t \in Blocks
      \/ tasks[k].todo = AskStatus /\ t = TellStatus
      \/ tasks[k].todo = CallInBlock /\ t = LastLine
  <2>1. CASE tasks[k].todo = Exchange
    <3>1. Command(tasks[k].line) # "lockstatus"
      <4>1. Command(tasks[k].line) = "lockstatus" => tasks[k].todo \in {AskStatus, TellStatus, <<>>}
        BY DEF KeepsToScript
      <4>2. Exchange # AskStatus /\ Exchange # TellStatus /\ Exchange # <<>>
        BY ScriptLengths, ScriptsDiffer
      <4> QED BY <2>1, <4>1, <4>2
    <3>2. body \in CallBodies
      BY <1>2, <3>1 DEF CallEffect
    <3> QED BY <2>1, <3>2, ScriptFills DEF CallBodies, Blocks
  <2>2. CASE tasks[k].todo = AskStatus
    <3>1. body = TellStatus
      BY <1>2, <2>2 DEF CallEffect, KeepsToScript
    <3> QED BY <2>2, <3>1, ScriptFills DEF TellStatus
  <2>3. CASE tasks[k].todo = CallInBlock
    BY <2>3, ScriptFills
  <2> QED BY <1>4, <2>1, <2>2, <2>3
<1>6. t \in Todos
  BY <1>5 DEF Todos, Starting, InBlock, Inners
<1>7. ver' \in Nat /\ ver' \in {ver, ver + 1} /\ locked' \in BOOLEAN
  <2>1. ver' \in {ver, ver + 1} /\ locked' \in BOOLEAN
    BY <1>2, Zenon DEF CallEffect
  <2> QED BY <1>1, <2>1
<1> HIDE DEF t
<1>8. rec \in TaskRecords
  BY <1>1, <1>6, <1>7 DEF TaskRecords
<1>9. /\ rec.line = tasks[k].line /\ rec.ver = ver' /\ rec.todo = t
      /\ rec.refused = (body = <<"error">>) /\ rec.floor = tasks[k].floor
  BY <1>1 DEF TaskRecords
<1>10. Command(rec.line) \in {"set", "delete"} /\ Payload(rec.line) # "" /\ ~rec.refused => ver' = ver + 1
  BY <1>2, <1>9 DEF CallEffect
<1> HIDE DEF rec
<1> QED BY <1>3, <1>5, <1>7, <1>8, <1>9, <1>10

(* A write takes the first line off. *)
LEMMA WriteMoves ==
  ASSUME LinesTypes, NEW k \in DOMAIN tasks, Writes(k)
  PROVE  \E rec \in TaskRecords, msg \in Messages :
            /\ tasks' = [tasks EXCEPT ![k] = rec]
            /\ rec.line = tasks[k].line /\ rec.ver = tasks[k].ver
            /\ rec.refused = tasks[k].refused /\ rec.floor = tasks[k].floor
            /\ UNCHANGED <<input, socket, reader, buf, cur, named, greeted, store>>
            /\ IF socket = "open"
               THEN /\ last' = [of |-> k, msg |-> msg]
                    /\ answered' = answered \cup (IF Ends(msg) THEN {k} ELSE {})
                    /\ acked' = IF Ends(msg) /\ Confirms(k) THEN acked + 1 ELSE acked
               ELSE UNCHANGED <<last, answered, acked>>
            /\ \/ /\ msg = "beginresponse"
                  /\ \/ tasks[k].todo = SubscribingNamed /\ rec.todo = CallInBlock
                     \/ tasks[k].todo = EmptyBlock /\ rec.todo = LastLine
                     \/ \E x \in ResultLines : tasks[k].todo = Block(x) /\ rec.todo = Inner(x)
               \/ msg \in ResultLines /\ tasks[k].todo = Inner(msg) /\ rec.todo = LastLine
               \/ msg = "endresponse" /\ tasks[k].todo = LastLine /\ rec.todo = <<>>
               \/ msg = "lockstatusresult" /\ tasks[k].todo = TellStatus /\ rec.todo = <<>>
<1>1. tasks[k] \in TaskRecords /\ tasks[k].todo \in Todos
  <2>1. tasks[k] \in TaskRecords
    BY LenProperties DEF LinesTypes
  <2> QED BY <2>1 DEF TaskRecords
<1> DEFINE msg == Head(tasks[k].todo)
           t == Tail(tasks[k].todo)
           rec == [tasks[k] EXCEPT !.todo = t]
<1>2. /\ tasks[k].todo # <<>> /\ msg \notin {"call", "name"}
      /\ tasks' = [tasks EXCEPT ![k] = rec]
      /\ UNCHANGED <<input, socket, reader, buf, cur, named, greeted, store>>
  BY <1>1 DEF Writes, TaskRecords
<1>3. IF socket = "open"
      THEN /\ last' = [of |-> k, msg |-> msg]
           /\ answered' = answered \cup (IF Ends(msg) THEN {k} ELSE {})
           /\ acked' = IF Ends(msg) /\ Confirms(k) THEN acked + 1 ELSE acked
      ELSE UNCHANGED <<last, answered, acked>>
  BY DEF Writes
<1>4. \/ /\ msg = "beginresponse"
         /\ \/ tasks[k].todo = SubscribingNamed /\ t = CallInBlock
            \/ tasks[k].todo = EmptyBlock /\ t = LastLine
            \/ \E x \in ResultLines : tasks[k].todo = Block(x) /\ t = Inner(x)
      \/ msg \in ResultLines /\ tasks[k].todo = Inner(msg) /\ t = LastLine
      \/ msg = "endresponse" /\ tasks[k].todo = LastLine /\ t = <<>>
      \/ msg = "lockstatusresult" /\ tasks[k].todo = TellStatus /\ t = <<>>
  <2>1. CASE tasks[k].todo \in {Naming, Exchange, Subscribing, AskStatus, CallInBlock, <<>>}
    BY <1>2, <2>1, ScriptHeads
  <2>2. CASE tasks[k].todo \in {SubscribingNamed, EmptyBlock, LastLine, TellStatus}
    BY <2>2, ScriptHeads, ScriptTails
  <2>3. CASE \E x \in ResultLines : tasks[k].todo = Block(x)
    BY <2>3, ScriptHeads, ScriptTails
  <2>4. CASE \E x \in ResultLines : tasks[k].todo = Inner(x)
    BY <2>4, ScriptHeads, ScriptTails
  <2> QED BY <1>1, <2>1, <2>2, <2>3, <2>4 DEF Todos, Starting, InBlock, Blocks, Inners
<1>5. msg \in Messages
  BY <1>4 DEF Messages, ResultLines
<1>6. t \in Todos
  BY <1>4 DEF Todos, InBlock, Inners
<1> HIDE DEF t, msg
<1>7. rec \in TaskRecords
  BY <1>1, <1>6 DEF TaskRecords
<1>8. /\ rec.line = tasks[k].line /\ rec.ver = tasks[k].ver /\ rec.todo = t
      /\ rec.refused = tasks[k].refused /\ rec.floor = tasks[k].floor
  BY <1>1 DEF TaskRecords
<1> HIDE DEF rec
<1> QED BY <1>2, <1>3, <1>4, <1>5, <1>7, <1>8

-----------------------------------------------------------------------------
(* The invariant *)

(* What does not depend on the reading side. *)
TasksSound ==
    /\ \A k \in DOMAIN tasks : KeepsToScript(k)
    /\ AcksAreCovered
    /\ SeesFloor
    /\ AnsweredAreDone

LEMMA UnconfirmedFinite ==
  ASSUME tasks \in Seq(TaskRecords)
  PROVE  IsFiniteSet(Unconfirmed) /\ Cardinality(Unconfirmed) \in Nat
<1>1. DOMAIN tasks = 1..Len(tasks) /\ Len(tasks) \in Nat
  BY LenProperties
<1>2. IsFiniteSet(DOMAIN tasks)
  BY <1>1, FS_Interval
<1>3. Unconfirmed \subseteq DOMAIN tasks
  BY DEF Unconfirmed
<1>4. IsFiniteSet(Unconfirmed)
  BY <1>2, <1>3, FS_Subset
<1> QED BY <1>4, FS_CardinalityType

LEMMA TasksUnchanged ==
  ASSUME TasksSound, UNCHANGED <<tasks, last, answered, acked, ver>>
  PROVE  TasksSound'
  BY DEF TasksSound, KeepsToScript, AcksAreCovered, Unconfirmed, Confirms, SeesFloor, AnsweredAreDone

LEMMA LinesInvParts == LinesInv <=> LinesTypes /\ LinesBounds /\ TasksSound /\ BufferHoldsNoLine /\ (patient => OneAtATime)
  BY DEF LinesInv, TasksSound

(* The greeting. *)
LEMMA GreetKeepsInv ==
  ASSUME LinesInv, Greet
  PROVE  LinesInv'
<1>1. UNCHANGED <<left, patient, got, socket, buf, cur, named, tasks, last, answered, ver, locked, acked>>
  BY DEF Greet, input, store
<1>2. TasksSound'
  BY <1>1, TasksUnchanged, LinesInvParts
<1>3. Len(Greeting) = 5
  BY DEF Greeting
<1>4. /\ greeted' = greeted + 1 /\ greeted \in 0..4
      /\ reader' = IF greeted' = 5 THEN "reads" ELSE reader
      /\ reader = "greets" /\ tasks = <<>>
  BY <1>3 DEF Greet, LinesInv, LinesTypes, LinesBounds
<1>5. LinesTypes'
  BY <1>1, <1>4 DEF LinesInv, LinesTypes
<1>6. LinesBounds'
  BY <1>1, <1>4 DEF LinesInv, LinesBounds
<1>7. BufferHoldsNoLine' /\ (patient => OneAtATime)'
  BY <1>1 DEF LinesInv, BufferHoldsNoLine, OneAtATime, BetweenBlocks
<1> QED BY <1>2, <1>5, <1>6, <1>7, LinesInvParts, PTL

(* A read: a patient client has sent no more than one line, and all before *)
(* it are answered.                                                        *)
LEMMA ReceiveKeepsInv ==
  ASSUME LinesInv, NEW n \in 1..Len(left), Receive(n)
  PROVE  LinesInv'
<1> DEFINE chunk == SubSeq(left, 1, n)
<1>1. /\ UNCHANGED <<patient, socket, buf, named, tasks, greeted, last, answered, acked, ver, locked>>
      /\ reader = "reads" /\ reader' = "splits"
      /\ got' = got \o chunk /\ cur' = buf \o chunk /\ MaySend(chunk)
      /\ left' = SubSeq(left, n + 1, Len(left))
  BY DEF Receive, output, store
<1>2. left \in Seq(Fragments) /\ got \in Seq(Fragments) /\ buf \in Seq(Fragments)
  BY DEF LinesInv, LinesTypes
<1>3. chunk \in Seq(Fragments) /\ left' \in Seq(Fragments)
  BY <1>1, <1>2
<1> HIDE DEF chunk
<1>4. got' \in Seq(Fragments) /\ cur' \in Seq(Fragments)
  BY <1>1, <1>2, <1>3
<1>5. TasksSound'
  BY <1>1, TasksUnchanged, LinesInvParts
<1>6. LinesTypes' /\ LinesBounds' /\ BufferHoldsNoLine'
  BY <1>1, <1>2, <1>3, <1>4 DEF LinesInv, LinesTypes, LinesBounds, BufferHoldsNoLine
<1>7. ASSUME patient' PROVE OneAtATime'
  <2>1. OneAtATime /\ DOMAIN tasks \subseteq answered /\ \A i \in 1..(Len(chunk) - 1) : chunk[i] # NL
    BY <1>1, <1>7 DEF LinesInv, MaySend
  <2>2. ASSUME NEW i \in DOMAIN cur', cur'[i] = NL PROVE i = Len(cur')
    <3> DEFINE m == Len(buf)
               c == Len(chunk)
    <3>1. /\ DOMAIN cur' = 1..(m + c) /\ Len(cur') = m + c /\ m \in Nat /\ c \in Nat
          /\ \A j \in 1..(m + c) : cur'[j] = IF j <= m THEN buf[j] ELSE chunk[j - m]
      BY <1>1, <1>2, <1>3, <1>4, ConcatProperties, LenProperties
    <3>2. \A j \in 1..m : buf[j] # NL
      BY <1>2, LenProperties DEF LinesInv, BufferHoldsNoLine
    <3>3. \A j \in 1..(c - 1) : chunk[j] # NL
      BY <2>1
    <3> HIDE DEF m, c
    <3>4. i \in 1..(m + c) /\ ~(i <= m) /\ chunk[i - m] = NL
      BY <2>2, <3>1, <3>2
    <3>5. i - m \notin 1..(c - 1)
      BY <3>3, <3>4
    <3> QED BY <3>1, <3>4, <3>5
  <2> QED BY <1>1, <2>1, <2>2 DEF OneAtATime, BetweenBlocks
<1> QED BY <1>5, <1>6, <1>7, LinesInvParts, PTL

(* The end of the data callback. *)
LEMMA KeepTailKeepsInv ==
  ASSUME LinesInv, KeepTail
  PROVE  LinesInv'
<1>1. /\ UNCHANGED <<left, patient, got, socket, named, tasks, greeted, last, answered, acked, ver, locked>>
      /\ reader = "splits" /\ reader' = "reads" /\ buf' = cur /\ cur' = <<>>
      /\ \A i \in DOMAIN cur : cur[i] # NL
  BY DEF KeepTail, input, output, store
<1>2. TasksSound'
  BY <1>1, TasksUnchanged, LinesInvParts
<1>3. LinesTypes' /\ LinesBounds' /\ BufferHoldsNoLine'
  BY <1>1 DEF LinesInv, LinesTypes, LinesBounds, BufferHoldsNoLine
<1>4. (patient => OneAtATime)'
  BY <1>1 DEF LinesInv, OneAtATime, BetweenBlocks
<1> QED BY <1>2, <1>3, <1>4, LinesInvParts, PTL

(* The peer goes away. *)
LEMMA BreakKeepsInv ==
  ASSUME LinesInv, Breaks \/ Disconnected
  PROVE  LinesInv'
<1>1. /\ UNCHANGED <<left, patient, got, reader, cur, tasks, greeted, last, answered, acked, ver, locked>>
      /\ socket' \in {"broken", "closed"}
      /\ named' = named \/ named' = FALSE
      /\ buf' = buf \/ buf' = <<>>
  BY DEF Breaks, Disconnected, input, output, store
<1>2. TasksSound'
  BY <1>1, TasksUnchanged, LinesInvParts
<1>3. buf' \in Seq(Fragments) /\ named' \in BOOLEAN /\ BufferHoldsNoLine'
  <2>1. named' \in BOOLEAN
    BY <1>1, Zenon DEF LinesInv, LinesTypes
  <2>2. buf' \in Seq(Fragments)
    <3>1. <<>> \in Seq(Fragments) /\ buf \in Seq(Fragments)
      BY DEF LinesInv, LinesTypes
    <3> QED BY <1>1, <3>1, Zenon
  <2>3. BufferHoldsNoLine'
    BY <1>1 DEF LinesInv, BufferHoldsNoLine
  <2> QED BY <2>1, <2>2, <2>3
<1>4. LinesTypes' /\ LinesBounds'
  BY <1>1, <1>3 DEF LinesInv, LinesTypes, LinesBounds
<1>5. (patient => OneAtATime)'
  BY <1>1 DEF LinesInv, OneAtATime, BetweenBlocks
<1> QED BY <1>2, <1>3, <1>4, <1>5, LinesInvParts, PTL

(* A new goroutine begins with its script, after everything confirmed. *)
LEMMA TakeLineKeepsInv ==
  ASSUME LinesInv, TakeLine
  PROVE  LinesInv'
<1>1. PICK i \in DOMAIN cur :
         /\ cur[i] = NL /\ \A j \in 1..(i - 1) : cur[j] # NL
         /\ tasks' = Append(tasks, Task(Trim(SubSeq(cur, 1, i - 1)), Script(Trim(SubSeq(cur, 1, i - 1)))))
         /\ cur' = SubSeq(cur, i + 1, Len(cur))
  BY DEF TakeLine
<1>2. /\ UNCHANGED <<left, patient, got, socket, reader, buf, named, greeted, last, answered, acked, ver, locked>>
      /\ reader = "splits"
  BY DEF TakeLine, input, output, store
<1> DEFINE line == Trim(SubSeq(cur, 1, i - 1))
           rec == Task(line, Script(line))
<1>3. /\ cur \in Seq(Fragments) /\ tasks \in Seq(TaskRecords) /\ acked \in Nat /\ ver \in Nat
      /\ LinesBounds /\ LinesTypes
  BY DEF LinesInv, LinesTypes
<1>4. i \in 1..Len(cur) /\ cur' \in Seq(Fragments)
  BY <1>1, <1>3
<1>5. line \in Trimmed
  <2>1. SubSeq(cur, 1, i - 1) \in Seq(Fragments)
    BY <1>3, <1>4
  <2> QED BY <2>1 DEF Trimmed
<1> HIDE DEF line
<1>6. Script(line) \in Starting \cup {<<>>}
  BY ScriptBegins
<1>7. /\ rec \in TaskRecords /\ rec.line = line /\ rec.todo = Script(line) /\ rec.ver = 0
      /\ rec.floor = acked
  BY <1>3, <1>5, <1>6 DEF Task, TaskRecords, Todos
<1>8. tasks' = Append(tasks, rec)
  BY <1>1 DEF line
<1> HIDE DEF rec
<1>a. PICK n \in Nat : n = Len(tasks) + 1
  BY <1>3
<1>9. /\ tasks' \in Seq(TaskRecords) /\ Len(tasks') = n
      /\ DOMAIN tasks' = 1..n /\ DOMAIN tasks = 1..(n - 1) /\ n \in Nat \ {0}
      /\ tasks'[n] = rec /\ \A k \in 1..(n - 1) : tasks'[k] = tasks[k]
  BY <1>3, <1>7, <1>8, <1>a
<1>10. LinesTypes'
  BY <1>2, <1>4, <1>9 DEF LinesInv, LinesTypes
<1>11. LinesBounds'
  <2>1. \A k \in DOMAIN tasks' : tasks'[k].ver <= ver /\ tasks'[k].floor <= acked
    BY <1>3, <1>7, <1>9 DEF LinesBounds
  <2> QED BY <1>2, <1>3, <1>9, <2>1 DEF LinesBounds
<1>12. ASSUME NEW k \in DOMAIN tasks' PROVE KeepsToScript(k)'
  <2>1. CASE k = n
    BY <1>7, <1>9, <2>1, ScriptBegins DEF KeepsToScript
  <2>2. CASE k # n
    BY <1>9, <1>12, <2>2 DEF LinesInv, KeepsToScript
  <2> QED BY <2>1, <2>2
<1>13. AcksAreCovered'
  <2>1. Confirms(n)' => Script(line) = Exchange
    BY <1>7, <1>9, ScriptBegins DEF Confirms
  <2>2. n \notin Unconfirmed'
    BY <1>7, <1>9, <2>1 DEF Unconfirmed
  <2>3. \A k \in 1..(n - 1) : k \in Unconfirmed' <=> k \in Unconfirmed
    <3> TAKE k \in 1..(n - 1)
    <3>1. k \in DOMAIN tasks /\ k \in DOMAIN tasks' /\ tasks'[k] = tasks[k]
      BY <1>9
    <3>2. Confirms(k)' <=> Confirms(k)
      BY <3>1 DEF Confirms
    <3> QED BY <3>1, <3>2 DEF Unconfirmed
  <2>4. Unconfirmed' = Unconfirmed
    BY <1>9, <2>2, <2>3 DEF Unconfirmed
  <2> QED BY <1>2, <2>4 DEF LinesInv, AcksAreCovered
<1>14. SeesFloor'
  <2> SUFFICES ASSUME NEW k \in DOMAIN tasks',
                      \/ tasks'[k].todo \in {Block("varvalue"), Inner("varvalue")}
                      \/ last' = [of |-> k, msg |-> "varvalue"]
               PROVE  tasks'[k].ver >= tasks'[k].floor
    BY DEF SeesFloor
  <2>1. CASE k = n
    <3>1. tasks'[k].todo \notin {Block("varvalue"), Inner("varvalue")}
      BY <1>7, <1>9, <2>1, ScriptBegins
    <3>2. last.of # n
      BY <1>3, <1>9 DEF LinesBounds
    <3> QED BY <1>2, <2>1, <3>1, <3>2
  <2>2. CASE k # n
    BY <1>2, <1>9, <2>2 DEF LinesInv, SeesFloor
  <2> QED BY <2>1, <2>2
<1>15. AnsweredAreDone'
  BY <1>2, <1>3, <1>9 DEF LinesInv, LinesBounds, AnsweredAreDone
<1>16. BufferHoldsNoLine'
  BY <1>2 DEF LinesInv, BufferHoldsNoLine
<1>17. ASSUME patient' PROVE OneAtATime'
  <2>1. OneAtATime /\ i = Len(cur) /\ DOMAIN tasks \subseteq answered
    BY <1>1, <1>2, <1>17 DEF LinesInv, OneAtATime
  <2>2. DOMAIN cur' = {}
    <3>1. cur' = <<>>
      BY <1>1, <1>3, <2>1
    <3> QED BY <3>1
  <2>3. \A k \in DOMAIN tasks' : k < Len(tasks') => k \in answered'
    BY <1>2, <1>9, <2>1
  <2>4. ASSUME socket' = "open", BetweenBlocks', NEW k \in DOMAIN tasks'
        PROVE  tasks'[k].todo \in Starting \cup {<<>>}
    <3>1. socket = "open" /\ BetweenBlocks
      BY <1>2, <2>4 DEF BetweenBlocks
    <3>2. CASE k = n
      BY <1>6, <1>7, <1>9, <3>2
    <3>3. CASE k # n
      BY <1>9, <2>1, <2>4, <3>1, <3>3 DEF OneAtATime
    <3> QED BY <3>2, <3>3
  <2>5. ASSUME socket' = "open", ~BetweenBlocks' PROVE FALSE
    <3>1. tasks[last.of].todo \in InBlock /\ last.of # 0
      BY <1>2, <2>1, <2>5 DEF OneAtATime, BetweenBlocks, LinesInv, AnsweredAreDone
    <3>2. last.of \in answered
      BY <1>3, <2>1, <3>1 DEF LinesBounds
    <3> QED BY <3>1, <3>2, ScriptsDiffer DEF LinesInv, AnsweredAreDone
  <2> QED BY <2>2, <2>3, <2>4, <2>5 DEF OneAtATime
<1>18. TasksSound'
  BY <1>12, <1>13, <1>14, <1>15 DEF TasksSound
<1> QED BY <1>10, <1>11, <1>16, <1>17, <1>18, LinesInvParts, PTL

(* A goroutine looks up the name of its connection. *)
LEMMA NameKeepsInv ==
  ASSUME LinesInv, NEW k \in DOMAIN tasks, GetsName(k)
  PROVE  LinesInv'
<1>1. LinesTypes /\ LinesBounds /\ TasksSound /\ KeepsToScript(k) /\ tasks \in Seq(TaskRecords)
  BY LinesInvParts DEF TasksSound, LinesTypes
<1>2. PICK rec \in TaskRecords :
            /\ tasks' = [tasks EXCEPT ![k] = rec]
            /\ rec.line = tasks[k].line /\ rec.ver = tasks[k].ver
            /\ rec.refused = tasks[k].refused /\ rec.floor = tasks[k].floor
            /\ tasks[k].todo \in {Naming, Subscribing}
            /\ rec.todo \in {Exchange, SubscribingNamed, <<>>}
            /\ rec.todo = Exchange => tasks[k].todo = Naming
  BY <1>1, NameMoves
<1>3. /\ tasks' \in Seq(TaskRecords) /\ Len(tasks') = Len(tasks) /\ DOMAIN tasks' = DOMAIN tasks
      /\ tasks'[k] = rec /\ \A j \in DOMAIN tasks : j # k => tasks'[j] = tasks[j]
  BY <1>1, <1>2, OwnRecord
<1>4. UNCHANGED <<left, patient, got, socket, reader, buf, cur, greeted, last, answered, acked, ver, locked>>
  BY DEF GetsName, input, output, store
<1>5. named' \in BOOLEAN
  <2>1. named \in BOOLEAN
    BY <1>1 DEF LinesTypes
  <2> QED BY <2>1 DEF GetsName
<1>6. LinesTypes'
  BY <1>1, <1>3, <1>4, <1>5 DEF LinesTypes
<1>7. LinesBounds'
  BY <1>1, <1>2, <1>3, <1>4 DEF LinesBounds
<1>8. tasks[k].todo \notin {Exchange, AskStatus, TellStatus, <<>>} \cup Blocks \cup Inners
  BY <1>2, ScriptsDiffer DEF Starting
<1>9. Command(tasks[k].line) \notin {"set", "delete", "lockstatus"}
  BY <1>1, <1>8 DEF KeepsToScript
<1>10. ASSUME NEW j \in DOMAIN tasks' PROVE KeepsToScript(j)'
  <2>1. CASE j = k
    <3>1. rec.todo \notin {AskStatus, TellStatus}
      BY <1>2, OtherScripts
    <3> QED BY <1>2, <1>3, <1>9, <2>1, <3>1 DEF KeepsToScript
  <2>2. CASE j # k
    BY <1>1, <1>3, <1>10, <2>2 DEF TasksSound, KeepsToScript
  <2> QED BY <2>1, <2>2
<1>11. AcksAreCovered'
  <2>1. \A j \in DOMAIN tasks : j \in Unconfirmed' <=> j \in Unconfirmed
    <3> TAKE j \in DOMAIN tasks
    <3>1. CASE j = k
      BY <1>2, <1>3, <1>9, <3>1 DEF Unconfirmed, Confirms
    <3>2. CASE j # k
      BY <1>3, <3>2 DEF Unconfirmed, Confirms
    <3> QED BY <3>1, <3>2
  <2>2. Unconfirmed' = Unconfirmed
    BY <1>3, <2>1 DEF Unconfirmed
  <2> QED BY <1>1, <1>4, <2>2 DEF TasksSound, AcksAreCovered
<1>12. SeesFloor'
  <2>1. rec.todo \notin {Block("varvalue"), Inner("varvalue")}
    BY <1>2, OtherScripts
  <2> QED BY <1>1, <1>2, <1>3, <1>4, <2>1 DEF TasksSound, SeesFloor
<1>13. k \notin answered
  BY <1>1, <1>8 DEF TasksSound, AnsweredAreDone
<1>14. AnsweredAreDone'
  BY <1>1, <1>3, <1>4, <1>13 DEF TasksSound, AnsweredAreDone, LinesBounds
<1>15. BufferHoldsNoLine'
  BY <1>4 DEF LinesInv, BufferHoldsNoLine
<1>16. ASSUME patient' PROVE OneAtATime'
  <2>1. OneAtATime
    BY <1>4, <1>16 DEF LinesInv
  <2>2. rec.todo \in Starting \cup {<<>>}
    BY <1>2 DEF Starting
  <2>3. tasks[k].todo \notin InBlock
    BY <1>2, ScriptsDiffer DEF Starting
  <2>4. BetweenBlocks' = BetweenBlocks
    BY <1>4 DEF BetweenBlocks
  <2>5. ASSUME socket' = "open", BetweenBlocks', NEW j \in DOMAIN tasks'
        PROVE  tasks'[j].todo \in Starting \cup {<<>>}
    BY <1>3, <1>4, <2>1, <2>2, <2>4, <2>5 DEF OneAtATime
  <2>6. ASSUME socket' = "open", ~BetweenBlocks' PROVE tasks'[last'.of].todo \in InBlock
    <3>1. tasks[last.of].todo \in InBlock /\ last.of \in DOMAIN tasks
      BY <1>1, <1>4, <2>1, <2>4, <2>6
         DEF OneAtATime, BetweenBlocks, LinesBounds, TasksSound, AnsweredAreDone
    <3> QED BY <1>3, <1>4, <2>3, <3>1
  <2>7. \A j \in DOMAIN tasks' : j < Len(tasks') => j \in answered'
    BY <1>3, <1>4, <2>1 DEF OneAtATime
  <2>8. \A i \in DOMAIN cur' : cur'[i] = NL => i = Len(cur') /\ DOMAIN tasks' \subseteq answered'
    BY <1>3, <1>4, <2>1 DEF OneAtATime
  <2> QED BY <2>5, <2>6, <2>7, <2>8 DEF OneAtATime
<1>17. TasksSound'
  BY <1>10, <1>11, <1>12, <1>14 DEF TasksSound
<1> QED BY <1>6, <1>7, <1>15, <1>16, <1>17, LinesInvParts, PTL

(* A call of the controller: a write that is made is owed a confirmation. *)
LEMMA CallKeepsInv ==
  ASSUME LinesInv, NEW k \in DOMAIN tasks, Calls(k) \/ LockTimesOut(k)
  PROVE  LinesInv'
<1>1. LinesTypes /\ LinesBounds /\ TasksSound /\ KeepsToScript(k) /\ tasks \in Seq(TaskRecords)
  BY LinesInvParts DEF TasksSound, LinesTypes
<1>2. PICK rec \in TaskRecords :
            /\ tasks' = [tasks EXCEPT ![k] = rec]
            /\ rec.line = tasks[k].line /\ rec.ver = ver' /\ rec.floor = tasks[k].floor
            /\ ver' \in {ver, ver + 1} /\ locked' \in BOOLEAN
            /\ UNCHANGED <<input, socket, reader, buf, cur, named, output>>
            /\ \/ tasks[k].todo = Exchange /\ rec.todo \in Blocks
               \/ tasks[k].todo = AskStatus /\ rec.todo = TellStatus
               \/ tasks[k].todo = CallInBlock /\ rec.todo = LastLine
            /\ Command(rec.line) \in {"set", "delete"} /\ Payload(rec.line) # "" /\ ~rec.refused
               => ver' = ver + 1
  BY <1>1, CallMoves
<1>3. /\ tasks' \in Seq(TaskRecords) /\ Len(tasks') = Len(tasks) /\ DOMAIN tasks' = DOMAIN tasks
      /\ tasks'[k] = rec /\ \A j \in DOMAIN tasks : j # k => tasks'[j] = tasks[j]
  BY <1>1, <1>2, OwnRecord
<1>4. UNCHANGED <<left, patient, got, socket, reader, buf, cur, named, greeted, last, answered, acked>>
  BY <1>2 DEF input, output
<1>5. ver \in Nat /\ ver' \in Nat /\ ver <= ver' /\ acked \in Nat /\ (ver' = ver \/ ver' = ver + 1)
  <2>1. ver' = ver \/ ver' = ver + 1
    BY <1>2, Zenon
  <2>2. ver \in Nat /\ acked \in Nat
    BY <1>1 DEF LinesTypes
  <2> QED BY <2>1, <2>2
<1>a. rec.ver = ver' /\ rec.floor = tasks[k].floor /\ rec.line = tasks[k].line
  BY <1>2
<1>6. LinesTypes'
  BY <1>1, <1>2, <1>3, <1>4, <1>5 DEF LinesTypes
<1>7. LinesBounds'
  <2>1. ASSUME NEW j \in DOMAIN tasks PROVE tasks'[j].ver <= ver' /\ tasks'[j].floor <= acked
    <3>1. tasks[j].ver \in Nat /\ tasks[j].ver <= ver /\ tasks[j].floor <= acked
      <4>1. tasks[j] \in TaskRecords
        BY <1>1, <2>1, LenProperties
      <4> QED BY <1>1, <4>1 DEF LinesBounds, TaskRecords
    <3>2. CASE j = k
      BY <1>a, <1>3, <1>5, <3>1, <3>2
    <3>3. CASE j # k
      BY <1>3, <1>5, <3>1, <3>3
    <3> QED BY <3>2, <3>3
  <2> QED BY <1>1, <1>3, <1>4, <2>1 DEF LinesBounds
<1>8. \/ tasks[k].todo = Exchange /\ rec.todo \in Blocks
      \/ tasks[k].todo = AskStatus /\ rec.todo = TellStatus
      \/ tasks[k].todo = CallInBlock /\ rec.todo = LastLine
  BY <1>2
<1>9. tasks[k].todo # <<>>
  BY <1>8, ScriptsDiffer DEF Starting, InBlock
<1>10. ASSUME NEW j \in DOMAIN tasks' PROVE KeepsToScript(j)'
  <2>1. CASE j = k
    <3>1. CASE tasks[k].todo = Exchange /\ rec.todo \in Blocks
      <4>1. Command(tasks[k].line) # "lockstatus"
        <5>1. Command(tasks[k].line) = "lockstatus" => tasks[k].todo \in {AskStatus, TellStatus, <<>>}
          BY <1>1 DEF KeepsToScript
        <5> QED BY <1>9, <3>1, <5>1, OtherScripts
      <4>2. rec.todo \notin {AskStatus, TellStatus}
        BY <3>1, ScriptsDiffer
      <4> QED BY <1>2, <1>3, <2>1, <3>1, <4>1, <4>2 DEF KeepsToScript
    <3>2. CASE tasks[k].todo = AskStatus /\ rec.todo = TellStatus
      BY <1>1, <1>2, <1>3, <2>1, <3>2 DEF KeepsToScript
    <3>3. CASE tasks[k].todo = CallInBlock /\ rec.todo = LastLine
      <4>1. tasks[k].todo \notin {Exchange, <<>>, AskStatus, TellStatus} \cup Blocks \cup Inners
        BY <1>9, <3>3, ScriptsDiffer
      <4>2. Command(tasks[k].line) \notin {"set", "delete", "lockstatus"}
        BY <1>1, <4>1 DEF KeepsToScript
      <4>3. rec.todo \notin {AskStatus, TellStatus}
        BY <3>3, ScriptsDiffer DEF InBlock, Inners
      <4> QED BY <1>2, <1>3, <2>1, <4>2, <4>3 DEF KeepsToScript
    <3> QED BY <1>8, <3>1, <3>2, <3>3
  <2>2. CASE j # k
    BY <1>1, <1>3, <1>10, <2>2 DEF TasksSound, KeepsToScript
  <2> QED BY <2>1, <2>2
<1>11. AcksAreCovered'
  <2>1. \A j \in DOMAIN tasks : j # k => (j \in Unconfirmed' <=> j \in Unconfirmed)
    <3> TAKE j \in DOMAIN tasks
    <3> HAVE j # k
    <3>1. tasks'[j] = tasks[j]
      BY <1>3
    <3> QED BY <1>3, <3>1 DEF Unconfirmed, Confirms
  <2>2. Unconfirmed \subseteq DOMAIN tasks /\ Unconfirmed' \subseteq DOMAIN tasks
    BY <1>3 DEF Unconfirmed
  <2>3. IsFiniteSet(Unconfirmed) /\ Cardinality(Unconfirmed) \in Nat
    BY <1>1, UnconfirmedFinite
  <2>4. acked + Cardinality(Unconfirmed) <= ver
    BY <1>1 DEF TasksSound, AcksAreCovered
  <2>5. k \notin Unconfirmed
    <3>1. CASE tasks[k].todo = Exchange
      BY <3>1 DEF Unconfirmed
    <3>2. CASE tasks[k].todo \in {AskStatus, CallInBlock}
      <4>1. tasks[k].todo \notin {Exchange, <<>>} \cup Blocks \cup Inners
        BY <1>9, <3>2, ScriptLengths, ScriptsDiffer DEF InBlock
      <4>2. Command(tasks[k].line) \notin {"set", "delete"}
        BY <1>1, <4>1 DEF KeepsToScript
      <4> QED BY <4>2 DEF Unconfirmed, Confirms
    <3> QED BY <1>8, <3>1, <3>2
  <2>6. CASE k \in Unconfirmed'
    <3>1. ver' = ver + 1
      BY <1>2, <1>3, <2>6 DEF Unconfirmed, Confirms
    <3>2. Unconfirmed' = Unconfirmed \cup {k}
      BY <2>1, <2>2, <2>6
    <3>3. Cardinality(Unconfirmed') = Cardinality(Unconfirmed) + 1
      BY <2>3, <2>5, <3>2, FS_AddElement
    <3> QED BY <1>4, <1>5, <2>3, <2>4, <3>1, <3>3 DEF AcksAreCovered
  <2>7. CASE k \notin Unconfirmed'
    <3>1. Unconfirmed' = Unconfirmed
      BY <2>1, <2>2, <2>5, <2>7
    <3> QED BY <1>4, <1>5, <2>3, <2>4, <3>1 DEF AcksAreCovered
  <2> QED BY <2>6, <2>7
<1>12. SeesFloor'
  <2>1. rec.ver >= rec.floor
    <3>1. tasks[k] \in TaskRecords /\ tasks[k].floor <= acked
      BY <1>1, LenProperties DEF LinesBounds
    <3>2. tasks[k].floor \in Nat
      BY <3>1 DEF TaskRecords
    <3>3. acked <= ver
      <4>1. Cardinality(Unconfirmed) \in Nat /\ acked + Cardinality(Unconfirmed) <= ver
        BY <1>1, UnconfirmedFinite DEF TasksSound, AcksAreCovered
      <4> QED BY <1>5, <4>1
    <3> QED BY <1>a, <1>5, <3>1, <3>2, <3>3
  <2>2. ASSUME NEW j \in DOMAIN tasks,
               \/ tasks'[j].todo \in {Block("varvalue"), Inner("varvalue")}
               \/ last' = [of |-> j, msg |-> "varvalue"]
        PROVE  tasks'[j].ver >= tasks'[j].floor
    <3>1. CASE j = k
      BY <1>3, <2>1, <3>1
    <3>2. CASE j # k
      BY <1>1, <1>3, <1>4, <2>2, <3>2 DEF TasksSound, SeesFloor
    <3> QED BY <3>1, <3>2
  <2> QED BY <1>3, <2>2 DEF SeesFloor
<1>13. k \notin answered
  BY <1>1, <1>9 DEF TasksSound, AnsweredAreDone
<1>14. AnsweredAreDone'
  BY <1>1, <1>3, <1>4, <1>13 DEF TasksSound, AnsweredAreDone, LinesBounds
<1>15. BufferHoldsNoLine'
  BY <1>4 DEF LinesInv, BufferHoldsNoLine
<1>16. ASSUME patient' PROVE OneAtATime'
  <2>1. OneAtATime
    BY <1>4, <1>16 DEF LinesInv
  <2>2. /\ tasks[k].todo \in Starting => rec.todo \in Starting
        /\ tasks[k].todo \in InBlock => rec.todo \in InBlock
    BY <1>8, ScriptsDiffer DEF Starting, InBlock, Inners
  <2>3. tasks[k].todo \in Starting \cup InBlock
    BY <1>8 DEF Starting, InBlock
  <2>4. BetweenBlocks' = BetweenBlocks
    BY <1>4 DEF BetweenBlocks
  <2>5. ASSUME socket' = "open", BetweenBlocks', NEW j \in DOMAIN tasks'
        PROVE  tasks'[j].todo \in Starting \cup {<<>>}
    BY <1>3, <1>4, <1>9, <2>1, <2>2, <2>4, <2>5 DEF OneAtATime
  <2>6. ASSUME socket' = "open", ~BetweenBlocks' PROVE tasks'[last'.of].todo \in InBlock
    <3>1. tasks[last.of].todo \in InBlock /\ last.of \in DOMAIN tasks
      BY <1>1, <1>4, <2>1, <2>4, <2>6
         DEF OneAtATime, BetweenBlocks, LinesBounds, TasksSound, AnsweredAreDone
    <3> QED BY <1>3, <1>4, <2>2, <3>1
  <2>7. \A j \in DOMAIN tasks' : j < Len(tasks') => j \in answered'
    BY <1>3, <1>4, <2>1 DEF OneAtATime
  <2>8. \A i \in DOMAIN cur' : cur'[i] = NL => i = Len(cur') /\ DOMAIN tasks' \subseteq answered'
    BY <1>3, <1>4, <2>1 DEF OneAtATime
  <2> QED BY <2>5, <2>6, <2>7, <2>8 DEF OneAtATime
<1>17. TasksSound'
  BY <1>10, <1>11, <1>12, <1>14 DEF TasksSound
<1> QED BY <1>6, <1>7, <1>15, <1>16, <1>17, LinesInvParts, PTL

(* A write, seen from outside: it opens, continues or ends the answer. *)
WriteEffect(k, rec, msg) ==
    /\ tasks' = [tasks EXCEPT ![k] = rec]
    /\ rec.line = tasks[k].line /\ rec.ver = tasks[k].ver
    /\ rec.refused = tasks[k].refused /\ rec.floor = tasks[k].floor
    /\ UNCHANGED <<input, socket, reader, buf, cur, named, greeted, store>>
    /\ IF socket = "open"
       THEN /\ last' = [of |-> k, msg |-> msg]
            /\ answered' = answered \cup (IF Ends(msg) THEN {k} ELSE {})
            /\ acked' = IF Ends(msg) /\ Confirms(k) THEN acked + 1 ELSE acked
       ELSE UNCHANGED <<last, answered, acked>>
    /\ tasks[k].todo \notin {Exchange, <<>>} /\ rec.todo # Exchange
    /\ tasks[k].todo \in Starting <=> Opens(msg)
    /\ tasks[k].todo \in InBlock <=> ~Opens(msg)
    /\ IF Ends(msg) THEN rec.todo = <<>> ELSE rec.todo \in InBlock
    /\ rec.todo \in {Block("varvalue"), Inner("varvalue")} => tasks[k].todo = Block("varvalue")
    /\ msg = "varvalue" => tasks[k].todo = Inner("varvalue")
    /\ rec.todo \notin {AskStatus, TellStatus}
    /\ tasks[k].todo \in {AskStatus, TellStatus} => rec.todo = <<>>
    /\ rec.todo \in Inners \cup {<<>>} \/ tasks[k].todo = SubscribingNamed

LEMMA WriteSorts ==
  ASSUME LinesTypes, NEW k \in DOMAIN tasks, Writes(k)
  PROVE  \E rec \in TaskRecords, msg \in Messages : WriteEffect(k, rec, msg)
<1>1. PICK rec \in TaskRecords, msg \in Messages :
            /\ tasks' = [tasks EXCEPT ![k] = rec]
            /\ rec.line = tasks[k].line /\ rec.ver = tasks[k].ver
            /\ rec.refused = tasks[k].refused /\ rec.floor = tasks[k].floor
            /\ UNCHANGED <<input, socket, reader, buf, cur, named, greeted, store>>
            /\ IF socket = "open"
               THEN /\ last' = [of |-> k, msg |-> msg]
                    /\ answered' = answered \cup (IF Ends(msg) THEN {k} ELSE {})
                    /\ acked' = IF Ends(msg) /\ Confirms(k) THEN acked + 1 ELSE acked
               ELSE UNCHANGED <<last, answered, acked>>
            /\ \/ /\ msg = "beginresponse"
                  /\ \/ tasks[k].todo = SubscribingNamed /\ rec.todo = CallInBlock
                     \/ tasks[k].todo = EmptyBlock /\ rec.todo = LastLine
                     \/ \E x \in ResultLines : tasks[k].todo = Block(x) /\ rec.todo = Inner(x)
               \/ msg \in ResultLines /\ tasks[k].todo = Inner(msg) /\ rec.todo = LastLine
               \/ msg = "endresponse" /\ tasks[k].todo = LastLine /\ rec.todo = <<>>
               \/ msg = "lockstatusresult" /\ tasks[k].todo = TellStatus /\ rec.todo = <<>>
  BY WriteMoves
<1> DEFINE from == tasks[k].todo
           to == rec.todo
<1>2. /\ from \in Starting \cup InBlock
      /\ from \in Starting <=> Opens(msg)
      /\ IF Ends(msg) THEN to = <<>> ELSE to \in InBlock
      /\ to \in Inners \cup {<<>>} \/ from = SubscribingNamed
  <2>1. CASE msg = "beginresponse" /\ from = SubscribingNamed /\ to = CallInBlock
    BY <2>1 DEF Opens, Ends, Starting, InBlock
  <2>2. CASE msg = "beginresponse" /\ from = EmptyBlock /\ to = LastLine
    BY <2>2 DEF Opens, Ends, Starting, InBlock, Blocks, Inners
  <2>3. CASE msg = "beginresponse" /\ \E x \in ResultLines : from = Block(x) /\ to = Inner(x)
    BY <2>3 DEF Opens, Ends, Starting, InBlock, Blocks, Inners
  <2>4. CASE msg \in ResultLines /\ from = Inner(msg) /\ to = LastLine
    <3>1. from \in InBlock /\ to \in InBlock /\ to \in Inners
      BY <2>4 DEF InBlock, Inners
    <3>2. ~Opens(msg) /\ ~Ends(msg)
      BY <2>4 DEF Opens, Ends, ResultLines
    <3> QED BY <3>1, <3>2, ScriptsDiffer
  <2>5. CASE msg = "endresponse" /\ from = LastLine /\ to = <<>>
    <3>1. from \in InBlock
      BY <2>5 DEF InBlock, Inners
    <3> QED BY <2>5, <3>1, ScriptsDiffer DEF Opens, Ends
  <2>6. CASE msg = "lockstatusresult" /\ from = TellStatus /\ to = <<>>
    BY <2>6 DEF Opens, Ends, Starting
  <2> QED BY <1>1, <2>1, <2>2, <2>3, <2>4, <2>5, <2>6
<1>3. from \in InBlock <=> ~Opens(msg)
  BY <1>2, ScriptsDiffer
<1>4. to \notin {AskStatus, TellStatus} /\ to # Exchange
  BY <1>2, ScriptsDiffer, OtherScripts
<1>5. from \notin {Exchange, <<>>}
  <2>1. Exchange \notin {SubscribingNamed, EmptyBlock, LastLine, TellStatus}
    BY ScriptLengths
  <2>2. \A x : Exchange # Block(x) /\ Exchange # Inner(x)
    BY ScriptLengths
  <2>3. from # Exchange
    BY <1>1, <2>1, <2>2
  <2> QED BY <1>2, <2>3, ScriptsDiffer
<1>6. to \in {Block("varvalue"), Inner("varvalue")} => from = Block("varvalue")
  <2> SUFFICES ASSUME to \in {Block("varvalue"), Inner("varvalue")}
               PROVE  from = Block("varvalue")
    OBVIOUS
  <2>1. to # CallInBlock /\ to # LastLine /\ to # <<>>
    BY ScriptsDiffer, OtherScripts
  <2>2. PICK x \in ResultLines : from = Block(x) /\ to = Inner(x)
    BY <1>1, <2>1
  <2>3. to = Inner("varvalue")
    <3>1. Inner(x) # Block("varvalue")
      BY ScriptLengths
    <3> QED BY <2>2, <3>1
  <2>4. x = "varvalue"
    <3>1. Head(Inner(x)) = x /\ Head(Inner("varvalue")) = "varvalue"
      BY ScriptHeads, Zenon
    <3>2. Inner(x) = Inner("varvalue")
      BY <2>2, <2>3
    <3> QED BY <3>1, <3>2, Zenon
  <2> QED BY <2>2, <2>4
<1>7. msg = "varvalue" => from = Inner("varvalue")
  BY <1>1
<1>a. from \in {AskStatus, TellStatus} => to = <<>>
  <2> SUFFICES ASSUME from \in {AskStatus, TellStatus} PROVE to = <<>>
    OBVIOUS
  <2>1. from # SubscribingNamed /\ from \notin Blocks \cup InBlock
    BY ScriptsDiffer, OtherScripts
  <2>2. from # EmptyBlock /\ from # LastLine /\ \A x \in ResultLines : from # Block(x) /\ from # Inner(x)
    BY <2>1 DEF Blocks, InBlock, Inners
  <2> QED BY <1>1, <2>1, <2>2
<1>8. WriteEffect(k, rec, msg)
  BY <1>a, <1>1, <1>2, <1>3, <1>4, <1>5, <1>6, <1>7 DEF WriteEffect
<1> QED BY <1>1, <1>8

(* An answer line: the end of an answer confirms a write that was made. *)
LEMMA WriteKeepsInv ==
  ASSUME LinesInv, NEW k \in DOMAIN tasks, Writes(k)
  PROVE  LinesInv'
<1>1. LinesTypes /\ LinesBounds /\ TasksSound /\ KeepsToScript(k) /\ tasks \in Seq(TaskRecords)
  BY LinesInvParts DEF TasksSound, LinesTypes
<1>2. PICK rec \in TaskRecords, msg \in Messages : WriteEffect(k, rec, msg)
  BY <1>1, WriteSorts
<1>3. /\ tasks' \in Seq(TaskRecords) /\ Len(tasks') = Len(tasks) /\ DOMAIN tasks' = DOMAIN tasks
      /\ tasks'[k] = rec /\ \A j \in DOMAIN tasks : j # k => tasks'[j] = tasks[j]
  BY <1>1, <1>2, OwnRecord DEF WriteEffect
<1>4. /\ UNCHANGED <<left, patient, got, socket, reader, buf, cur, named, greeted, ver, locked>>
      /\ rec.line = tasks[k].line /\ rec.ver = tasks[k].ver
      /\ rec.refused = tasks[k].refused /\ rec.floor = tasks[k].floor
  BY <1>2 DEF WriteEffect, input, store
<1>5. IF socket = "open"
      THEN /\ last' = [of |-> k, msg |-> msg]
           /\ answered' = answered \cup (IF Ends(msg) THEN {k} ELSE {})
           /\ acked' = IF Ends(msg) /\ Confirms(k) THEN acked + 1 ELSE acked
      ELSE UNCHANGED <<last, answered, acked>>
  BY <1>2 DEF WriteEffect
<1>6. /\ tasks[k].todo \notin {Exchange, <<>>} /\ rec.todo # Exchange
      /\ tasks[k].todo \in Starting <=> Opens(msg)
      /\ tasks[k].todo \in InBlock <=> ~Opens(msg)
      /\ IF Ends(msg) THEN rec.todo = <<>> ELSE rec.todo \in InBlock
      /\ rec.todo \in {Block("varvalue"), Inner("varvalue")} => tasks[k].todo = Block("varvalue")
      /\ msg = "varvalue" => tasks[k].todo = Inner("varvalue")
      /\ rec.todo \notin {AskStatus, TellStatus}
      /\ tasks[k].todo \in {AskStatus, TellStatus} => rec.todo = <<>>
      /\ rec.todo \in Inners \cup {<<>>} \/ tasks[k].todo = SubscribingNamed
  BY <1>2 DEF WriteEffect
<1>7. acked \in Nat /\ ver \in Nat /\ (acked' = acked \/ acked' = acked + 1)
  BY <1>1, <1>5 DEF LinesTypes
<1>8. k \in Nat \ {0} /\ k \in 1..Len(tasks) /\ DOMAIN tasks = 1..Len(tasks) /\ Len(tasks) \in Nat
  BY <1>1, LenProperties
<1>9. LinesTypes'
  <2>1. last' \in [of : Nat, msg : Messages]
    <3>1. [of |-> k, msg |-> msg] \in [of : Nat, msg : Messages]
      BY <1>2, <1>8
    <3> QED BY <1>1, <1>5, <3>1 DEF LinesTypes
  <2>2. acked' \in Nat
    BY <1>7
  <2> QED BY <1>1, <1>3, <1>4, <2>1, <2>2 DEF LinesTypes
<1>10. LinesBounds'
  <2>1. ASSUME NEW j \in DOMAIN tasks PROVE tasks'[j].ver <= ver /\ tasks'[j].floor <= acked'
    <3>1. tasks[j].floor \in Nat /\ tasks[j].ver <= ver /\ tasks[j].floor <= acked
      <4>1. tasks[j] \in TaskRecords
        BY <1>1, <2>1, LenProperties
      <4> QED BY <1>1, <4>1 DEF LinesBounds, TaskRecords
    <3>2. tasks'[j].ver = tasks[j].ver /\ tasks'[j].floor = tasks[j].floor
      BY <1>3, <1>4
    <3> QED BY <1>7, <3>1, <3>2
  <2>2. answered' \subseteq DOMAIN tasks /\ last'.of \in {0} \cup DOMAIN tasks
    BY <1>1, <1>5 DEF LinesBounds
  <2>3. tasks # <<>>
    BY <1>8
  <2> QED BY <1>1, <1>3, <1>4, <2>1, <2>2, <2>3 DEF LinesBounds
<1>11. ASSUME NEW j \in DOMAIN tasks' PROVE KeepsToScript(j)'
  <2>1. CASE j = k
    <3>1. Command(tasks[k].line) \in {"set", "delete"} => rec.todo \in Inners \cup {<<>>}
      <4> SUFFICES ASSUME Command(tasks[k].line) \in {"set", "delete"}, tasks[k].todo = SubscribingNamed
                   PROVE  FALSE
        BY <1>6
      <4>1. tasks[k].todo \in {Exchange, <<>>} \cup Blocks \cup Inners
        BY <1>1 DEF KeepsToScript
      <4> QED BY <1>6, <4>1, ScriptsDiffer
    <3>2. Command(tasks[k].line) = "lockstatus" => rec.todo = <<>>
      <4>1. Command(tasks[k].line) = "lockstatus" => tasks[k].todo \in {AskStatus, TellStatus, <<>>}
        BY <1>1 DEF KeepsToScript
      <4> QED BY <1>6, <4>1
    <3> QED BY <1>3, <1>4, <1>6, <2>1, <3>1, <3>2 DEF KeepsToScript
  <2>2. CASE j # k
    BY <1>1, <1>3, <1>11, <2>2 DEF TasksSound, KeepsToScript
  <2> QED BY <2>1, <2>2
<1>12. AcksAreCovered'
  <2>1. \A j \in DOMAIN tasks : j # k => (j \in Unconfirmed' <=> j \in Unconfirmed)
    <3> TAKE j \in DOMAIN tasks
    <3> HAVE j # k
    <3>1. tasks'[j] = tasks[j]
      BY <1>3
    <3> QED BY <1>3, <3>1 DEF Unconfirmed, Confirms
  <2>2. Unconfirmed \subseteq DOMAIN tasks /\ Unconfirmed' \subseteq DOMAIN tasks
    BY <1>3 DEF Unconfirmed
  <2>3. IsFiniteSet(Unconfirmed) /\ Cardinality(Unconfirmed) \in Nat
    BY <1>1, UnconfirmedFinite
  <2>4. acked + Cardinality(Unconfirmed) <= ver
    BY <1>1 DEF TasksSound, AcksAreCovered
  <2>5. k \in Unconfirmed <=> Confirms(k)
    BY <1>6 DEF Unconfirmed
  <2>6. k \in Unconfirmed' <=> Confirms(k) /\ rec.todo # <<>>
    BY <1>3, <1>4, <1>6 DEF Unconfirmed, Confirms
  <2>7. CASE Ends(msg) /\ Confirms(k)
    <3>1. k \in Unconfirmed /\ k \notin Unconfirmed'
      BY <1>6, <2>5, <2>6, <2>7
    <3>2. Unconfirmed' = Unconfirmed \ {k}
      BY <2>1, <2>2, <3>1
    <3>3. Cardinality(Unconfirmed') = Cardinality(Unconfirmed) - 1
      BY <2>3, <3>1, <3>2, FS_RemoveElement
    <3> QED BY <1>4, <1>7, <2>3, <2>4, <3>3 DEF AcksAreCovered
  <2>8. CASE ~(Ends(msg) /\ Confirms(k))
    <3>1. k \in Unconfirmed' <=> k \in Unconfirmed
      BY <1>6, <2>5, <2>6, <2>8, ScriptsDiffer
    <3>2. Unconfirmed' = Unconfirmed
      BY <2>1, <2>2, <3>1
    <3>3. acked' = acked
      BY <1>5, <2>8
    <3> QED BY <1>4, <2>4, <3>2, <3>3 DEF AcksAreCovered
  <2> QED BY <2>7, <2>8
<1>13. SeesFloor'
  <2>1. ASSUME NEW j \in DOMAIN tasks,
               \/ tasks'[j].todo \in {Block("varvalue"), Inner("varvalue")}
               \/ last' = [of |-> j, msg |-> "varvalue"]
        PROVE  tasks'[j].ver >= tasks'[j].floor
    <3>1. tasks'[j].ver = tasks[j].ver /\ tasks'[j].floor = tasks[j].floor
      BY <1>3, <1>4
    <3>2. \/ tasks[j].todo \in {Block("varvalue"), Inner("varvalue")}
          \/ last = [of |-> j, msg |-> "varvalue"]
      <4>1. CASE tasks'[j].todo \in {Block("varvalue"), Inner("varvalue")}
        BY <1>3, <1>6, <4>1
      <4>2. CASE last' = [of |-> j, msg |-> "varvalue"] /\ socket = "open"
        <5>1. j = k /\ msg = "varvalue"
          BY <1>5, <4>2
        <5> QED BY <1>6, <5>1
      <4>3. CASE last' = [of |-> j, msg |-> "varvalue"] /\ socket # "open"
        BY <1>5, <4>3
      <4> QED BY <2>1, <4>1, <4>2, <4>3
    <3>3. tasks[j].ver >= tasks[j].floor
      BY <1>1, <2>1, <3>2 DEF TasksSound, SeesFloor
    <3> QED BY <3>1, <3>3
  <2> QED BY <1>3, <2>1 DEF SeesFloor
<1>14. k \notin answered
  BY <1>1, <1>6 DEF TasksSound, AnsweredAreDone
<1>15. AnsweredAreDone'
  <2>1. \A j \in answered' : tasks'[j].todo = <<>>
    BY <1>1, <1>3, <1>5, <1>6, <1>14 DEF TasksSound, AnsweredAreDone, LinesBounds
  <2>2. Ends(last'.msg) => last'.of \in answered'
    BY <1>1, <1>5 DEF TasksSound, AnsweredAreDone
  <2>3. last'.of = 0 => last' = NoMessage
    <3>1. NoMessage' = NoMessage
      BY DEF NoMessage
    <3> QED BY <1>1, <1>5, <1>8, <3>1 DEF TasksSound, AnsweredAreDone
  <2> QED BY <2>1, <2>2, <2>3 DEF AnsweredAreDone, Ends, NoMessage
<1>16. BufferHoldsNoLine'
  BY <1>4 DEF LinesInv, BufferHoldsNoLine
<1>17. ASSUME patient' PROVE OneAtATime'
  <2>1. OneAtATime
    BY <1>4, <1>17 DEF LinesInv
  <2>2. k = Len(tasks)
    BY <1>8, <1>14, <2>1 DEF OneAtATime
  <2>3. answered \subseteq answered'
    BY <1>5
  <2>4. \A j \in DOMAIN tasks' : j < Len(tasks') => j \in answered'
    BY <1>3, <2>1, <2>3 DEF OneAtATime
  <2>5. \A i \in DOMAIN cur' : cur'[i] = NL => i = Len(cur') /\ DOMAIN tasks' \subseteq answered'
    BY <1>3, <1>4, <2>1, <2>3 DEF OneAtATime
  <2>6. ASSUME socket' = "open", BetweenBlocks', NEW j \in DOMAIN tasks'
        PROVE  tasks'[j].todo \in Starting \cup {<<>>}
    <3>1. Ends(msg)
      <4>1. last' = [of |-> k, msg |-> msg]
        BY <1>4, <1>5, <2>6
      <4>2. last' # [of |-> 0, msg |-> ""]
        BY <1>8, <4>1
      <4> QED BY <2>6, <4>1, <4>2 DEF BetweenBlocks, Ends, NoMessage
    <3>2. CASE j = k
      BY <1>3, <1>6, <3>1, <3>2
    <3>3. CASE j # k
      <4>1. j < Len(tasks)
        BY <1>3, <1>8, <2>2, <2>6, <3>3
      <4>2. tasks[j].todo = <<>>
        BY <1>1, <1>3, <2>1, <2>6, <4>1 DEF OneAtATime, TasksSound, AnsweredAreDone
      <4> QED BY <1>3, <2>6, <3>3, <4>2
    <3> QED BY <3>2, <3>3
  <2>7. ASSUME socket' = "open", ~BetweenBlocks' PROVE tasks'[last'.of].todo \in InBlock
    <3>1. last' = [of |-> k, msg |-> msg]
      BY <1>4, <1>5, <2>7
    <3>2. ~Ends(msg)
      BY <2>7, <3>1 DEF BetweenBlocks, Ends
    <3> QED BY <1>3, <1>6, <3>1, <3>2
  <2> QED BY <2>4, <2>5, <2>6, <2>7 DEF OneAtATime
<1>18. TasksSound'
  BY <1>11, <1>12, <1>13, <1>15 DEF TasksSound
<1> QED BY <1>9, <1>10, <1>16, <1>17, <1>18, LinesInvParts, PTL

(* No line was sent yet. *)
LEMMA NoMessageIs ==
  /\ NoMessage \in [of : Nat, msg : Messages]
  /\ NoMessage.of = 0
  /\ NoMessage.msg # "varvalue" /\ ~Ends(NoMessage.msg)
<1>1. NoMessage.of = 0
  BY DEF NoMessage
<1>2. NoMessage.msg = "" /\ "" # "varvalue" /\ "" # "endresponse" /\ "" # "lockstatusresult"
  BY Zenon DEF NoMessage
<1>3. NoMessage.msg # "varvalue" /\ ~Ends(NoMessage.msg)
  BY <1>2, Zenon DEF Ends
<1>4. "" \in Messages /\ 0 \in Nat
  BY Zenon DEF Messages
<1>5. ASSUME NEW m \in Messages PROVE [of |-> 0, msg |-> m] \in [of : Nat, msg : Messages]
  BY <1>5
<1>6. NoMessage \in [of : Nat, msg : Messages]
  BY <1>4, <1>5, Zenon DEF NoMessage
<1> QED BY <1>1, <1>3, <1>6

LEMMA LinesInitInv == LinesInit => LinesInv
<1> SUFFICES ASSUME LinesInit PROVE LinesInv
  OBVIOUS
<1>1. left \in Seq(Fragments)
  <2>1. left \in Streams /\ left \in Seq(Range(left))
    BY LinesAssumption DEF LinesInit
  <2>2. Range(left) \subseteq Fragments
    BY <2>1 DEF Fragments
  <2> QED BY <2>1, <2>2
<1>2. /\ tasks = <<>> /\ DOMAIN tasks = {} /\ answered = {} /\ last = NoMessage
      /\ cur = <<>> /\ buf = <<>> /\ got = <<>> /\ acked = 0 /\ ver = 0 /\ greeted = 0
      /\ reader = "greets" /\ socket = "open" /\ DOMAIN buf = {} /\ DOMAIN cur = {}
      /\ patient \in BOOLEAN /\ named \in BOOLEAN /\ locked \in BOOLEAN
  <2>1. tasks = <<>> /\ cur = <<>> /\ buf = <<>>
    BY Zenon DEF LinesInit
  <2>2. DOMAIN tasks = {} /\ DOMAIN buf = {} /\ DOMAIN cur = {}
    BY <2>1
  <2>3. patient \in BOOLEAN /\ named \in BOOLEAN /\ locked \in BOOLEAN
    BY Zenon DEF LinesInit
  <2>4. /\ answered = {} /\ last = NoMessage /\ got = <<>> /\ acked = 0 /\ ver = 0 /\ greeted = 0
        /\ reader = "greets" /\ socket = "open"
    BY Zenon DEF LinesInit
  <2> QED BY <2>1, <2>2, <2>3, <2>4, Zenon
<1>3. LinesTypes
  BY <1>1, <1>2, NoMessageIs DEF LinesTypes
<1>4. LinesBounds
  BY <1>2, NoMessageIs DEF LinesBounds
<1>5. TasksSound
  <2>1. Unconfirmed = {}
    BY <1>2 DEF Unconfirmed
  <2>2. AcksAreCovered
    BY <1>2, <2>1, FS_EmptySet DEF AcksAreCovered
  <2>3. SeesFloor /\ \A k \in DOMAIN tasks : KeepsToScript(k)
    BY <1>2 DEF SeesFloor
  <2>4. AnsweredAreDone
    BY <1>2, NoMessageIs DEF AnsweredAreDone
  <2> QED BY <2>2, <2>3, <2>4 DEF TasksSound
<1>6. BufferHoldsNoLine /\ OneAtATime
  BY <1>2 DEF BufferHoldsNoLine, OneAtATime, BetweenBlocks
<1> QED BY <1>3, <1>4, <1>5, <1>6, LinesInvParts

LEMMA LinesNextInv == LinesInv /\ [LinesNext]_lineVars => LinesInv'
<1> SUFFICES ASSUME LinesInv, [LinesNext]_lineVars PROVE LinesInv'
  OBVIOUS
<1>1. CASE Greet
  BY <1>1, GreetKeepsInv
<1>2. CASE Reads
  BY <1>2, ReceiveKeepsInv DEF Reads
<1>3. CASE Splits
  BY <1>3, TakeLineKeepsInv, KeepTailKeepsInv DEF Splits
<1>4. CASE Breaks \/ Disconnected
  BY <1>4, BreakKeepsInv
<1>5. ASSUME NEW k \in DOMAIN tasks, Runs(k) \/ LockTimesOut(k) PROVE LinesInv'
  BY <1>5, NameKeepsInv, CallKeepsInv, WriteKeepsInv DEF Runs
<1>6. CASE UNCHANGED lineVars
  <2>1. UNCHANGED <<left, patient, got, socket, reader, buf, cur, named, tasks, greeted, last, answered,
                    acked, ver, locked>>
    BY <1>6 DEF lineVars, input, output, store
  <2>2. TasksSound'
    BY <2>1, TasksUnchanged, LinesInvParts
  <2>3. LinesTypes' /\ LinesBounds' /\ BufferHoldsNoLine'
    BY <2>1 DEF LinesInv, LinesTypes, LinesBounds, BufferHoldsNoLine
  <2>4. (patient => OneAtATime)'
    BY <2>1 DEF LinesInv, OneAtATime, BetweenBlocks
  <2> QED BY <2>2, <2>3, <2>4, LinesInvParts, PTL
<1> QED BY <1>1, <1>2, <1>3, <1>4, <1>5, <1>6 DEF LinesNext

LEMMA LinesInvariant == LinesSpec => []LinesInv
  BY LinesInitInv, LinesNextInv, PTL DEF LinesSpec

(* processReceivedMessage: the answer of a set or delete ends after the    *)
(* write it tells of, so the confirmations never outnumber the writes, and *)
(* a get that began after a confirmation does not tell an older value,     *)
(* whatever else the client has sent and however the goroutines of its     *)
(* lines take turns.                                                       *)
THEOREM AckedIsSeenHolds == LinesSpec => []AckedIsSeen
<1>1. LinesInv => AckedIsSeen
  <2> SUFFICES ASSUME LinesInv PROVE AckedIsSeen
    OBVIOUS
  <2>1. LinesTypes /\ LinesBounds /\ AcksAreCovered /\ SeesFloor /\ AnsweredAreDone
    BY DEF LinesInv
  <2>2. acked <= ver
    <3>1. Cardinality(Unconfirmed) \in Nat /\ acked \in Nat /\ ver \in Nat
      BY <2>1, UnconfirmedFinite DEF LinesTypes
    <3> QED BY <2>1, <3>1 DEF AcksAreCovered
  <2>3. ASSUME last.msg = "varvalue" PROVE tasks[last.of].ver >= tasks[last.of].floor
    <3>1. last = [of |-> last.of, msg |-> "varvalue"]
      BY <2>1, <2>3 DEF LinesTypes
    <3>2. last.of # 0
      BY <2>1, <2>3, NoMessageIs DEF AnsweredAreDone
    <3> QED BY <2>1, <3>1, <3>2 DEF LinesBounds, SeesFloor
  <2> QED BY <2>2, <2>3 DEF AckedIsSeen
<1> QED BY <1>1, LinesInvariant, PTL

(* protocolWrite: to a client that awaits each answer, the goroutines of   *)
(* its lines never write into each other's blocks, though nothing but the  *)
(* client holds them apart.                                                *)
THEOREM PatientReadsBlocksHolds == LinesSpec => PatientReadsBlocks
<1> DEFINE A == patient /\ last' # last =>
                  /\ greeted = Len(Greeting)
                  /\ IF last = NoMessage \/ Ends(last.msg)
                     THEN Opens(last'.msg) /\ last'.of > last.of
                     ELSE ~Opens(last'.msg) /\ last'.of = last.of
<1>1. LinesInv /\ [LinesNext]_lineVars => [A]_lineVars
  <2> SUFFICES ASSUME LinesInv, LinesNext, patient, last' # last PROVE A
    OBVIOUS
  <2>1. PICK k \in DOMAIN tasks : Writes(k)
    <3>1. ~Greet /\ ~Reads /\ ~Splits /\ ~Breaks /\ ~Disconnected
      BY DEF Greet, Reads, Receive, Splits, TakeLine, KeepTail, Breaks, Disconnected, output
    <3>2. ASSUME NEW k \in DOMAIN tasks PROVE ~GetsName(k) /\ ~Calls(k) /\ ~LockTimesOut(k)
      BY DEF GetsName, Calls, CallsSet, CallsDelete, CallsLock, CallsUnlock, CallsOther, LockTimesOut,
             Returns, output
    <3> QED BY <3>1, <3>2 DEF LinesNext, Runs
  <2>2. LinesTypes /\ LinesBounds /\ TasksSound /\ OneAtATime /\ tasks \in Seq(TaskRecords)
    BY LinesInvParts DEF LinesTypes
  <2>3. PICK rec \in TaskRecords, msg \in Messages : WriteEffect(k, rec, msg)
    BY <2>1, <2>2, WriteSorts
  <2>4. /\ socket = "open" /\ last' = [of |-> k, msg |-> msg]
        /\ tasks[k].todo # <<>>
        /\ tasks[k].todo \in Starting <=> Opens(msg)
        /\ tasks[k].todo \in InBlock <=> ~Opens(msg)
    BY <2>3 DEF WriteEffect
  <2>5. k \in 1..Len(tasks) /\ DOMAIN tasks = 1..Len(tasks) /\ Len(tasks) \in Nat
    BY <2>2, LenProperties
  <2>6. greeted = Len(Greeting)
    <3>1. tasks # <<>>
      BY <2>5
    <3>2. greeted \in 0..5 /\ ~(greeted < 5)
      BY <2>2, <3>1 DEF LinesTypes, LinesBounds
    <3> QED BY <3>2 DEF Greeting
  <2>7. k \notin answered
    BY <2>2, <2>4 DEF TasksSound, AnsweredAreDone
  <2>8. k = Len(tasks)
    BY <2>2, <2>5, <2>7 DEF OneAtATime
  <2>9. CASE last = NoMessage \/ Ends(last.msg)
    <3>1. Opens(msg)
      BY <2>2, <2>4, <2>9 DEF OneAtATime, BetweenBlocks
    <3>2. last.of \in {0} \cup DOMAIN tasks /\ last.of # k
      BY <2>2, <2>5, <2>7, <2>9, NoMessageIs DEF LinesBounds, TasksSound, AnsweredAreDone
    <3>3. k > last.of
      BY <2>5, <2>8, <3>2
    <3> QED BY <2>4, <2>6, <2>9, <3>1, <3>3
  <2>10. CASE ~(last = NoMessage \/ Ends(last.msg))
    <3>1. tasks[last.of].todo \in InBlock
      BY <2>2, <2>4, <2>10 DEF OneAtATime, BetweenBlocks
    <3>2. last.of \in DOMAIN tasks
      BY <2>2, <2>10 DEF LinesBounds, TasksSound, AnsweredAreDone
    <3>3. last.of \notin answered
      BY <2>2, <3>1, ScriptsDiffer DEF TasksSound, AnsweredAreDone
    <3>4. last.of = k
      BY <2>2, <2>5, <2>8, <3>2, <3>3 DEF OneAtATime
    <3> QED BY <2>4, <2>6, <2>10, <3>1, <3>4
  <2> QED BY <2>9, <2>10
<1> QED BY <1>1, LinesInvariant, PTL DEF LinesSpec, PatientReadsBlocks

-----------------------------------------------------------------------------
(* Cutting a text into lines *)

Upto(s, i) == {j \in NLs(s) : j <= i}

LEMMA EndsFinite ==
  ASSUME NEW S, NEW s \in Seq(S)
  PROVE  /\ NLs(s) \subseteq 1..Len(s) /\ Len(s) \in Nat
         /\ IsFiniteSet(NLs(s)) /\ Cardinality(NLs(s)) \in Nat
         /\ \A i : /\ IsFiniteSet(Upto(s, i)) /\ Cardinality(Upto(s, i)) \in Nat
                   /\ Cardinality(Upto(s, i)) <= Cardinality(NLs(s))
<1>1. NLs(s) \subseteq 1..Len(s) /\ Len(s) \in Nat
  BY LenProperties DEF NLs
<1>2. IsFiniteSet(1..Len(s))
  BY <1>1, FS_Interval
<1>3. IsFiniteSet(NLs(s))
  BY <1>1, <1>2, FS_Subset
<1>4. ASSUME NEW i
      PROVE  /\ IsFiniteSet(Upto(s, i)) /\ Cardinality(Upto(s, i)) \in Nat
             /\ Cardinality(Upto(s, i)) <= Cardinality(NLs(s))
  <2>1. Upto(s, i) \subseteq NLs(s)
    BY DEF Upto
  <2> QED BY <1>3, <2>1, FS_Subset, FS_CardinalityType
<1> QED BY <1>1, <1>3, <1>4, FS_CardinalityType

(* A later end of line has more of them up to it. *)
LEMMA EndsCount ==
  ASSUME NEW S, NEW s \in Seq(S), NEW i \in NLs(s), NEW j \in NLs(s), i < j
  PROVE  Cardinality(Upto(s, i)) < Cardinality(Upto(s, j))
<1>1. i \in Nat /\ j \in Nat
  BY EndsFinite
<1>2. Upto(s, i) \subseteq Upto(s, j) /\ j \in Upto(s, j) /\ j \notin Upto(s, i)
  <2>1. ASSUME NEW x \in NLs(s), x <= i PROVE x <= j
    <3>1. x \in Nat
      BY EndsFinite
    <3> QED BY <1>1, <2>1, <3>1
  <2>2. j <= j /\ ~(j <= i)
    BY <1>1
  <2> QED BY <2>1, <2>2 DEF Upto
<1>3. /\ IsFiniteSet(Upto(s, i)) /\ Cardinality(Upto(s, i)) \in Nat
      /\ IsFiniteSet(Upto(s, j)) /\ Cardinality(Upto(s, j)) \in Nat
  BY EndsFinite
<1>4. /\ Cardinality(Upto(s, i)) <= Cardinality(Upto(s, j))
      /\ Cardinality(Upto(s, j)) # Cardinality(Upto(s, i))
  BY <1>2, <1>3, FS_Subset
<1> QED BY <1>3, <1>4

(* NLAt: the ends of line are numbered without gaps. *)
LEMMA EndsNumbered ==
  ASSUME NEW S, NEW s \in Seq(S)
  PROVE  /\ \A k \in 1..Cardinality(NLs(s)) :
               NLAt(s, k) \in NLs(s) /\ Cardinality(Upto(s, NLAt(s, k))) = k
         /\ \A i \in NLs(s) : /\ Cardinality(Upto(s, i)) \in 1..Cardinality(NLs(s))
                              /\ NLAt(s, Cardinality(Upto(s, i))) = i
<1> DEFINE N == NLs(s)
           rank == [i \in N |-> Cardinality(Upto(s, i))]
<1>1. IsFiniteSet(N) /\ Cardinality(N) \in Nat
  BY EndsFinite
<1>2. ASSUME NEW i \in N PROVE Cardinality(Upto(s, i)) \in 1..Cardinality(N)
  <2>1. i \in Upto(s, i)
    <3>1. i \in Nat
      BY EndsFinite
    <3> QED BY <3>1 DEF Upto
  <2>2. /\ IsFiniteSet(Upto(s, i)) /\ Cardinality(Upto(s, i)) \in Nat
        /\ Cardinality(Upto(s, i)) <= Cardinality(N)
    BY EndsFinite
  <2>3. Cardinality(Upto(s, i)) # 0
    BY <2>1, <2>2, FS_EmptySet
  <2> QED BY <1>1, <2>2, <2>3
<1>3. ASSUME NEW i \in N, NEW j \in N, Cardinality(Upto(s, i)) = Cardinality(Upto(s, j)) PROVE i = j
  <2>1. i \in Nat /\ j \in Nat
    BY EndsFinite
  <2>2. ~(i < j) /\ ~(j < i)
    <3>1. Cardinality(Upto(s, i)) \in Nat
      BY EndsFinite
    <3> QED BY <1>3, <3>1, EndsCount
  <2> QED BY <2>1, <2>2
<1>4. rank \in Injection(N, 1..Cardinality(N))
  <2>1. rank \in [N -> 1..Cardinality(N)]
    BY <1>2
  <2>2. \A i, j \in N : rank[i] = rank[j] => i = j
    BY <1>3
  <2> QED BY <2>1, <2>2 DEF Injection, IsInjective
<1>5. IsFiniteSet(1..Cardinality(N)) /\ Cardinality(1..Cardinality(N)) = Cardinality(N)
  BY <1>1, FS_Interval
<1>6. rank \in Surjection(N, 1..Cardinality(N))
  BY <1>4, <1>5, FS_Injection
<1>7. \A k \in 1..Cardinality(N) : \E i \in N : Cardinality(Upto(s, i)) = k
  BY <1>6 DEF Surjection
<1>8. ASSUME NEW k \in 1..Cardinality(N) PROVE NLAt(s, k) \in N /\ Cardinality(Upto(s, NLAt(s, k))) = k
  <2>1. k # 0
    BY <1>1
  <2> QED BY <1>7, <2>1 DEF NLAt, Upto
<1>9. ASSUME NEW i \in N PROVE NLAt(s, Cardinality(Upto(s, i))) = i
  BY <1>2, <1>3, <1>8
<1> QED BY <1>2, <1>8, <1>9

(* A text that is empty or ends with a line is closed. *)
Closed(a) == a = <<>> \/ a[Len(a)] = NL

LEMMA ClosedEnd ==
  ASSUME NEW S, NEW a \in Seq(S), Closed(a)
  PROVE  NLAt(a, Cardinality(NLs(a))) = Len(a)
<1>1. CASE a = <<>>
  <2>1. NLs(a) = {}
    BY <1>1 DEF NLs
  <2> QED BY <1>1, <2>1, FS_EmptySet DEF NLAt
<1>2. CASE a # <<>>
  <2>1. Len(a) \in NLs(a)
    BY <1>2, LenProperties DEF NLs, Closed
  <2>2. Upto(a, Len(a)) = NLs(a)
    BY EndsFinite DEF Upto
  <2> QED BY <2>1, <2>2, EndsNumbered
<1> QED BY <1>1, <1>2

(* The ends of line of a text in two parts. *)
LEMMA EndsOfTwo ==
  ASSUME NEW S, NEW a \in Seq(S), NEW b \in Seq(S)
  PROVE  /\ \A i \in 1..Len(a) : i \in NLs(a \o b) <=> i \in NLs(a)
         /\ \A i \in 1..Len(b) : Len(a) + i \in NLs(a \o b) <=> i \in NLs(b)
         /\ NLs(a \o b) = NLs(a) \cup {Len(a) + i : i \in NLs(b)}
<1> DEFINE m == Len(a)
           n == Len(b)
           s == a \o b
<1>1. /\ s \in Seq(S) /\ Len(s) = m + n /\ DOMAIN s = 1..(m + n) /\ m \in Nat /\ n \in Nat
      /\ DOMAIN a = 1..m /\ DOMAIN b = 1..n
      /\ \A i \in 1..(m + n) : s[i] = IF i <= m THEN a[i] ELSE b[i - m]
  BY ConcatProperties, LenProperties
<1> HIDE DEF m, n, s
<1>2. \A i \in 1..m : i \in NLs(s) <=> i \in NLs(a)
  BY <1>1 DEF NLs
<1>3. ASSUME NEW i \in 1..n PROVE m + i \in NLs(s) <=> i \in NLs(b)
  <2>1. m + i \in 1..(m + n) /\ ~(m + i <= m) /\ (m + i) - m = i
    BY <1>1
  <2>2. s[m + i] = b[i]
    BY <1>1, <2>1
  <2> QED BY <1>1, <2>1, <2>2 DEF NLs
<1>4. ASSUME NEW i PROVE i \in NLs(s) <=> i \in NLs(a) \cup {m + j : j \in NLs(b)}
  <2>1. NLs(s) \subseteq 1..(m + n) /\ NLs(a) \subseteq 1..m /\ NLs(b) \subseteq 1..n
    BY <1>1 DEF NLs
  <2>2. CASE i \in NLs(s)
    <3>1. CASE i <= m
      BY <1>1, <1>2, <2>1, <2>2, <3>1
    <3>2. CASE ~(i <= m)
      <4>1. i - m \in 1..n /\ m + (i - m) = i
        BY <1>1, <2>1, <2>2, <3>2
      <4>2. i - m \in NLs(b)
        BY <1>3, <2>2, <4>1
      <4> QED BY <2>2, <4>1, <4>2
    <3> QED BY <3>1, <3>2
  <2>3. CASE i \in NLs(a)
    BY <1>2, <2>1, <2>3
  <2>4. ASSUME NEW j \in NLs(b), i = m + j PROVE i \in NLs(s)
    BY <1>3, <2>1, <2>4
  <2> QED BY <2>2, <2>3, <2>4
<1> QED BY <1>2, <1>3, <1>4 DEF m, n, s

LEMMA ShiftCount ==
  ASSUME NEW d \in Nat, NEW T \in SUBSET Nat, IsFiniteSet(T)
  PROVE  /\ IsFiniteSet({d + i : i \in T})
         /\ Cardinality({d + i : i \in T}) = Cardinality(T)
<1> DEFINE U == {d + i : i \in T}
           f == [i \in T |-> d + i]
<1>1. f \in [T -> U] /\ \A i, j \in T : f[i] = f[j] => i = j
  OBVIOUS
<1>2. \A u \in U : \E i \in T : f[i] = u
  OBVIOUS
<1>3. f \in Bijection(T, U)
  BY <1>1, <1>2 DEF Bijection, Injection, Surjection, IsInjective
<1>4. ExistsBijection(T, U)
  BY <1>3 DEF ExistsBijection
<1> QED BY <1>4, FS_Bijection

LEMMA DisjointCount ==
  ASSUME NEW S, NEW T, IsFiniteSet(S), IsFiniteSet(T), S \cap T = {}
  PROVE  Cardinality(S \cup T) = Cardinality(S) + Cardinality(T)
<1>1. Cardinality(S) \in Nat /\ Cardinality(T) \in Nat
  BY FS_CardinalityType
<1>2. Cardinality(S \cap T) = 0
  BY FS_EmptySet
<1>3. Cardinality(S \cup T) = Cardinality(S) + Cardinality(T) - Cardinality(S \cap T)
  BY FS_Union
<1> QED BY <1>1, <1>2, <1>3

(* The ends of line keep their numbers; those of the second part follow. *)
LEMMA NumbersOfTwo ==
  ASSUME NEW S, NEW a \in Seq(S), NEW b \in Seq(S), Closed(a)
  PROVE  /\ Cardinality(NLs(a \o b)) = Cardinality(NLs(a)) + Cardinality(NLs(b))
         /\ \A k \in 0..Cardinality(NLs(a)) : NLAt(a \o b, k) = NLAt(a, k)
         /\ \A k \in 0..Cardinality(NLs(b)) :
               NLAt(a \o b, Cardinality(NLs(a)) + k) = Len(a) + NLAt(b, k)
<1> DEFINE s == a \o b
           m == Len(a)
           ca == Cardinality(NLs(a))
           cb == Cardinality(NLs(b))
           after == {m + i : i \in NLs(b)}
<1>1. /\ s \in Seq(S) /\ m \in Nat /\ ca \in Nat /\ cb \in Nat
      /\ NLs(a) \subseteq 1..m /\ NLs(b) \subseteq 1..Len(b) /\ Len(b) \in Nat
      /\ IsFiniteSet(NLs(a)) /\ IsFiniteSet(NLs(b)) /\ IsFiniteSet(NLs(s))
  BY ConcatProperties, EndsFinite
<1>2. NLs(s) = NLs(a) \cup after
  BY EndsOfTwo
<1>3. NLs(b) \subseteq Nat /\ \A i \in NLs(b) : i > 0
  BY <1>1
<1>4. IsFiniteSet(after) /\ Cardinality(after) = cb
  BY <1>1, <1>3, ShiftCount
<1>5. \A i \in after : i \in Nat /\ i > m
  BY <1>1, <1>3
<1>6. NLs(a) \cap after = {}
  BY <1>1, <1>5
<1>7. Cardinality(NLs(s)) = ca + cb
  BY <1>1, <1>2, <1>4, <1>6, DisjointCount
<1>8. ASSUME NEW k \in 1..ca PROVE NLAt(s, k) = NLAt(a, k)
  <2> DEFINE i == NLAt(a, k)
  <2>1. i \in NLs(a) /\ Cardinality(Upto(a, i)) = k
    BY EndsNumbered
  <2> HIDE DEF i
  <2>2. i \in NLs(s) /\ i \in Nat /\ i <= m
    BY <1>1, <1>2, <2>1
  <2>3. Upto(s, i) = Upto(a, i)
    <3>1. \A j \in after : ~(j <= i)
      BY <1>1, <1>5, <2>2
    <3> QED BY <1>2, <3>1 DEF Upto
  <2>4. NLAt(s, Cardinality(Upto(s, i))) = i
    BY <1>1, <2>2, EndsNumbered
  <2> QED BY <2>1, <2>3, <2>4 DEF i
<1>9. NLAt(s, 0) = 0 /\ NLAt(a, 0) = 0 /\ NLAt(b, 0) = 0
  BY DEF NLAt
<1>10. ASSUME NEW k \in 0..ca PROVE NLAt(s, k) = NLAt(a, k)
  <2>1. k = 0 \/ k \in 1..ca
    BY <1>1
  <2> QED BY <1>8, <1>9, <2>1
<1>11. ASSUME NEW k \in 1..cb PROVE NLAt(s, ca + k) = m + NLAt(b, k)
  <2> DEFINE i == NLAt(b, k)
  <2>1. i \in NLs(b) /\ Cardinality(Upto(b, i)) = k
    BY EndsNumbered
  <2> HIDE DEF i
  <2>2. m + i \in NLs(s) /\ i \in Nat /\ i > 0 /\ m + i \in Nat
    BY <1>1, <1>2, <1>3, <2>1
  <2> DEFINE shifted == {m + j : j \in Upto(b, i)}
  <2>3. Upto(s, m + i) = NLs(a) \cup shifted
    <3>1. \A j \in NLs(a) : j <= m + i
      BY <1>1, <2>2
    <3>2. \A j \in NLs(b) : m + j <= m + i <=> j <= i
      BY <1>1, <1>3, <2>2
    <3> QED BY <1>2, <3>1, <3>2 DEF Upto
  <2>4. IsFiniteSet(Upto(b, i)) /\ Upto(b, i) \in SUBSET Nat /\ Upto(b, i) \subseteq NLs(b)
    BY <1>3, EndsFinite DEF Upto
  <2>5. IsFiniteSet(shifted) /\ Cardinality(shifted) = k
    BY <1>1, <2>1, <2>4, ShiftCount
  <2>6. NLs(a) \cap shifted = {}
    BY <1>6, <2>4
  <2>7. Cardinality(Upto(s, m + i)) = ca + k
    BY <1>1, <2>3, <2>5, <2>6, DisjointCount
  <2>8. NLAt(s, Cardinality(Upto(s, m + i))) = m + i
    BY <1>1, <2>2, EndsNumbered
  <2> QED BY <2>7, <2>8 DEF i
<1>12. NLAt(s, ca) = m
  BY <1>1, <1>10, ClosedEnd
<1>13. ASSUME NEW k \in 0..cb PROVE NLAt(s, ca + k) = m + NLAt(b, k)
  <2>1. CASE k = 0
    BY <1>1, <1>9, <1>12, <2>1
  <2>2. CASE k # 0
    BY <1>1, <1>11, <2>2
  <2> QED BY <2>1, <2>2
<1> QED BY <1>7, <1>10, <1>13

(* A piece of the first or of the second part. *)
LEMMA PieceOfTwo ==
  ASSUME NEW S, NEW a \in Seq(S), NEW b \in Seq(S), NEW p \in Nat, NEW q \in Nat
  PROVE  /\ q <= Len(a) => SubSeq(a \o b, p + 1, q - 1) = SubSeq(a, p + 1, q - 1)
         /\ q <= Len(b) + 1 =>
               SubSeq(a \o b, Len(a) + p + 1, Len(a) + q - 1) = SubSeq(b, p + 1, q - 1)
<1> DEFINE m == Len(a)
           n == Len(b)
           s == a \o b
<1>1. /\ s \in Seq(S) /\ Len(s) = m + n /\ m \in Nat /\ n \in Nat
      /\ \A i \in 1..(m + n) : s[i] = IF i <= m THEN a[i] ELSE b[i - m]
      /\ \A i \in 1..m : a[i] \in S /\ \A j \in 1..n : b[j] \in S
  BY ConcatProperties, LenProperties, ElementOfSeq
<1>a. \A j \in 1..n : b[j] \in S
  BY LenProperties, ElementOfSeq
<1> HIDE DEF m, n, s
<1>2. ASSUME q <= m PROVE SubSeq(s, p + 1, q - 1) = SubSeq(a, p + 1, q - 1)
  <2>1. \A i \in (p + 1)..(q - 1) : s[i] = a[i] /\ a[i] \in S
    BY <1>1, <1>2
  <2> DEFINE u == SubSeq(s, p + 1, q - 1)
             v == SubSeq(a, p + 1, q - 1)
             k == (q - 1) - (p + 1) + 1
  <2>2. /\ u \in Seq(S) /\ Len(u) = (IF p + 1 <= q - 1 THEN k ELSE 0)
        /\ \A i \in 1..k : u[i] = s[(p + 1) + i - 1]
    BY <2>1, SubSeqProperties
  <2>3. /\ v \in Seq(S) /\ Len(v) = (IF p + 1 <= q - 1 THEN k ELSE 0)
        /\ \A i \in 1..k : v[i] = a[(p + 1) + i - 1]
    BY <2>1, SubSeqProperties
  <2> HIDE DEF u, v
  <2>4. \A i \in 1..Len(u) : u[i] = v[i]
    BY <2>1, <2>2, <2>3
  <2> QED BY <2>2, <2>3, <2>4, SeqEqual DEF u, v
<1>3. ASSUME q <= n + 1 PROVE SubSeq(s, m + p + 1, m + q - 1) = SubSeq(b, p + 1, q - 1)
  <2>1. \A i \in (p + 1)..(q - 1) : s[m + i] = b[i] /\ b[i] \in S
    <3> TAKE i \in (p + 1)..(q - 1)
    <3>1. i \in 1..n /\ m + i \in 1..(m + n) /\ ~(m + i <= m) /\ (m + i) - m = i
      BY <1>1, <1>3
    <3> QED BY <1>1, <1>a, <3>1
  <2> DEFINE u == SubSeq(s, m + p + 1, m + q - 1)
             v == SubSeq(b, p + 1, q - 1)
             k == (q - 1) - (p + 1) + 1
  <2>2. /\ u \in Seq(S) /\ Len(u) = (IF p + 1 <= q - 1 THEN k ELSE 0)
        /\ \A i \in 1..k : u[i] = s[(m + p + 1) + i - 1]
    <3>1. \A i \in (m + p + 1)..(m + q - 1) : s[i] \in S
      <4> TAKE i \in (m + p + 1)..(m + q - 1)
      <4>1. i - m \in (p + 1)..(q - 1) /\ m + (i - m) = i
        BY <1>1
      <4> QED BY <2>1, <4>1
    <3>2. m + p + 1 \in Int /\ m + q - 1 \in Int
      BY <1>1
    <3>3. /\ u \in Seq(S)
          /\ Len(u) = (IF m + p + 1 <= m + q - 1 THEN (m + q - 1) - (m + p + 1) + 1 ELSE 0)
          /\ \A i \in 1..((m + q - 1) - (m + p + 1) + 1) : u[i] = s[(m + p + 1) + i - 1]
      BY <3>1, <3>2, SubSeqProperties
    <3>4. (m + q - 1) - (m + p + 1) + 1 = k /\ (m + p + 1 <= m + q - 1 <=> p + 1 <= q - 1)
      BY <1>1
    <3> HIDE DEF u, k
    <3> QED BY <3>3, <3>4
  <2>3. /\ v \in Seq(S) /\ Len(v) = (IF p + 1 <= q - 1 THEN k ELSE 0)
        /\ \A i \in 1..k : v[i] = b[(p + 1) + i - 1]
    BY <2>1, SubSeqProperties
  <2> HIDE DEF u, v
  <2>4. \A i \in 1..Len(u) : u[i] = v[i]
    <3> TAKE i \in 1..Len(u)
    <3>1. i \in 1..k /\ p + i \in (p + 1)..(q - 1)
      BY <2>2
    <3>2. (m + p + 1) + i - 1 = m + (p + i) /\ (p + 1) + i - 1 = p + i
      BY <1>1, <3>1
    <3> QED BY <2>1, <2>2, <2>3, <3>1, <3>2
  <2> QED BY <2>2, <2>3, <2>4, SeqEqual DEF u, v
<1> QED BY <1>2, <1>3 DEF m, n, s

LineTexts(S) == {Trim(x) : x \in Seq(S)}

(* A text has one line per end of line. *)
LEMMA LinesInType ==
  ASSUME NEW S, NEW s \in Seq(S)
  PROVE  /\ LinesIn(s) \in Seq(LineTexts(S))
         /\ Len(LinesIn(s)) = Cardinality(NLs(s))
         /\ \A k \in 1..Cardinality(NLs(s)) :
               /\ LinesIn(s)[k] = Trim(SubSeq(s, NLAt(s, k - 1) + 1, NLAt(s, k) - 1))
               /\ NLAt(s, k - 1) \in Nat /\ NLAt(s, k) \in Nat /\ NLAt(s, k) <= Len(s)
<1> DEFINE c == Cardinality(NLs(s))
           e(k) == Trim(SubSeq(s, NLAt(s, k - 1) + 1, NLAt(s, k) - 1))
<1>1. c \in Nat /\ NLs(s) \subseteq 1..Len(s) /\ Len(s) \in Nat
  BY EndsFinite
<1>2. \A k \in 0..c : NLAt(s, k) \in Nat /\ NLAt(s, k) <= Len(s)
  <2>1. ASSUME NEW k \in 1..c PROVE NLAt(s, k) \in Nat /\ NLAt(s, k) <= Len(s)
    <3>1. NLAt(s, k) \in NLs(s)
      BY EndsNumbered
    <3> QED BY <1>1, <3>1
  <2>2. NLAt(s, 0) = 0
    BY DEF NLAt
  <2> HIDE DEF c
  <2>3. \A k \in 0..c : k = 0 \/ k \in 1..c
    BY <1>1
  <2> QED BY <1>1, <2>1, <2>2, <2>3
<1> HIDE DEF c
<1>3. ASSUME NEW k \in 1..c PROVE e(k) \in LineTexts(S)
  <2>1. k \in 0..c /\ k - 1 \in 0..c
    BY <1>1
  <2>2. /\ NLAt(s, k - 1) \in Nat /\ NLAt(s, k) \in Nat /\ NLAt(s, k) <= Len(s)
    BY <1>2, <2>1
  <2> DEFINE p == NLAt(s, k - 1)
             q == NLAt(s, k)
  <2> HIDE DEF p, q
  <2>3. \A i \in (p + 1)..(q - 1) : s[i] \in S
    <3> TAKE i \in (p + 1)..(q - 1)
    <3>1. i \in 1..Len(s)
      BY <1>1, <2>2 DEF p, q
    <3> QED BY <3>1, ElementOfSeq
  <2>4. SubSeq(s, p + 1, q - 1) \in Seq(S)
    <3>1. p + 1 \in Int /\ q - 1 \in Int
      BY <2>2 DEF p, q
    <3> QED BY <2>3, <3>1, SubSeqProperties
  <2> QED BY <2>4 DEF LineTexts, p, q
<1>4. LinesIn(s) = [k \in 1..c |-> e(k)]
  BY DEF LinesIn, c
<1> DEFINE T == LineTexts(S)
<1> HIDE DEF e, T
<1>5. [k \in 1..c |-> e(k)] \in [1..c -> T]
  BY <1>3 DEF T
<1>6. LinesIn(s) \in Seq(T) /\ Len(LinesIn(s)) = c
  BY <1>1, <1>4, <1>5
<1>7. \A k \in 1..c : LinesIn(s)[k] = e(k)
  BY <1>4
<1>8. \A k \in 1..c : NLAt(s, k - 1) \in Nat /\ NLAt(s, k) \in Nat /\ NLAt(s, k) <= Len(s)
  <2> TAKE k \in 1..c
  <2>1. k \in 0..c /\ k - 1 \in 0..c
    BY <1>1
  <2> QED BY <1>2, <2>1
<1> QED BY <1>6, <1>7, <1>8 DEF c, e, T

(* After a text of whole lines, the lines of what follows come next. *)
LEMMA LinesInTwo ==
  ASSUME NEW S, NEW a \in Seq(S), NEW b \in Seq(S), Closed(a)
  PROVE  LinesIn(a \o b) = LinesIn(a) \o LinesIn(b) /\ RestOf(a \o b) = RestOf(b)
<1> DEFINE s == a \o b
           ca == Cardinality(NLs(a))
           cb == Cardinality(NLs(b))
           T == LineTexts(S)
           x == LinesIn(a)
           y == LinesIn(b)
           z == LinesIn(s)
<1>1. s \in Seq(S) /\ Len(s) = Len(a) + Len(b) /\ Len(a) \in Nat /\ Len(b) \in Nat
  BY ConcatProperties, LenProperties
<1>2. ca \in Nat /\ cb \in Nat /\ Cardinality(NLs(s)) = ca + cb
  BY EndsFinite, NumbersOfTwo
<1>3. x \in Seq(T) /\ y \in Seq(T) /\ z \in Seq(T) /\ Len(x) = ca /\ Len(y) = cb /\ Len(z) = ca + cb
  BY <1>1, <1>2, LinesInType
<1>4. /\ \A k \in 0..ca : NLAt(s, k) = NLAt(a, k)
      /\ \A k \in 0..cb : NLAt(s, ca + k) = Len(a) + NLAt(b, k)
  BY NumbersOfTwo
<1>5. \A k \in 1..ca :
         /\ x[k] = Trim(SubSeq(a, NLAt(a, k - 1) + 1, NLAt(a, k) - 1))
         /\ NLAt(a, k - 1) \in Nat /\ NLAt(a, k) \in Nat /\ NLAt(a, k) <= Len(a)
  BY LinesInType
<1>6. \A k \in 1..cb :
         /\ y[k] = Trim(SubSeq(b, NLAt(b, k - 1) + 1, NLAt(b, k) - 1))
         /\ NLAt(b, k - 1) \in Nat /\ NLAt(b, k) \in Nat /\ NLAt(b, k) <= Len(b)
  BY LinesInType
<1>7. \A k \in 1..(ca + cb) : z[k] = Trim(SubSeq(s, NLAt(s, k - 1) + 1, NLAt(s, k) - 1))
  BY <1>1, <1>2, LinesInType
<1> HIDE DEF s, ca, cb, x, y, z
<1>8. ASSUME NEW k \in 1..ca PROVE z[k] = x[k]
  <2>1. k \in 1..(ca + cb) /\ k \in 0..ca /\ k - 1 \in 0..ca
    BY <1>2
  <2> DEFINE p == NLAt(a, k - 1)
             q == NLAt(a, k)
  <2>2. NLAt(s, k - 1) = p /\ NLAt(s, k) = q
    BY <1>4, <2>1
  <2>3. p \in Nat /\ q \in Nat /\ q <= Len(a)
    BY <1>5
  <2> HIDE DEF p, q
  <2>4. SubSeq(s, p + 1, q - 1) = SubSeq(a, p + 1, q - 1)
    BY <2>3, PieceOfTwo DEF s
  <2>5. z[k] = Trim(SubSeq(s, p + 1, q - 1))
    BY <1>7, <2>1, <2>2
  <2>6. x[k] = Trim(SubSeq(a, p + 1, q - 1))
    BY <1>5 DEF p, q
  <2> QED BY <2>4, <2>5, <2>6
<1>9. ASSUME NEW k \in 1..cb PROVE z[ca + k] = y[k]
  <2>1. ca + k \in 1..(ca + cb) /\ k \in 0..cb /\ k - 1 \in 0..cb
    BY <1>2
  <2> DEFINE p == NLAt(b, k - 1)
             q == NLAt(b, k)
  <2>2. PICK e \in 1..(ca + cb) : e = ca + k
    BY <2>1
  <2>3. e - 1 = ca + (k - 1)
    BY <1>2, <2>2
  <2>4. NLAt(s, ca + (k - 1)) = Len(a) + p /\ NLAt(s, ca + k) = Len(a) + q
    BY <1>4, <2>1, Zenon
  <2>5. NLAt(s, e - 1) = Len(a) + p /\ NLAt(s, e) = Len(a) + q
    BY <2>2, <2>3, <2>4, Zenon
  <2>6. p \in Nat /\ q \in Nat /\ q <= Len(b) /\ q <= Len(b) + 1
    BY <1>1, <1>6
  <2>7. y[k] = Trim(SubSeq(b, p + 1, q - 1))
    BY <1>6
  <2>8. z[e] = Trim(SubSeq(s, NLAt(s, e - 1) + 1, NLAt(s, e) - 1))
    BY <1>7, <2>2
  <2> HIDE DEF p, q
  <2>9. SubSeq(s, Len(a) + p + 1, Len(a) + q - 1) = SubSeq(b, p + 1, q - 1)
    BY <2>6, PieceOfTwo DEF s
  <2>10. z[e] = Trim(SubSeq(s, Len(a) + p + 1, Len(a) + q - 1))
    <3>1. NLAt(s, e - 1) + 1 = Len(a) + p + 1 /\ NLAt(s, e) - 1 = Len(a) + q - 1
      BY <1>1, <2>5, <2>6
    <3> QED BY <2>8, <3>1
  <2> QED BY <2>2, <2>7, <2>9, <2>10, Zenon
<1>10. z = x \o y
  <2>1. /\ x \o y \in Seq(T) /\ Len(x \o y) = Len(x) + Len(y)
        /\ \A i \in 1..(Len(x) + Len(y)) : (x \o y)[i] = IF i <= Len(x) THEN x[i] ELSE y[i - Len(x)]
    BY <1>3, ConcatProperties
  <2>2. /\ Len(x \o y) = ca + cb
        /\ \A i \in 1..(ca + cb) : (x \o y)[i] = IF i <= ca THEN x[i] ELSE y[i - ca]
    BY <1>3, <2>1
  <2>3. ASSUME NEW i \in 1..(ca + cb) PROVE z[i] = (x \o y)[i]
    <3>1. CASE i <= ca
      BY <1>2, <1>8, <2>2, <3>1
    <3>2. CASE ~(i <= ca)
      <4>1. i - ca \in 1..cb /\ ca + (i - ca) = i
        BY <1>2, <3>2
      <4>2. z[ca + (i - ca)] = y[i - ca]
        BY <1>9, <4>1
      <4> QED BY <2>2, <3>2, <4>1, <4>2
    <3> QED BY <3>1, <3>2
  <2> QED BY <1>3, <2>1, <2>2, <2>3, SeqEqual
<1>11. RestOf(s) = RestOf(b)
  <2> DEFINE p == NLAt(b, cb)
  <2>1. NLAt(s, ca + cb) = Len(a) + p
    BY <1>2, <1>4
  <2>2. p \in Nat
    <3>1. CASE cb = 0
      BY <3>1 DEF NLAt
    <3>2. CASE cb # 0
      BY <1>2, <1>6, <3>2
    <3> QED BY <3>1, <3>2
  <2> HIDE DEF p
  <2>3. RestOf(s) = SubSeq(s, Len(a) + p + 1, Len(a) + Len(b))
    BY <1>1, <1>2, <2>1 DEF RestOf
  <2>4. RestOf(b) = SubSeq(b, p + 1, Len(b))
    BY DEF RestOf, p, cb
  <2>5. /\ Len(b) + 1 \in Nat /\ (Len(b) + 1) - 1 = Len(b) /\ Len(b) + 1 <= Len(b) + 1
        /\ Len(a) + (Len(b) + 1) - 1 = Len(a) + Len(b)
    BY <1>1
  <2>6. SubSeq(s, Len(a) + p + 1, Len(a) + (Len(b) + 1) - 1) = SubSeq(b, p + 1, (Len(b) + 1) - 1)
    BY <2>2, <2>5, PieceOfTwo DEF s
  <2> QED BY <2>3, <2>4, <2>5, <2>6
<1> QED BY <1>10, <1>11 DEF s, x, y, z

(* A text without an end of line is all rest. *)
LEMMA NoLines ==
  ASSUME NEW S, NEW s \in Seq(S), \A i \in DOMAIN s : s[i] # NL
  PROVE  LinesIn(s) = <<>> /\ RestOf(s) = s
<1>1. NLs(s) = {} /\ Cardinality(NLs(s)) = 0
  <2>1. NLs(s) = {}
    BY DEF NLs
  <2> QED BY <2>1, FS_EmptySet
<1>2. LinesIn(s) = <<>>
  <2>1. LinesIn(s) \in Seq(LineTexts(S)) /\ Len(LinesIn(s)) = 0
    BY <1>1, LinesInType
  <2> QED BY <2>1, EmptySeq
<1>3. NLAt(s, 0) + 1 = 1
  BY DEF NLAt
<1>4. RestOf(s) = SubSeq(s, 1, Len(s))
  BY <1>1, <1>3 DEF RestOf
<1> QED BY <1>2, <1>4, SubSeqFull

(* The rest follows whole lines and holds none. *)
LEMMA RestCuts ==
  ASSUME NEW S, NEW s \in Seq(S)
  PROVE  /\ RestOf(s) \in Seq(S)
         /\ \A i \in DOMAIN RestOf(s) : RestOf(s)[i] # NL
         /\ \E a \in Seq(S) : Closed(a) /\ s = a \o RestOf(s)
<1> DEFINE c == Cardinality(NLs(s))
           p == NLAt(s, c)
           n == Len(s)
<1>1. c \in Nat /\ NLs(s) \subseteq 1..n /\ n \in Nat
  BY EndsFinite
<1>2. p \in 0..n /\ (p # 0 => s[p] = NL) /\ \A i \in NLs(s) : i <= p
  <2>1. CASE c = 0
    <3>1. p = 0
      BY <2>1 DEF NLAt
    <3>2. NLs(s) = {}
      BY <2>1, EndsFinite, FS_EmptySet
    <3> QED BY <1>1, <3>1, <3>2
  <2>2. CASE c # 0
    <3>1. p \in NLs(s) /\ Cardinality(Upto(s, p)) = c
      BY <1>1, <2>2, EndsNumbered
    <3>2. ASSUME NEW i \in NLs(s) PROVE i <= p
      <4>1. i \in Nat /\ p \in Nat
        BY <1>1, <3>1
      <4>2. Cardinality(Upto(s, i)) \in Nat /\ Cardinality(Upto(s, i)) <= c
        BY EndsFinite
      <4>3. ~(p < i)
        <5>1. p < i => Cardinality(Upto(s, p)) < Cardinality(Upto(s, i))
          BY <3>1, EndsCount
        <5> HIDE DEF c, p
        <5> QED BY <1>1, <3>1, <4>2, <5>1
      <4> HIDE DEF p
      <4> QED BY <4>1, <4>3
    <3>3. s[p] = NL
      BY <3>1 DEF NLs
    <3> HIDE DEF p
    <3> QED BY <1>1, <3>1, <3>2, <3>3
  <2> QED BY <2>1, <2>2
<1>3. RestOf(s) = SubSeq(s, p + 1, n)
  BY DEF RestOf
<1> HIDE DEF p, c
<1> DEFINE r == SubSeq(s, p + 1, n)
           a == SubSeq(s, 1, p)
<1>4. \A i \in 1..n : s[i] \in S
  BY ElementOfSeq
<1> HIDE DEF n
<1>5. /\ r \in Seq(S) /\ Len(r) = n - p /\ DOMAIN r = 1..(n - p)
      /\ \A i \in 1..(n - p) : r[i] = s[p + i]
  <2>1. \A i \in (p + 1)..n : s[i] \in S
    BY <1>1, <1>2, <1>4
  <2>2. p + 1 \in Int /\ n \in Int /\ n - (p + 1) + 1 = n - p /\ p \in Nat
    BY <1>1, <1>2
  <2>3. /\ r \in Seq(S) /\ Len(r) = IF p + 1 <= n THEN n - (p + 1) + 1 ELSE 0
        /\ \A i \in 1..(n - (p + 1) + 1) : r[i] = s[(p + 1) + i - 1]
    BY <2>1, <2>2, SubSeqProperties
  <2> HIDE DEF r
  <2>4. Len(r) = n - p
    BY <1>1, <1>2, <2>3
  <2>5. DOMAIN r = 1..(n - p)
    BY <2>3, <2>4, LenProperties
  <2>6. ASSUME NEW i \in 1..(n - p) PROVE r[i] = s[p + i]
    <3>1. (p + 1) + i - 1 = p + i
      BY <2>2
    <3> QED BY <2>2, <2>3, <3>1
  <2> QED BY <2>3, <2>4, <2>5, <2>6
<1>6. /\ a \in Seq(S) /\ Len(a) = p /\ \A i \in 1..p : a[i] = s[i]
  <2>1. \A i \in 1..p : s[i] \in S
    BY <1>1, <1>2, <1>4
  <2>2. p \in Nat
    BY <1>2
  <2>3. /\ a \in Seq(S) /\ Len(a) = IF 1 <= p THEN p - 1 + 1 ELSE 0
        /\ \A i \in 1..(p - 1 + 1) : a[i] = s[1 + i - 1]
    BY <2>1, <2>2, SubSeqProperties
  <2> HIDE DEF a
  <2> QED BY <2>2, <2>3
<1> HIDE DEF a, r
<1>7. ASSUME NEW i \in DOMAIN r PROVE r[i] # NL
  <2>1. i \in 1..(n - p) /\ r[i] = s[p + i] /\ p + i \in 1..n /\ ~(p + i <= p)
    BY <1>1, <1>2, <1>5
  <2>2. DOMAIN s = 1..n
    BY LenProperties DEF n
  <2> QED BY <1>2, <2>1, <2>2 DEF NLs
<1>8. Closed(a)
  <2>1. CASE p = 0
    BY <1>6, <2>1, EmptySeq DEF Closed
  <2>2. CASE p # 0
    BY <1>2, <1>6, <2>2 DEF Closed
  <2> QED BY <2>1, <2>2
<1>9. s = a \o r
  <2>1. /\ a \o r \in Seq(S) /\ Len(a \o r) = Len(a) + Len(r)
        /\ \A i \in 1..(Len(a) + Len(r)) : (a \o r)[i] = IF i <= Len(a) THEN a[i] ELSE r[i - Len(a)]
    BY <1>5, <1>6, ConcatProperties
  <2>2. Len(a) + Len(r) = n
    BY <1>1, <1>2, <1>5, <1>6
  <2>3. ASSUME NEW i \in 1..n PROVE s[i] = (a \o r)[i]
    <3>1. (a \o r)[i] = IF i <= p THEN a[i] ELSE r[i - p]
      BY <1>6, <2>1, <2>2
    <3>2. CASE i <= p
      BY <1>1, <1>2, <1>6, <3>1, <3>2
    <3>3. CASE ~(i <= p)
      <4>1. i - p \in 1..(n - p) /\ p + (i - p) = i
        BY <1>1, <1>2, <3>3
      <4> QED BY <1>5, <3>1, <3>3, <4>1
    <3> QED BY <3>2, <3>3
  <2>4. Len(s) = n
    BY DEF n
  <2> QED BY <2>1, <2>2, <2>3, <2>4, SeqEqual
<1> QED BY <1>3, <1>5, <1>6, <1>7, <1>8, <1>9 DEF r

(* What is read next goes on from the rest. *)
LEMMA LinesGoOn ==
  ASSUME NEW S, NEW x \in Seq(S), NEW y \in Seq(S)
  PROVE  /\ LinesIn(x \o y) = LinesIn(x) \o LinesIn(RestOf(x) \o y)
         /\ RestOf(x \o y) = RestOf(RestOf(x) \o y)
<1> DEFINE r == RestOf(x)
<1>1. r \in Seq(S) /\ \A i \in DOMAIN r : r[i] # NL
  BY RestCuts
<1>2. PICK a \in Seq(S) : Closed(a) /\ x = a \o r
  BY RestCuts
<1> HIDE DEF r
<1>3. LinesIn(r) = <<>>
  BY <1>1, NoLines
<1>4. LinesIn(x) = LinesIn(a) \o LinesIn(r)
  BY <1>1, <1>2, LinesInTwo
<1>5. LinesIn(a) \o <<>> = LinesIn(a)
  BY LinesInType, ConcatEmptySeq
<1>6. LinesIn(x) = LinesIn(a)
  BY <1>3, <1>4, <1>5
<1>7. x \o y = a \o (r \o y)
  BY <1>1, <1>2, ConcatAssociative
<1>8. r \o y \in Seq(S)
  BY <1>1, ConcatProperties
<1>9. LinesIn(a \o (r \o y)) = LinesIn(a) \o LinesIn(r \o y) /\ RestOf(a \o (r \o y)) = RestOf(r \o y)
  BY <1>2, <1>8, LinesInTwo
<1> QED BY <1>6, <1>7, <1>9 DEF r

(* The first line of a text. *)
LEMMA FirstLine ==
  ASSUME NEW S, NEW s \in Seq(S), NEW i \in DOMAIN s, s[i] = NL, \A j \in 1..(i - 1) : s[j] # NL
  PROVE  /\ LinesIn(s) = <<Trim(SubSeq(s, 1, i - 1))>> \o LinesIn(SubSeq(s, i + 1, Len(s)))
         /\ RestOf(s) = RestOf(SubSeq(s, i + 1, Len(s)))
<1> DEFINE n == Len(s)
           a == SubSeq(s, 1, i)
           b == SubSeq(s, i + 1, n)
<1>1. n \in Nat /\ i \in 1..n /\ \A j \in 1..n : s[j] \in S
  BY LenProperties, ElementOfSeq
<1>2. /\ a \in Seq(S) /\ Len(a) = i /\ DOMAIN a = 1..i /\ \A j \in 1..i : a[j] = s[j]
  <2>1. \A j \in 1..i : s[j] \in S
    BY <1>1
  <2>2. i \in Int /\ 1 \in Int /\ i - 1 + 1 = i /\ 1 <= i
    BY <1>1
  <2>3. /\ a \in Seq(S) /\ Len(a) = (IF 1 <= i THEN i - 1 + 1 ELSE 0)
        /\ \A j \in 1..(i - 1 + 1) : a[j] = s[1 + j - 1]
    BY <2>1, <2>2, SubSeqProperties
  <2> HIDE DEF a
  <2>4. a \in Seq(S) /\ Len(a) = i /\ \A j \in 1..i : a[j] = s[j]
    BY <1>1, <2>2, <2>3
  <2> QED BY <2>4, LenProperties
<1>3. b \in Seq(S)
  <2>1. \A j \in (i + 1)..n : s[j] \in S
    BY <1>1
  <2>2. i + 1 \in Int /\ n \in Int
    BY <1>1
  <2> QED BY <2>1, <2>2, SubSeqProperties
<1>4. s = a \o b
  <2>1. SubSeq(s, 1, i) \o SubSeq(s, i + 1, n) = SubSeq(s, 1, n)
    <3>1. 1 \in 1..(n + 1) /\ i \in (1 - 1)..n /\ n \in i..n
      BY <1>1
    <3> QED BY <3>1, ConcatAdjacentSubSeq
  <2> QED BY <2>1, SubSeqFull
<1> HIDE DEF a, b, n
<1>5. Closed(a)
  BY <1>2, <1>1 DEF Closed
<1>6. LinesIn(a) = <<Trim(SubSeq(s, 1, i - 1))>>
  <2>1. NLs(a) = {i}
    BY <1>1, <1>2 DEF NLs
  <2>2. Cardinality(NLs(a)) = 1
    BY <2>1, FS_Singleton
  <2>3. NLAt(a, 1) = i
    BY <1>2, <1>5, <2>2, ClosedEnd
  <2>4. NLAt(a, 1 - 1) + 1 = 1
    BY DEF NLAt
  <2>5. /\ LinesIn(a) \in Seq(LineTexts(S)) /\ Len(LinesIn(a)) = 1
        /\ LinesIn(a)[1] = Trim(SubSeq(a, NLAt(a, 1 - 1) + 1, NLAt(a, 1) - 1))
    <3>1. 1 \in 1..Cardinality(NLs(a))
      BY <2>2
    <3> QED BY <1>2, <2>2, <3>1, LinesInType, Zenon
  <2>6. LinesIn(a)[1] = Trim(SubSeq(a, 1, i - 1))
    BY <2>3, <2>4, <2>5
  <2>7. SubSeq(a, 0 + 1, i - 1) = SubSeq(a \o b, 0 + 1, i - 1)
    <3>1. i \in Nat /\ 0 \in Nat /\ i <= Len(a)
      BY <1>1, <1>2
    <3> QED BY <1>2, <1>3, <3>1, PieceOfTwo
  <2>8. SubSeq(a, 1, i - 1) = SubSeq(s, 1, i - 1)
    BY <1>4, <2>7
  <2>9. \A x : <<x>> \in Seq({x}) /\ Len(<<x>>) = 1 /\ <<x>>[1] = x
    OBVIOUS
  <2> DEFINE t == Trim(SubSeq(s, 1, i - 1))
             l == LinesIn(a)
             T == LineTexts(S)
  <2>10. l \in Seq(T) /\ Len(l) = 1 /\ l[1] = t
    BY <2>5, <2>6, <2>8
  <2> HIDE DEF t, l, T
  <2>11. t \in T
    <3>1. 1 \in 1..Len(l)
      BY <2>10
    <3> QED BY <2>10, <3>1, ElementOfSeq
  <2>12. <<t>> \in Seq(T) /\ Len(<<t>>) = 1 /\ <<t>>[1] = t
    BY <2>11
  <2>13. l = <<t>>
    <3> DEFINE u == <<t>>
    <3> HIDE DEF u
    <3>1. u \in Seq(T) /\ Len(u) = 1 /\ u[1] = t
      BY <2>12 DEF u
    <3>2. l = u
      BY <2>10, <3>1, SeqEqual
    <3> QED BY <3>2 DEF u
  <2> QED BY <2>13 DEF l, t
<1>7. LinesIn(s) = LinesIn(a) \o LinesIn(b) /\ RestOf(s) = RestOf(b)
  BY <1>2, <1>3, <1>4, <1>5, LinesInTwo
<1> QED BY <1>6, <1>7 DEF b, n

-----------------------------------------------------------------------------
(* The frames *)

TaskLines == [k \in DOMAIN tasks |-> tasks[k].line]
Kept == IF reader = "splits" THEN cur ELSE buf
FramesAgree == socket # "closed" => TaskLines \o LinesIn(Kept) = LinesIn(got) /\ RestOf(Kept) = RestOf(got)

LEMMA TaskLinesType ==
  ASSUME tasks \in Seq(TaskRecords)
  PROVE  TaskLines \in Seq(LineTexts(Fragments)) /\ Len(TaskLines) = Len(tasks)
<1>1. DOMAIN tasks = 1..Len(tasks) /\ Len(tasks) \in Nat /\ \A k \in 1..Len(tasks) : tasks[k] \in TaskRecords
  BY LenProperties, ElementOfSeq
<1>2. \A k \in 1..Len(tasks) : tasks[k].line \in LineTexts(Fragments)
  BY <1>1 DEF TaskRecords, Trimmed, LineTexts
<1> DEFINE T == LineTexts(Fragments)
<1> HIDE DEF T
<1>3. TaskLines \in [1..Len(tasks) -> T]
  BY <1>1, <1>2 DEF TaskLines, T
<1>4. TaskLines \in Seq(T) /\ Len(TaskLines) = Len(tasks)
  BY <1>1, <1>3
<1> QED BY <1>4 DEF T

(* The steps of the goroutines leave the lines alone. *)
LEMMA LinesStay ==
  ASSUME LinesInv, NEW k \in DOMAIN tasks, Runs(k) \/ LockTimesOut(k)
  PROVE  TaskLines' = TaskLines /\ UNCHANGED <<socket, reader, buf, cur, got>>
<1>1. LinesTypes /\ KeepsToScript(k) /\ tasks \in Seq(TaskRecords)
  BY DEF LinesInv, LinesTypes
<1>2. \E rec \in TaskRecords : tasks' = [tasks EXCEPT ![k] = rec] /\ rec.line = tasks[k].line
  <2>1. CASE GetsName(k)
    BY <1>1, <2>1, NameMoves
  <2>2. CASE Calls(k) \/ LockTimesOut(k)
    BY <1>1, <2>2, CallMoves
  <2>3. CASE Writes(k)
    BY <1>1, <2>3, WriteMoves
  <2> QED BY <2>1, <2>2, <2>3 DEF Runs
<1>3. PICK rec \in TaskRecords : tasks' = [tasks EXCEPT ![k] = rec] /\ rec.line = tasks[k].line
  BY <1>2
<1>4. DOMAIN tasks' = DOMAIN tasks /\ \A j \in DOMAIN tasks : tasks'[j].line = tasks[j].line
  BY <1>1, <1>3, OwnRecord
<1>5. UNCHANGED <<socket, reader, buf, cur, got>>
  <2>1. CASE GetsName(k) \/ Writes(k)
    BY <2>1 DEF GetsName, Writes, input
  <2>2. CASE Calls(k) \/ LockTimesOut(k)
    BY <2>2 DEF Calls, CallsSet, CallsDelete, CallsLock, CallsUnlock, CallsOther, LockTimesOut, Returns, input
  <2> QED BY <2>1, <2>2 DEF Runs
<1> QED BY <1>4, <1>5 DEF TaskLines

LEMMA FramesNext ==
  ASSUME LinesInv, FramesAgree, [LinesNext]_lineVars
  PROVE  FramesAgree'
<1>1. /\ left \in Seq(Fragments) /\ got \in Seq(Fragments) /\ buf \in Seq(Fragments) /\ cur \in Seq(Fragments)
      /\ tasks \in Seq(TaskRecords)
  BY DEF LinesInv, LinesTypes
<1> DEFINE T == LineTexts(Fragments)
<1>2. TaskLines \in Seq(T) /\ Len(TaskLines) = Len(tasks)
  BY <1>1, TaskLinesType
<1>3. CASE Greet
  <2>1. UNCHANGED <<socket, buf, cur, got, tasks>> /\ reader # "splits" /\ reader' # "splits"
    BY <1>3 DEF Greet, input
  <2>2. UNCHANGED <<TaskLines, Kept, socket, got>>
    BY <2>1 DEF TaskLines, Kept
  <2> QED BY <2>2 DEF FramesAgree
<1>4. ASSUME NEW n \in 1..Len(left), Receive(n) PROVE FramesAgree'
  <2> DEFINE chunk == SubSeq(left, 1, n)
  <2>1. /\ socket = "open" /\ reader = "reads" /\ reader' = "splits" /\ UNCHANGED tasks
        /\ got' = got \o chunk /\ cur' = buf \o chunk
    BY <1>4 DEF Receive
  <2>2. chunk \in Seq(Fragments)
    BY <1>1
  <2> HIDE DEF chunk
  <2>3. LinesIn(buf) = <<>> /\ RestOf(buf) = buf
    BY <1>1, NoLines DEF LinesInv, BufferHoldsNoLine
  <2>4. TaskLines \o <<>> = TaskLines
    BY <1>2, ConcatEmptySeq
  <2>5. TaskLines = LinesIn(got) /\ buf = RestOf(got)
    BY <2>1, <2>3, <2>4 DEF FramesAgree, Kept
  <2>6. LinesIn(got \o chunk) = LinesIn(got) \o LinesIn(RestOf(got) \o chunk)
        /\ RestOf(got \o chunk) = RestOf(RestOf(got) \o chunk)
    BY <1>1, <2>2, LinesGoOn
  <2>7. TaskLines' = TaskLines /\ Kept' = buf \o chunk
    BY <2>1 DEF TaskLines, Kept
  <2> QED BY <2>1, <2>5, <2>6, <2>7 DEF FramesAgree
<1>5. CASE TakeLine
  <2>1. PICK i \in DOMAIN cur :
         /\ cur[i] = NL /\ \A j \in 1..(i - 1) : cur[j] # NL
         /\ tasks' = Append(tasks, Task(Trim(SubSeq(cur, 1, i - 1)), Script(Trim(SubSeq(cur, 1, i - 1)))))
         /\ cur' = SubSeq(cur, i + 1, Len(cur))
    BY <1>5 DEF TakeLine
  <2>2. reader = "splits" /\ UNCHANGED <<reader, socket, got>>
    BY <1>5 DEF TakeLine, input
  <2> DEFINE line == Trim(SubSeq(cur, 1, i - 1))
             rec == Task(line, Script(line))
  <2>3. LinesIn(cur) = <<line>> \o LinesIn(cur') /\ RestOf(cur) = RestOf(cur')
    BY <1>1, <2>1, FirstLine
  <2>4. rec.line = line
    BY DEF Task
  <2>5. tasks' \in Seq(TaskRecords)
    <3>1. LinesInv'
      BY <1>5, TakeLineKeepsInv
    <3> QED BY <3>1 DEF LinesInv, LinesTypes
  <2>6. tasks' = Append(tasks, rec) /\ cur' \in Seq(Fragments) /\ line \in T
    <3>1. i \in 1..Len(cur)
      BY <1>1
    <3>2. cur' \in Seq(Fragments) /\ SubSeq(cur, 1, i - 1) \in Seq(Fragments)
      <4>1. cur' = SubSeq(cur, i + 1, Len(cur))
        BY <2>1
      <4> QED BY <1>1, <3>1, <4>1
    <3> QED BY <2>1, <3>2 DEF LineTexts
  <2> HIDE DEF line, rec
  <2>7. TaskLines' = TaskLines \o <<line>>
    <3> DEFINE n == Len(tasks)
               x == TaskLines
               y == TaskLines'
    <3>1. n \in Nat /\ DOMAIN tasks = 1..n
      BY <1>1, LenProperties
    <3>2. Len(tasks') = n + 1 /\ DOMAIN tasks' = 1..(n + 1) /\ tasks'[n + 1] = rec
          /\ \A j \in 1..n : tasks'[j] = tasks[j]
      BY <1>1, <2>6, <3>1
    <3>3. x \in Seq(T) /\ Len(x) = n /\ \A j \in 1..n : x[j] = tasks[j].line
      BY <1>2, <3>1 DEF TaskLines
    <3>4. y \in Seq(T) /\ Len(y) = n + 1
      <4>1. tasks \in Seq(TaskRecords) => TaskLines \in Seq(T) /\ Len(TaskLines) = Len(tasks)
        BY TaskLinesType
      <4>2. (tasks \in Seq(TaskRecords))' => (TaskLines \in Seq(T) /\ Len(TaskLines) = Len(tasks))'
        BY TaskLinesType, PTL
      <4> QED BY <2>5, <3>2, <4>2
    <3>5. \A j \in 1..n : y[j] = x[j]
      BY <3>2, <3>3, <3>1 DEF TaskLines
    <3>6. y[n + 1] = line
      BY <2>4, <3>1, <3>2 DEF TaskLines
    <3> HIDE DEF n, x, y, T
    <3>7. x \o <<line>> \in Seq(T) /\ Len(x \o <<line>>) = n + 1 /\ (x \o <<line>>)[n + 1] = line
          /\ \A j \in 1..n : (x \o <<line>>)[j] = x[j]
      BY <2>6, <3>1, <3>3
    <3>8. \A j \in 1..(n + 1) : y[j] = (x \o <<line>>)[j]
      BY <3>1, <3>5, <3>6, <3>7
    <3>9. y = x \o <<line>>
      BY <3>4, <3>7, <3>8, SeqEqual
    <3> QED BY <3>9 DEF x, y
  <2>8. TaskLines' \o LinesIn(cur') = TaskLines \o LinesIn(cur)
    <3>1. LinesIn(cur') \in Seq(T) /\ <<line>> \in Seq(T)
      BY <2>6, LinesInType
    <3>2. (TaskLines \o <<line>>) \o LinesIn(cur') = TaskLines \o (<<line>> \o LinesIn(cur'))
      BY <1>2, <3>1, ConcatAssociative
    <3> QED BY <2>3, <2>7, <3>2
  <2>9. Kept = cur /\ Kept' = cur'
    BY <2>2 DEF Kept
  <2>10. LinesIn(got') = LinesIn(got) /\ RestOf(got') = RestOf(got)
    BY <2>2
  <2> QED BY <2>2, <2>3, <2>8, <2>9, <2>10 DEF FramesAgree
<1>6. CASE KeepTail
  <2>1. reader = "splits" /\ reader' = "reads" /\ buf' = cur /\ UNCHANGED <<socket, got, tasks>>
    BY <1>6 DEF KeepTail, input
  <2>2. UNCHANGED <<TaskLines, Kept, socket, got>>
    BY <2>1 DEF TaskLines, Kept
  <2> QED BY <2>2 DEF FramesAgree
<1>7. CASE Breaks
  <2>1. socket = "open" /\ UNCHANGED <<reader, buf, cur, got, tasks>>
    BY <1>7 DEF Breaks, input
  <2>2. UNCHANGED <<TaskLines, Kept, got>>
    BY <2>1 DEF TaskLines, Kept
  <2> QED BY <2>1, <2>2 DEF FramesAgree
<1>8. CASE Disconnected
  BY <1>8 DEF Disconnected, FramesAgree
<1>9. ASSUME NEW k \in DOMAIN tasks, Runs(k) \/ LockTimesOut(k) PROVE FramesAgree'
  <2>1. UNCHANGED <<TaskLines, Kept, socket, got>>
    BY <1>9, LinesStay DEF Kept
  <2> QED BY <2>1 DEF FramesAgree
<1>10. CASE UNCHANGED lineVars
  <2>1. UNCHANGED <<TaskLines, Kept, socket, got>>
    BY <1>10 DEF lineVars, input, TaskLines, Kept
  <2> QED BY <2>1 DEF FramesAgree
<1> QED BY <1>3, <1>4, <1>5, <1>6, <1>7, <1>8, <1>9, <1>10 DEF LinesNext, Reads, Splits

LEMMA FramesInit == LinesInit => FramesAgree
<1> SUFFICES ASSUME LinesInit PROVE FramesAgree
  OBVIOUS
<1>1. tasks = <<>> /\ Kept = <<>> /\ got = <<>>
  BY Zenon DEF LinesInit, Kept
<1>2. <<>> \in Seq({}) /\ DOMAIN <<>> = {}
  OBVIOUS
<1>3. LinesIn(<<>>) = <<>>
  BY <1>2, NoLines
<1>4. TaskLines = <<>>
  BY <1>1, <1>2 DEF TaskLines
<1>5. <<>> \o <<>> = <<>>
  BY <1>2, ConcatEmptySeq
<1> QED BY <1>1, <1>3, <1>4, <1>5 DEF FramesAgree

(* The data callback of StartListening: whatever the sizes of the reads    *)
(* and whatever the goroutines of earlier lines do meanwhile, the lines    *)
(* that were started and the text that is kept make up exactly what was    *)
(* read.                                                                   *)
THEOREM FramesMatchHolds == LinesSpec => []FramesMatch
<1>1. LinesInv /\ FramesAgree => FramesMatch
  <2> SUFFICES ASSUME LinesInv, FramesAgree PROVE FramesMatch
    OBVIOUS
  <2>1. LinesTypeOK
    <3>1. LinesTypes /\ LinesBounds
      BY DEF LinesInv
    <3>2. \A k \in DOMAIN tasks : tasks[k].ver \in 0..ver /\ tasks[k].floor \in 0..acked
      <4> TAKE k \in DOMAIN tasks
      <4>1. tasks[k] \in TaskRecords
        BY <3>1, LenProperties DEF LinesTypes
      <4> QED BY <3>1, <4>1 DEF LinesTypes, LinesBounds, TaskRecords
    <3>3. Len(Greeting) = 5
      BY DEF Greeting
    <3> QED BY <3>1, <3>2, <3>3 DEF LinesTypes, LinesBounds, LinesTypeOK
  <2> QED BY <2>1 DEF FramesAgree, FramesMatch, TaskLines, Kept
<1>2. LinesInv /\ FramesAgree /\ [LinesNext]_lineVars => FramesAgree'
  BY FramesNext
<1> QED BY <1>1, <1>2, FramesInit, LinesInvariant, PTL DEF LinesSpec
=============================================================================

--------------------------- MODULE DeliveryProofs ---------------------------
(***************************************************************************)
(* Proofs about controller/controller.go, values and notifications: for    *)
(* any clients, names, patterns, values, calls and connections, every      *)
(* change reaches whoever it concerns, and a system at rest has told its   *)
(* observers the current values, but for those whose list was not visited  *)
(* because its lock timed out.                                             *)
(*                                                                         *)
(* The argument: as long as an observer has not been sent the current      *)
(* value of a variable, something that carries it is on its way (Awaits),  *)
(* and each step of a goroutine hands it on or delivers it.  If no change  *)
(* of a name crossed a message about it, all that is on its way about the  *)
(* name agrees (Straight), so the order of arrival does not matter.        *)
(***************************************************************************)
EXTENDS Delivery, SequenceTheorems, TLAPS

-----------------------------------------------------------------------------
(* The inductive invariant *)

(* Changes are about the names callers use and the names before their      *)
(* stars; a pattern is a sequence of their words and of stars.             *)
Words == {Star} \cup UNION {Range(n) : n \in Names}
Changed == Names \cup {Base(n) : n \in Names}

Deletions == [id : Nat, key : Names, todo : SUBSET Changed, raced : BOOLEAN]
Notifications == [id : Nat, name : Changed, value : Texts, todo : Seq(Seq(Words))]
Messages == [id : Nat, name : Changed, value : Texts, via : Seq(Words), to : Clients]
Resumes ==
    [pc : {"idle", "list", "read"}, todo : SUBSET Names, load : {{}}]
    \cup [pc : {"send"}, key : Names, todo : SUBSET Names, load : Loads]

(* Types, also of the goroutines. *)
DeliveryTypes ==
    /\ calls \in Nat
    /\ timeouts <= MaxTimeouts
    /\ value \in [Names -> Texts]
    /\ \A n \in Names : HasStar(n) => value[n] = Empty
    /\ sub \in [Clients -> [Names -> [pc : {"none", "registered", "read", "done", "gone"}, load : Loads,
                                      listed : BOOLEAN, own : BOOLEAN]]]
    /\ deleting \subseteq Deletions
    /\ notifying \subseteq Notifications
    /\ inflight \subseteq Messages
    /\ \A d \in deleting : d.id <= calls
    /\ \A j \in notifying : j.id <= calls /\ j.todo # <<>>
    /\ online \in [Clients -> BOOLEAN]
    /\ connects \in [Clients -> Nat]
    /\ resuming \in [Clients -> Resumes]
    /\ got \in [Clients -> [Names -> SUBSET Texts]]
    /\ last \in [Clients -> [Names -> Texts]]

(* A notification visits only lists that match; no list that someone is    *)
(* due to be told through has been visited yet, and he is on it.  Nobody   *)
(* is on a list that he never asked for.                                   *)
OnlyMatches ==
    /\ \A j \in notifying : \A i \in 1..Len(j.todo) : Matches(j.todo[i], j.name)
    /\ \A m \in inflight : Matches(m.via, m.name)

DueIsPlanned ==
    \A d \in due : \E j \in notifying :
        j.id = d[1] /\ j.name = d[2] /\ \E i \in 1..Len(j.todo) : j.todo[i] = d[4]

DueIsListed ==
    /\ \A c \in Clients, n \in Names : sub[c][n].listed => sub[c][n].pc # "none"
    /\ \A d \in due : d[3] \in Observers(d[4])

(* What a deletion that nobody raced has still to find is on its list. *)
StillToDelete ==
    \A d \in deleting : ~d.raced =>
        \A x \in Names : Covers(d.key, x) /\ value[x] # Empty => x \in d.todo

(* The current value of n is on its way to client c: the notification of   *)
(* the change has not visited the list of n, its message is under way, a   *)
(* return of the client has still to read or to send it, or the            *)
(* registration has.  (Where there is no value, nothing is read.)          *)
Notified(n) ==
    \E j \in notifying : /\ j.name = n /\ j.value = value[n]
                         /\ \E i \in 1..Len(j.todo) : j.todo[i] = n
Messaged(c, n) == \E m \in inflight : m.to = c /\ m.name = n /\ m.value = value[n]
Resumed(c, n) ==
    /\ value[n] # Empty
    /\ \/ resuming[c].pc = "list"
       \/ resuming[c].pc \in {"read", "send"} /\ n \in resuming[c].todo
       \/ resuming[c].pc = "send" /\ <<n, value[n]>> \in resuming[c].load
Registered(c, n) ==
    /\ value[n] # Empty
    /\ \/ sub[c][n].pc = "registered"
       \/ sub[c][n].pc = "read" /\ <<n, value[n]>> \in sub[c][n].load

Awaits(c, n) == Notified(n) \/ Messaged(c, n) \/ Resumed(c, n) \/ Registered(c, n)

(* A connected observer on both lists, all of whose notifications visited  *)
(* the list, has been sent the current value, or it is on its way; and if  *)
(* no change crossed, it is the one it was sent last.                      *)
Interested(c, n) ==
    /\ online[c] /\ sub[c][n].pc \in {"registered", "read", "done"}
    /\ sub[c][n].listed /\ sub[c][n].own
    /\ ~HasStar(n) /\ <<c, n>> \notin missed

Reaches(c, n) ==
    /\ value[n] # Empty => value[n] \in got[c][n] \/ Awaits(c, n)
    /\ n \notin crossed => last[c][n] = value[n] \/ Awaits(c, n)

EveryoneIsReached == \A c \in Clients, n \in Names : Interested(c, n) => Reaches(c, n)

(* All that is on its way about a name that no change crossed is its       *)
(* current value.                                                          *)
SaysCurrent(load, n) == \A l \in load : l[1] = n => l[2] = value[n]

Straight(n) ==
    /\ \A j \in notifying \cup inflight : j.name = n => j.value = value[n]
    /\ \A c \in Clients :
          /\ \A k \in Names : sub[c][k].pc = "read" => SaysCurrent(sub[c][k].load, n)
          /\ resuming[c].pc = "send" => SaysCurrent(resuming[c].load, n)

StraightUnlessCrossed == \A n \in Names \ crossed : ~HasStar(n) => Straight(n)

(* What is read for an observation concerns it. *)
LoadsConcern ==
    \A c \in Clients :
        /\ \A k \in Names : \A l \in sub[c][k].load : Concerns(k, l[1])
        /\ resuming[c].pc = "send" => \A l \in resuming[c].load : Concerns(resuming[c].key, l[1])

DeliveryInv ==
    /\ DeliveryTypes
    /\ OnlyMatches
    /\ DueIsPlanned
    /\ DueIsListed
    /\ StillToDelete
    /\ LoadsConcern
    /\ StraightUnlessCrossed
    /\ EveryoneIsReached

-----------------------------------------------------------------------------
(* Names and patterns *)

LEMMA NamesAreWords ==
  /\ \A n \in Names : n \in Seq(Words) /\ n # <<>>
  /\ \A n \in Changed : n \in Seq(Words)
<1>1. ASSUME NEW n \in Names PROVE n \in Seq(Words) /\ n # <<>>
  <2>1. n \in Seq(Range(n)) /\ n # <<>>
    BY DeliveryAssumption
  <2>2. Range(n) \subseteq Words
    BY DEF Words
  <2> QED BY <2>1, <2>2
<1>2. ASSUME NEW n \in Names PROVE Base(n) \in Seq(Words)
  BY <1>1 DEF Base, Parent, Front
<1> QED BY <1>1, <1>2 DEF Changed

(* The lists that notifyVarModification visits are patterns of known       *)
(* words; there is at least one.                                           *)
LEMMA TargetsTyped ==
  ASSUME NEW n \in Seq(Words)
  PROVE  /\ Targets(n) \in Seq(Seq(Words)) /\ Targets(n) # <<>>
         /\ Targets(n)[1] = n
<1>1. ParentGenerics(n) \in Seq(Seq(Words))
  <2>1. ASSUME NEW i \in 1..(Len(n) - 1)
        PROVE Append(SubSeq(n, 1, Len(n) - i), Star) \in Seq(Words)
    BY DEF Words
  <2>2. CASE Len(n) = 0
    BY <2>2, <2>1 DEF ParentGenerics
  <2>3. CASE Len(n) > 0
    <3>1. Len(n) - 1 \in Nat
      BY <2>3
    <3> QED BY <3>1, <2>1 DEF ParentGenerics
  <2> QED BY <2>2, <2>3
<1>2. Append(n, Star) \in Seq(Words)
  BY DEF Words
<1>3. <<n>> \in Seq(Seq(Words)) /\ Len(<<n>>) = 1 /\ <<n>>[1] = n
  OBVIOUS
<1>4. (IF n = <<>> THEN <<>> ELSE <<Append(n, Star)>>) \in Seq(Seq(Words))
  BY <1>2
<1> DEFINE rest == IF n = <<>> THEN <<>> ELSE <<Append(n, Star)>>
           front == <<n>> \o ParentGenerics(n)
<1> HIDE DEF rest
<1>5. front \in Seq(Seq(Words)) /\ Len(front) >= 1 /\ front[1] = n
  BY <1>1, <1>3
<1> HIDE DEF front
<1>6. front \o rest \in Seq(Seq(Words)) /\ Len(front \o rest) >= 1 /\ (front \o rest)[1] = n
  BY <1>4, <1>5 DEF rest
<1> QED BY <1>6 DEF Targets, front, rest

(* Every place of the list of targets. *)
LEMMA TargetPlaces ==
  ASSUME NEW n \in Seq(Words)
  PROVE  /\ \A i \in 1..Len(Targets(n)) :
               \/ Targets(n)[i] = n
               \/ \E k \in 1..Len(n) : Targets(n)[i] = Append(SubSeq(n, 1, k), Star)
         /\ \A k \in 1..Len(n) : \E i \in 1..Len(Targets(n)) :
               Targets(n)[i] = Append(SubSeq(n, 1, k), Star)
<1>1. CASE n = <<>>
  <2>1. ParentGenerics(n) = <<>>
    BY <1>1 DEF ParentGenerics
  <2>2. Targets(n) = <<n>>
    <3>1. <<n>> \in Seq(Seq(Words))
      OBVIOUS
    <3>2. <<n>> \o <<>> = <<n>>
      BY <3>1, ConcatEmptySeq
    <3> QED BY <1>1, <2>1, <3>2 DEF Targets
  <2> QED BY <1>1, <2>2
<1>2. CASE n # <<>>
  <2> DEFINE L == Len(n)
             pattern(k) == Append(SubSeq(n, 1, k), Star)
             g == ParentGenerics(n)
  <2>1. L \in Nat \ {0}
    BY <1>2
  <2>2. \A k \in 1..L : pattern(k) \in Seq(Words)
    BY DEF Words
  <2>3. /\ g = [i \in 1..(L - 1) |-> pattern(L - i)]
        /\ \A i \in 1..(L - 1) : L - i \in 1..L
    BY <2>1 DEF ParentGenerics
  <2> HIDE DEF pattern
  <2>4. g \in Seq(Seq(Words)) /\ Len(g) = L - 1
    <3>1. L - 1 \in Nat
      BY <2>1
    <3>2. \A i \in 1..(L - 1) : pattern(L - i) \in Seq(Words)
      BY <2>2, <2>3
    <3> QED BY <2>3, <3>1, <3>2
  <2>5. SubSeq(n, 1, L) = n
    BY <2>1
  <2>6. Targets(n) = (<<n>> \o g) \o <<pattern(L)>>
    BY <1>2, <2>5 DEF Targets, pattern
  <2> HIDE DEF g
  <2>7. /\ <<n>> \o g \in Seq(Seq(Words)) /\ Len(<<n>> \o g) = L
        /\ (<<n>> \o g)[1] = n
        /\ \A i \in 2..L : (<<n>> \o g)[i] = g[i - 1]
    BY <2>1, <2>4
  <2> DEFINE f == <<n>> \o g
  <2> HIDE DEF f
  <2>8. pattern(L) \in Seq(Words)
    BY <2>1, <2>2
  <2>9. /\ Len(Targets(n)) = L + 1
        /\ \A i \in 1..L : Targets(n)[i] = f[i]
        /\ Targets(n)[L + 1] = pattern(L)
    <3>1. Targets(n) = f \o <<pattern(L)>>
      BY <2>6 DEF f
    <3>2. f \in Seq(Seq(Words)) /\ Len(f) = L
      BY <2>7 DEF f
    <3>3. <<pattern(L)>> \in Seq(Seq(Words)) /\ Len(<<pattern(L)>>) = 1
      BY <2>8
    <3> HIDE DEF L
    <3> QED BY <2>1, <3>1, <3>2, <3>3
  <2>10. \A i \in 2..L : i - 1 \in 1..(L - 1) /\ g[i - 1] = pattern(L - (i - 1))
    BY <2>1, <2>3
  <2>11. \A i \in 2..L : Targets(n)[i] = pattern(L - (i - 1))
    BY <2>1, <2>7, <2>9, <2>10 DEF f
  <2>12. Targets(n)[1] = n
    BY <2>1, <2>7, <2>9 DEF f
  <2>13. ASSUME NEW i \in 1..Len(Targets(n))
         PROVE  Targets(n)[i] = n \/ \E k \in 1..L : Targets(n)[i] = pattern(k)
    <3>1. CASE i = 1
      BY <3>1, <2>12
    <3>2. CASE i = L + 1
      BY <3>2, <2>1, <2>9
    <3>3. CASE i \in 2..L
      <4>1. L - (i - 1) \in 1..L
        BY <3>3, <2>1
      <4> QED BY <4>1, <3>3, <2>11
    <3> QED BY <2>1, <2>9, <3>1, <3>2, <3>3
  <2>14. ASSUME NEW k \in 1..L
         PROVE  \E i \in 1..Len(Targets(n)) : Targets(n)[i] = pattern(k)
    <3>1. CASE k = L
      BY <3>1, <2>1, <2>9
    <3>2. CASE k < L
      <4>1. /\ L - k + 1 \in 2..L
            /\ L - ((L - k + 1) - 1) = k
        BY <3>2, <2>1
      <4>2. Targets(n)[L - k + 1] = pattern(k)
        BY <4>1, <2>11
      <4> QED BY <4>1, <4>2, <2>1, <2>9
    <3> QED BY <2>1, <3>1, <3>2
  <2> QED BY <2>13, <2>14 DEF pattern
<1> QED BY <1>1, <1>2

(* The chain of parents leaves out no pattern that matches, and adds none. *)
LEMMA TargetsAreTheMatches ==
  ASSUME NEW n \in Seq(Words)
  PROVE  /\ \A i \in 1..Len(Targets(n)) : Matches(Targets(n)[i], n)
         /\ \A k \in Names : Matches(k, n) => \E i \in 1..Len(Targets(n)) : Targets(n)[i] = k
<1>1. ASSUME NEW k \in 1..Len(n) PROVE Matches(Append(SubSeq(n, 1, k), Star), n)
  <2> DEFINE p == SubSeq(n, 1, k)
             q == Append(p, Star)
  <2>1. p \in Seq(Words) /\ Len(p) = k /\ Star \in Words
    BY DEF Words
  <2> HIDE DEF p
  <2>2. q \in Seq(Words) /\ Len(q) = k + 1 /\ q[k + 1] = Star
    BY <2>1
  <2>3. SubSeq(q, 1, k) = p
    BY <2>1
  <2>4. SubSeq(p, 1, k) = p
    BY <2>1
  <2>5. EndsInStar(q) /\ Len(q) > 1 /\ Parent(q) = p
    BY <2>2, <2>3 DEF EndsInStar, Last, Parent, Front
  <2>6. IsPrefix(p, n)
    BY <2>1, <2>4 DEF IsPrefix, p
  <2> QED BY <2>5, <2>6 DEF Matches, p
<1>2. \A i \in 1..Len(Targets(n)) : Matches(Targets(n)[i], n)
  <2> SUFFICES ASSUME NEW i \in 1..Len(Targets(n)) PROVE Matches(Targets(n)[i], n)
    OBVIOUS
  <2>1. CASE Targets(n)[i] = n
    BY <2>1 DEF Matches
  <2>2. CASE \E k \in 1..Len(n) : Targets(n)[i] = Append(SubSeq(n, 1, k), Star)
    BY <2>2, <1>1
  <2> QED BY <2>1, <2>2, TargetPlaces
<1>3. ASSUME NEW k \in Names, Matches(k, n)
      PROVE  \E i \in 1..Len(Targets(n)) : Targets(n)[i] = k
  <2>1. CASE k = n
    <3>1. Targets(n) \in Seq(Seq(Words)) /\ Targets(n) # <<>> /\ Targets(n)[1] = n
      BY TargetsTyped
    <3>2. 1 \in 1..Len(Targets(n))
      BY <3>1
    <3> QED BY <2>1, <3>1, <3>2
  <2>2. CASE EndsInStar(k) /\ Len(k) > 1 /\ IsPrefix(Parent(k), n)
    <3>1. k \in Seq(Words)
      BY NamesAreWords
    <3> DEFINE m == Len(k) - 1
    <3>2. m \in Nat /\ m >= 1 /\ Len(k) = m + 1
      BY <2>2, <3>1
    <3>3. k[m + 1] = Star /\ Star \in Words
      BY <2>2, <3>2 DEF EndsInStar, Last, Words
    <3>4. SubSeq(k, 1, m) \in Seq(Words) /\ Len(SubSeq(k, 1, m)) = m
      BY <3>1, <3>2
    <3>5. Parent(k) = SubSeq(k, 1, m)
      BY DEF Parent, Front
    <3>6. k = Append(SubSeq(k, 1, m), Star)
      BY <3>1, <3>2, <3>3, <3>4
    <3>7. m <= Len(n) /\ SubSeq(k, 1, m) = SubSeq(n, 1, m)
      <4>1. SubSeq(SubSeq(k, 1, m), 1, m) = SubSeq(k, 1, m)
        BY <3>4
      <4> QED BY <2>2, <3>4, <3>5, <4>1 DEF IsPrefix
    <3>8. m \in 1..Len(n) /\ k = Append(SubSeq(n, 1, m), Star)
      BY <3>2, <3>6, <3>7
    <3> HIDE DEF m
    <3> QED BY <3>8, TargetPlaces
  <2> QED BY <1>3, <2>1, <2>2 DEF Matches
<1> QED BY <1>2, <1>3

-----------------------------------------------------------------------------
(* What is read and sent *)

(* getVarInternal reads current values of what concerns the name, and all  *)
(* of them.                                                                *)
LEMMA ReadsCurrent ==
  ASSUME DeliveryTypes, NEW k \in Names
  PROVE  /\ GetVarInternal(k) \in Loads
         /\ \A l \in GetVarInternal(k) : Concerns(k, l[1]) /\ l[2] = value[l[1]]
         /\ value[k] # Empty => <<k, value[k]>> \in GetVarInternal(k)
<1>1. \A y \in Names : value[y] # Empty => value[y] \in Values
  BY DEF DeliveryTypes, Texts
<1> QED BY <1>1 DEF GetVarInternal, Loads, Concerns

LEMMA FoundTyped ==
  ASSUME NEW k \in Names
  PROVE  /\ Found(k) \subseteq Changed
         /\ \A x \in Names : value[x] # Empty /\ Covers(k, x) => x \in Found(k)
BY DEF Found, Changed

(* Sending: a connected client gets what it is sent and keeps the rest. *)
Payloads == SUBSET (Changed \X Texts)

LEMMA SendStep ==
  ASSUME DeliveryTypes, NEW c \in Clients, NEW load \in Payloads, Send(c, load)
  PROVE  /\ online' = online /\ connects' = connects
         /\ got' \in [Clients -> [Names -> SUBSET Texts]]
         /\ last' \in [Clients -> [Names -> Texts]]
         /\ \A e \in Clients : e # c => got'[e] = got[e] /\ last'[e] = last[e]
         /\ \A n \in Names : got[c][n] \subseteq got'[c][n]
         /\ online[c] => \A n \in Names : \A v : <<n, v>> \in load => v \in got'[c][n]
         /\ online[c] => \A n \in Names : (\A l \in load : l[1] # n) => last'[c][n] = last[c][n]
         /\ online[c] => \A n \in Names, l \in load :
               l[1] = n /\ (\A k \in load : k[1] = n => k[2] = l[2]) => last'[c][n] = l[2]
<1> DEFINE Of(n) == {x \in load : x[1] = n}
           Texts1(n) == {l[2] : l \in Of(n)}
           Pick(n) == CHOOSE l \in load : l[1] = n
<1>1. \A l \in load : l \in Changed \X Texts
  BY DEF Payloads
<1>2. \A n \in Names : Texts1(n) \in SUBSET Texts
  BY <1>1
<1>3. \A n \in Names : (\E l \in load : l[1] = n) => Pick(n) \in load /\ Pick(n)[1] = n
  OBVIOUS
<1>4. got \in [Clients -> [Names -> SUBSET Texts]] /\ last \in [Clients -> [Names -> Texts]]
  BY DEF DeliveryTypes
<1>5. CASE ~online[c]
  BY <1>4, <1>5 DEF Send
<1>6. CASE online[c]
  <2> DEFINE g == [n \in Names |-> got[c][n] \cup Texts1(n)]
             r == [n \in Names |-> IF \E l \in load : l[1] = n THEN Pick(n)[2] ELSE last[c][n]]
  <2>1. got' = [got EXCEPT ![c] = g]
    BY <1>6 DEF Send, Receive
  <2>2. last' = [last EXCEPT ![c] = r]
    BY <1>6 DEF Send, Receive
  <2>3. g \in [Names -> SUBSET Texts]
    BY <1>2, <1>4
  <2>4. r \in [Names -> Texts]
    <3> SUFFICES ASSUME NEW n \in Names PROVE r[n] \in Texts
      OBVIOUS
    <3>1. CASE \E l \in load : l[1] = n
      <4>1. Pick(n) \in load
        BY <1>3, <3>1
      <4>2. Pick(n)[2] \in Texts
        BY <1>1, <4>1
      <4> QED BY <3>1, <4>2
    <3>2. CASE ~\E l \in load : l[1] = n
      BY <3>2, <1>4
    <3> QED BY <3>1, <3>2
  <2>5. \A n \in Names : \A v : <<n, v>> \in load => v \in Texts1(n)
    OBVIOUS
  <2>6. got'[c] = g /\ last'[c] = r
    BY <1>4, <2>1, <2>2
  <2>7. /\ got' \in [Clients -> [Names -> SUBSET Texts]]
        /\ \A e \in Clients : e # c => got'[e] = got[e]
    <3> HIDE DEF g
    <3> QED BY <1>4, <2>1, <2>3
  <2>8. /\ last' \in [Clients -> [Names -> Texts]]
        /\ \A e \in Clients : e # c => last'[e] = last[e]
    <3> HIDE DEF r
    <3> QED BY <1>4, <2>2, <2>4
  <2>9. \A n \in Names : got'[c][n] = got[c][n] \cup Texts1(n)
    <3> HIDE DEF Texts1
    <3> QED BY <2>6
  <2>10. ASSUME NEW n \in Names, \A l \in load : l[1] # n PROVE last'[c][n] = last[c][n]
    BY <2>6, <2>10
  <2>11. ASSUME NEW n \in Names, NEW l \in load, l[1] = n, \A k \in load : k[1] = n => k[2] = l[2]
         PROVE  last'[c][n] = l[2]
    <3>1. Pick(n) \in load /\ Pick(n)[1] = n
      BY <1>3, <2>11
    <3>2. last'[c][n] = Pick(n)[2]
      <4> HIDE DEF Pick
      <4> QED BY <2>6, <2>11
    <3> QED BY <2>11, <3>1, <3>2
  <2>12. online' = online /\ connects' = connects
    BY DEF Send
  <2> HIDE DEF Texts1, g, r
  <2> QED BY <2>5, <2>7, <2>8, <2>9, <2>10, <2>11, <2>12
<1> QED BY <1>5, <1>6

-----------------------------------------------------------------------------
(* Types *)

LEMMA NotifyTyped ==
  ASSUME DeliveryTypes, NEW id \in Nat, NEW n \in Changed, NEW v \in Texts, Notify(id, n, v),
         calls' \in Nat, calls <= calls', id <= calls'
  PROVE  notifying' \subseteq Notifications /\ \A j \in notifying' : j.id <= calls' /\ j.todo # <<>>
<1> DEFINE new == [id |-> id, name |-> n, value |-> v, todo |-> Targets(n)]
<1>1. new \in Notifications /\ new.id = id /\ new.todo # <<>>
  BY NamesAreWords, TargetsTyped DEF Notifications
<1>2. notifying' = notifying \cup {new}
  BY DEF Notify
<1>3. \A j \in notifying : j \in Notifications /\ j.id \in Nat /\ j.id <= calls /\ j.todo # <<>>
  BY DEF DeliveryTypes, Notifications
<1>4. calls \in Nat
  BY DEF DeliveryTypes
<1> HIDE DEF new
<1> QED BY <1>1, <1>2, <1>3, <1>4

LEMMA SettingTyped ==
  ASSUME DeliveryTypes, NEW n \in Names, NEW v \in Values, SetVar(n, v)
  PROVE  DeliveryTypes'
<1>1. calls' = calls + 1 /\ calls \in Nat /\ calls' \in Nat /\ calls <= calls'
  BY DEF SetVar, Setting, DeliveryTypes
<1>2. /\ value' \in [Names -> Texts]
      /\ \A x \in Names : HasStar(x) => value'[x] = Empty
  BY DEF SetVar, Setting, Stored, DeliveryTypes, Texts
<1>3. notifying' \subseteq Notifications /\ \A j \in notifying' : j.id <= calls' /\ j.todo # <<>>
  BY <1>1, NotifyTyped DEF SetVar, Setting, Changed, Texts
<1>4. deleting' \subseteq Deletions /\ \A d \in deleting' : d.id <= calls'
  <2> DEFINE Marked(d) == [d EXCEPT !.raced = @ \/ Covers(d.key, n)]
  <2>1. \A d \in deleting : d \in Deletions /\ d.id \in Nat /\ d.id <= calls
    BY DEF DeliveryTypes, Deletions
  <2>2. ASSUME NEW d \in deleting
        PROVE  Marked(d) \in Deletions /\ Marked(d).id = d.id
    <3>1. d \in Deletions
      BY <2>1
    <3>2. (d.raced \/ Covers(d.key, n)) \in BOOLEAN
      OBVIOUS
    <3> QED BY <3>1, <3>2 DEF Deletions
  <2>3. deleting' = {Marked(d) : d \in deleting}
    BY DEF SetVar, Setting
  <2> HIDE DEF Marked
  <2> QED BY <1>1, <2>1, <2>2, <2>3
<1> QED BY <1>1, <1>2, <1>3, <1>4 DEF SetVar, Setting, DeliveryTypes, client

LEMMA DeletingTyped ==
  ASSUME DeliveryTypes, NEW n \in Names, DelVar(n)
  PROVE  DeliveryTypes'
<1> DEFINE new == [id |-> calls, key |-> n, todo |-> Found(n), raced |-> FALSE]
<1>1. calls' = calls + 1 /\ calls \in Nat
  BY DEF DelVar, DeliveryTypes
<1>2. new \in Deletions /\ new.id = calls
  BY <1>1, FoundTyped DEF Deletions
<1>3. deleting' = deleting \cup {new}
  BY DEF DelVar
<1>4. \A d \in deleting : d \in Deletions /\ d.id \in Nat /\ d.id <= calls
  BY DEF DeliveryTypes, Deletions
<1>5. \A j \in notifying : j.id \in Nat /\ j.id <= calls /\ j.todo # <<>>
  BY DEF DeliveryTypes, Notifications
<1> HIDE DEF new
<1>6. deleting' \subseteq Deletions /\ \A d \in deleting' : d.id <= calls'
  BY <1>1, <1>2, <1>3, <1>4
<1>7. \A j \in notifying : j.id <= calls' /\ j.todo # <<>>
  BY <1>1, <1>5
<1>8. UNCHANGED <<value, sub, timeouts, notifying, inflight, resuming, client>>
  BY DEF DelVar
<1> QED BY <1>1, <1>6, <1>7, <1>8 DEF DeliveryTypes, client

LEMMA DelVarNextTyped ==
  ASSUME DeliveryTypes, NEW d \in deleting, DelVarNext(d)
  PROVE  DeliveryTypes'
<1>1. d \in Deletions /\ d.id \in Nat /\ d.id <= calls /\ calls \in Nat
  BY DEF DeliveryTypes, Deletions
<1>2. PICK n \in d.todo :
         /\ value' = [x \in Names |-> IF x = n THEN Empty ELSE value[x]]
         /\ Notify(d.id, n, Empty)
         /\ deleting' = (deleting \ {d}) \cup
                           (IF d.todo = {n} THEN {} ELSE {[d EXCEPT !.todo = @ \ {n}]})
         /\ UNCHANGED <<sub, calls, timeouts, inflight, resuming, client, missed>>
  BY DEF DelVarNext
<1>3. n \in Changed /\ Empty \in Texts
  BY <1>1 DEF Deletions, Texts
<1>4. notifying' \subseteq Notifications /\ \A j \in notifying' : j.id <= calls' /\ j.todo # <<>>
  BY <1>1, <1>2, <1>3, NotifyTyped
<1>5. /\ value' \in [Names -> Texts]
      /\ \A x \in Names : HasStar(x) => value'[x] = Empty
  BY <1>2, <1>3 DEF DeliveryTypes
<1>6. [d EXCEPT !.todo = @ \ {n}] \in Deletions /\ [d EXCEPT !.todo = @ \ {n}].id = d.id
  BY <1>1 DEF Deletions
<1>7. deleting' \subseteq Deletions /\ \A e \in deleting' : e.id <= calls'
  <2>1. \A e \in deleting : e \in Deletions /\ e.id <= calls
    BY DEF DeliveryTypes
  <2> QED BY <1>1, <1>2, <1>6, <2>1
<1> QED BY <1>2, <1>4, <1>5, <1>7 DEF DeliveryTypes, client

LEMMA TailPlaces ==
  ASSUME NEW S, NEW s \in Seq(S), s # <<>>
  PROVE  /\ Len(s) \in Nat \ {0} /\ Head(s) = s[1]
         /\ \A i \in 1..Len(Tail(s)) : i + 1 \in 1..Len(s) /\ Tail(s)[i] = s[i + 1]
         /\ \A i \in 1..Len(s) : s[i] # Head(s) =>
               i - 1 \in 1..Len(Tail(s)) /\ Tail(s)[i - 1] = s[i] /\ Len(s) # 1
OBVIOUS

(* A notification after the visit of its first list, if it goes on. *)
LEMMA VisitedStep ==
  ASSUME DeliveryTypes, NEW j \in notifying, Visited(j)
  PROVE  /\ j \in Notifications /\ j.todo \in Seq(Seq(Words)) /\ j.todo # <<>>
         /\ Head(j.todo) = j.todo[1] /\ 1 \in 1..Len(j.todo)
         /\ notifying' \subseteq Notifications
         /\ \A i \in notifying' : i.id <= calls /\ i.todo # <<>>
         /\ \A i \in notifying' : i \in notifying \/
               /\ i.id = j.id /\ i.name = j.name /\ i.value = j.value
               /\ \A a \in 1..Len(i.todo) : a + 1 \in 1..Len(j.todo) /\ i.todo[a] = j.todo[a + 1]
         /\ \A i \in notifying : i # j => i \in notifying'
         /\ \A a \in 1..Len(j.todo) : j.todo[a] # Head(j.todo) =>
               \E i \in notifying' :
                  /\ i.id = j.id /\ i.name = j.name /\ i.value = j.value
                  /\ \E b \in 1..Len(i.todo) : i.todo[b] = j.todo[a]
<1> DEFINE rest == [j EXCEPT !.todo = Tail(@)]
<1>1. /\ j \in Notifications /\ j.id <= calls
      /\ j.todo \in Seq(Seq(Words)) /\ j.todo # <<>>
  BY DEF DeliveryTypes, Notifications
<1>2. /\ Len(j.todo) \in Nat \ {0} /\ Head(j.todo) = j.todo[1]
      /\ \A i \in 1..Len(Tail(j.todo)) : i + 1 \in 1..Len(j.todo) /\ Tail(j.todo)[i] = j.todo[i + 1]
      /\ \A i \in 1..Len(j.todo) : j.todo[i] # Head(j.todo) =>
            i - 1 \in 1..Len(Tail(j.todo)) /\ Tail(j.todo)[i - 1] = j.todo[i] /\ Len(j.todo) # 1
  <2> HIDE DEF rest
  <2> QED BY <1>1, TailPlaces
<1>3. rest.id = j.id /\ rest.name = j.name /\ rest.value = j.value /\ rest.todo = Tail(j.todo)
  BY <1>1 DEF Notifications
<1>4. Len(j.todo) # 1 => rest \in Notifications /\ rest.id = j.id /\ rest.todo # <<>>
  <2>1. Tail(j.todo) \in Seq(Seq(Words)) /\ Len(Tail(j.todo)) = Len(j.todo) - 1
    BY <1>1
  <2>2. Len(j.todo) # 1 => Tail(j.todo) # <<>>
    <3>1. Len(j.todo) \in Nat
      BY <1>1
    <3>2. Tail(j.todo) = <<>> <=> Len(Tail(j.todo)) = 0
      BY <2>1, EmptySeq, Zenon
    <3> QED BY <2>1, <3>1, <3>2
  <2> QED BY <1>1, <2>1, <2>2 DEF Notifications
<1>5. notifying' = (notifying \ {j}) \cup (IF Len(j.todo) = 1 THEN {} ELSE {rest})
  BY DEF Visited
<1>6. 1 \in 1..Len(j.todo)
  BY <1>2
<1> HIDE DEF rest
<1>7. \A i \in notifying' : i \in notifying \/ i = rest
  BY <1>5
<1>8. \A i \in notifying : i # j => i \in notifying'
  BY <1>5
<1>9. ASSUME NEW a \in 1..Len(j.todo), j.todo[a] # Head(j.todo)
      PROVE  rest \in notifying' /\ a - 1 \in 1..Len(rest.todo) /\ rest.todo[a - 1] = j.todo[a]
  BY <1>2, <1>3, <1>5, <1>9
<1>10. notifying' \subseteq Notifications /\ \A i \in notifying' : i.id <= calls /\ i.todo # <<>>
  <2>1. \A i \in notifying : i \in Notifications /\ i.id <= calls /\ i.todo # <<>>
    BY DEF DeliveryTypes
  <2> QED BY <1>1, <1>4, <1>5, <2>1
<1>11. \A i \in notifying' : i \in notifying \/
               /\ i.id = j.id /\ i.name = j.name /\ i.value = j.value
               /\ \A a \in 1..Len(i.todo) : a + 1 \in 1..Len(j.todo) /\ i.todo[a] = j.todo[a + 1]
  BY <1>2, <1>3, <1>7
<1>12. \A a \in 1..Len(j.todo) : j.todo[a] # Head(j.todo) =>
               \E i \in notifying' :
                  /\ i.id = j.id /\ i.name = j.name /\ i.value = j.value
                  /\ \E b \in 1..Len(i.todo) : i.todo[b] = j.todo[a]
  BY <1>3, <1>9
<1> QED BY <1>1, <1>2, <1>6, <1>8, <1>10, <1>11, <1>12

(* The messages that a visit starts: one to each observer. *)
LEMMA NotifyNextStep ==
  ASSUME DeliveryTypes, NEW j \in notifying, NotifyNext(j)
  PROVE  /\ Visited(j) /\ UNCHANGED <<value, sub, calls, timeouts, deleting, resuming, client, missed, crossed>>
         /\ inflight' \subseteq Messages
         /\ \A m \in inflight' : m \in inflight \/
               (m.name = j.name /\ m.value = j.value /\ m.via = Head(j.todo))
         /\ inflight \subseteq inflight'
         /\ \A c \in Observers(Head(j.todo)) : \E m \in inflight' :
               m.to = c /\ m.name = j.name /\ m.value = j.value
<1> DEFINE k == Head(j.todo)
           msg(c) == [id |-> j.id, name |-> j.name, value |-> j.value, via |-> k, to |-> c]
           told == {msg(c) : c \in Observers(k)}
<1>1. /\ j.id \in Nat /\ j.name \in Changed /\ j.value \in Texts
      /\ j.todo \in Seq(Seq(Words)) /\ j.todo # <<>>
  BY DEF DeliveryTypes, Notifications
<1>2. k \in Seq(Words)
  BY <1>1
<1>3. \A c \in Observers(k) :
         /\ msg(c) \in Messages
         /\ msg(c).to = c /\ msg(c).name = j.name /\ msg(c).value = j.value /\ msg(c).via = k
  BY <1>1, <1>2 DEF Messages, Observers
<1>4. inflight' = inflight \cup told
  BY DEF NotifyNext
<1>5. Visited(j) /\ UNCHANGED <<value, sub, calls, timeouts, deleting, resuming, client, missed, crossed>>
  BY DEF NotifyNext
<1>6. inflight \subseteq Messages
  BY DEF DeliveryTypes
<1>7. k = Head(j.todo)
  OBVIOUS
<1> HIDE DEF k, msg
<1>8. \A m \in inflight' : m \in inflight \/ \E c \in Observers(k) : m = msg(c)
  BY <1>4
<1>9. \A c \in Observers(k) : msg(c) \in inflight'
  BY <1>4
<1>10. inflight \subseteq inflight'
  BY <1>4
<1>11. inflight' \subseteq Messages
  BY <1>3, <1>6, <1>8
<1>12. \A m \in inflight' : m \in inflight \/
               (m.name = j.name /\ m.value = j.value /\ m.via = Head(j.todo))
  BY <1>3, <1>7, <1>8
<1>13. \A c \in Observers(Head(j.todo)) : \E m \in inflight' :
               m.to = c /\ m.name = j.name /\ m.value = j.value
  BY <1>3, <1>7, <1>9
<1> QED BY <1>5, <1>10, <1>11, <1>12, <1>13

(* A visit that times out starts none. *)
LEMMA NotifyNobodyStep ==
  ASSUME NEW j \in notifying, NotifyNobody(j)
  PROVE  /\ Visited(j) /\ timeouts' <= MaxTimeouts
         /\ UNCHANGED <<value, sub, calls, deleting, inflight, resuming, client, crossed>>
         /\ missed \subseteq missed'
         /\ Head(j.todo) = j.name => \A c \in Observers(j.name) : <<c, j.name>> \in missed'
BY DEF NotifyNobody, TimesOut

LEMMA VisitTyped ==
  ASSUME DeliveryTypes, NEW j \in notifying, NotifyNext(j) \/ NotifyNobody(j)
  PROVE  DeliveryTypes'
<1>1. CASE NotifyNext(j)
  <2>1. /\ notifying' \subseteq Notifications
        /\ \A i \in notifying' : i.id <= calls /\ i.todo # <<>>
    BY <1>1, NotifyNextStep, VisitedStep
  <2>2. /\ inflight' \subseteq Messages
        /\ UNCHANGED <<value, sub, calls, timeouts, deleting, resuming, client>>
    BY <1>1, NotifyNextStep
  <2> QED BY <2>1, <2>2 DEF DeliveryTypes, client
<1>2. CASE NotifyNobody(j)
  <2>1. /\ notifying' \subseteq Notifications
        /\ \A i \in notifying' : i.id <= calls /\ i.todo # <<>>
    BY <1>2, NotifyNobodyStep, VisitedStep
  <2>2. /\ timeouts' <= MaxTimeouts
        /\ UNCHANGED <<value, sub, calls, deleting, inflight, resuming, client>>
    BY <1>2, NotifyNobodyStep
  <2> QED BY <2>1, <2>2 DEF DeliveryTypes, client
<1> QED BY <1>1, <1>2

(* The steps that send. *)
LEMMA DeliverTyped ==
  ASSUME DeliveryTypes, NEW m \in inflight, Deliver(m)
  PROVE  DeliveryTypes'
<1>1. m.to \in Clients /\ {<<m.name, m.value>>} \in Payloads
  BY DEF DeliveryTypes, Messages, Payloads
<1>2. Send(m.to, {<<m.name, m.value>>})
  BY DEF Deliver
<1>3. /\ online' = online /\ connects' = connects
      /\ got' \in [Clients -> [Names -> SUBSET Texts]]
      /\ last' \in [Clients -> [Names -> Texts]]
  BY <1>1, <1>2, SendStep
<1>4. inflight' \subseteq Messages
  BY DEF Deliver, DeliveryTypes
<1> QED BY <1>3, <1>4 DEF Deliver, DeliveryTypes

LEMMA LoadsArePayloads == \A load \in Loads : load \in Payloads
BY DEF Loads, Payloads, Changed, Texts

Subs == [pc : {"none", "registered", "read", "done", "gone"}, load : Loads,
         listed : BOOLEAN, own : BOOLEAN]

LEMMA SetSubStep ==
  ASSUME DeliveryTypes, NEW c \in Clients, NEW n \in Names, NEW s \in Subs, SetSub(c, n, s)
  PROVE  /\ sub' \in [Clients -> [Names -> Subs]]
         /\ sub'[c][n] = s
         /\ \A e \in Clients, k \in Names : e # c \/ k # n => sub'[e][k] = sub[e][k]
         /\ value' = value /\ calls' = calls /\ crossed' = crossed /\ missed' = missed
         /\ deleting' = deleting /\ notifying' = notifying /\ inflight' = inflight
         /\ resuming' = resuming
<1>1. sub \in [Clients -> [Names -> Subs]]
  BY DEF DeliveryTypes, Subs
<1>2. sub' = [sub EXCEPT ![c][n] = s]
  BY DEF SetSub
<1> QED BY <1>1, <1>2 DEF SetSub, jobs

(* The four steps of an observation, each with the record it leaves. *)
LEMMA SubSteps ==
  ASSUME DeliveryTypes, NEW c \in Clients, NEW n \in Names
  PROVE  /\ ObserveVar(c, n) =>
               \E s \in Subs :
                   /\ SetSub(c, n, s) /\ s.pc = "registered" /\ s.load = {}
                   /\ sub[c][n].pc = "none" /\ timeouts' <= MaxTimeouts /\ due' = due
                   /\ online' = online /\ connects' = connects
                   /\ got' = [got EXCEPT ![c][n] = {}] /\ last' = [last EXCEPT ![c][n] = Empty]
         /\ ReadCurrent(c, n) =>
               \E s \in Subs :
                   /\ SetSub(c, n, s) /\ s.pc = "read" /\ s.load = GetVarInternal(n)
                   /\ s.listed = sub[c][n].listed /\ s.own = sub[c][n].own
                   /\ sub[c][n].pc = "registered" /\ timeouts' = timeouts /\ UNCHANGED client /\ due' = due
         /\ SendCurrent(c, n) =>
               \E s \in Subs :
                   /\ SetSub(c, n, s) /\ s.pc = "done" /\ s.load = {}
                   /\ s.listed = sub[c][n].listed /\ s.own = sub[c][n].own
                   /\ sub[c][n].pc = "read" /\ timeouts' = timeouts
                   /\ sub[c][n].load \in Loads /\ Send(c, sub[c][n].load) /\ due' = due
         /\ StopObservingVar(c, n) =>
               \E s \in Subs :
                   /\ SetSub(c, n, s) /\ s.pc = "gone" /\ s.load = sub[c][n].load
                   /\ sub[c][n].pc = "done" /\ timeouts' <= MaxTimeouts /\ UNCHANGED client
                   /\ due' = {d \in due : ~(d[3] = c /\ d[4] = n)}
<1>0. {} \in Loads
  BY DEF Loads
<1>1. sub[c][n] \in Subs
  BY DEF DeliveryTypes, Subs
<1>2. ASSUME ObserveVar(c, n)
      PROVE  \E s \in Subs :
                   /\ SetSub(c, n, s) /\ s.pc = "registered" /\ s.load = {}
                   /\ sub[c][n].pc = "none" /\ timeouts' <= MaxTimeouts /\ due' = due
                   /\ online' = online /\ connects' = connects
                   /\ got' = [got EXCEPT ![c][n] = {}] /\ last' = [last EXCEPT ![c][n] = Empty]
  <2>1. PICK left \in SUBSET Lists :
          /\ TimesOut(left)
          /\ SetSub(c, n, [pc |-> "registered", load |-> {},
                           listed |-> "variable" \notin left, own |-> "client" \notin left])
    BY <1>2 DEF ObserveVar
  <2> DEFINE s == [pc |-> "registered", load |-> {},
                   listed |-> "variable" \notin left, own |-> "client" \notin left]
  <2>2. s \in Subs /\ s.pc = "registered" /\ s.load = {}
    BY <1>0 DEF Subs
  <2>3. SetSub(c, n, s)
    BY <2>1
  <2>4. timeouts' <= MaxTimeouts
    BY <2>1 DEF TimesOut
  <2> HIDE DEF s
  <2> QED BY <1>2, <2>2, <2>3, <2>4 DEF ObserveVar
<1>3. ASSUME ReadCurrent(c, n)
      PROVE  \E s \in Subs :
                   /\ SetSub(c, n, s) /\ s.pc = "read" /\ s.load = GetVarInternal(n)
                   /\ s.listed = sub[c][n].listed /\ s.own = sub[c][n].own
                   /\ sub[c][n].pc = "registered" /\ timeouts' = timeouts /\ UNCHANGED client /\ due' = due
  <2> DEFINE s == [sub[c][n] EXCEPT !.pc = "read", !.load = GetVarInternal(n)]
  <2>1. /\ s \in Subs /\ s.pc = "read" /\ s.load = GetVarInternal(n)
        /\ s.listed = sub[c][n].listed /\ s.own = sub[c][n].own
    BY <1>1, ReadsCurrent DEF Subs
  <2>2. SetSub(c, n, s)
    BY <1>3 DEF ReadCurrent
  <2> HIDE DEF s
  <2> QED BY <1>3, <2>1, <2>2 DEF ReadCurrent
<1>4. ASSUME SendCurrent(c, n)
      PROVE  \E s \in Subs :
                   /\ SetSub(c, n, s) /\ s.pc = "done" /\ s.load = {}
                   /\ s.listed = sub[c][n].listed /\ s.own = sub[c][n].own
                   /\ sub[c][n].pc = "read" /\ timeouts' = timeouts
                   /\ sub[c][n].load \in Loads /\ Send(c, sub[c][n].load) /\ due' = due
  <2> DEFINE s == [sub[c][n] EXCEPT !.pc = "done", !.load = {}]
  <2>1. /\ s \in Subs /\ s.pc = "done" /\ s.load = {}
        /\ s.listed = sub[c][n].listed /\ s.own = sub[c][n].own
        /\ sub[c][n].load \in Loads
    BY <1>0, <1>1 DEF Subs
  <2>2. SetSub(c, n, s)
    BY <1>4 DEF SendCurrent
  <2> HIDE DEF s
  <2> QED BY <1>4, <2>1, <2>2 DEF SendCurrent
<1>5. ASSUME StopObservingVar(c, n)
      PROVE  \E s \in Subs :
                   /\ SetSub(c, n, s) /\ s.pc = "gone" /\ s.load = sub[c][n].load
                   /\ sub[c][n].pc = "done" /\ timeouts' <= MaxTimeouts /\ UNCHANGED client
                   /\ due' = {d \in due : ~(d[3] = c /\ d[4] = n)}
  <2>1. PICK left \in SUBSET Lists :
          /\ TimesOut(left)
          /\ SetSub(c, n, [sub[c][n] EXCEPT !.pc = "gone", !.listed = @ /\ "variable" \in left,
                                            !.own = @ /\ "client" \in left])
    BY <1>5 DEF StopObservingVar
  <2> DEFINE s == [sub[c][n] EXCEPT !.pc = "gone", !.listed = @ /\ "variable" \in left,
                                    !.own = @ /\ "client" \in left]
  <2>2. s \in Subs /\ s.pc = "gone" /\ s.load = sub[c][n].load
    BY <1>1 DEF Subs
  <2>3. SetSub(c, n, s)
    BY <2>1
  <2>4. timeouts' <= MaxTimeouts
    BY <2>1 DEF TimesOut
  <2> HIDE DEF s
  <2> QED BY <1>5, <2>2, <2>3, <2>4 DEF StopObservingVar
<1> QED BY <1>2, <1>3, <1>4, <1>5

LEMMA SubTyped ==
  ASSUME DeliveryTypes, NEW c \in Clients, NEW n \in Names,
         ObserveVar(c, n) \/ ReadCurrent(c, n) \/ SendCurrent(c, n) \/ StopObservingVar(c, n)
  PROVE  DeliveryTypes'
<1>1. \E s \in Subs : SetSub(c, n, s)
  BY SubSteps
<1>2. /\ sub' \in [Clients -> [Names -> Subs]]
      /\ UNCHANGED <<value, calls, deleting, notifying, inflight, resuming>>
  BY <1>1, SetSubStep
<1>3. timeouts' <= MaxTimeouts
  BY SubSteps DEF DeliveryTypes
<1>4. /\ online' = online /\ connects' = connects
      /\ got' \in [Clients -> [Names -> SUBSET Texts]]
      /\ last' \in [Clients -> [Names -> Texts]]
  <2>1. CASE ObserveVar(c, n)
    <3>1. /\ online' = online /\ connects' = connects
          /\ got' = [got EXCEPT ![c][n] = {}] /\ last' = [last EXCEPT ![c][n] = Empty]
      BY <2>1 DEF ObserveVar
    <3> QED BY <3>1 DEF DeliveryTypes, Texts
  <2>2. CASE ReadCurrent(c, n) \/ StopObservingVar(c, n)
    BY <2>2, SubSteps DEF DeliveryTypes, client
  <2>3. CASE SendCurrent(c, n)
    BY <2>3, SubSteps, LoadsArePayloads, SendStep
  <2> QED BY <2>1, <2>2, <2>3
<1> QED BY <1>2, <1>3, <1>4 DEF DeliveryTypes, Subs

LEMMA ConnectionTyped ==
  ASSUME DeliveryTypes, NEW c \in Clients, Disconnects(c) \/ ClientConnected(c)
  PROVE  DeliveryTypes'
<1>1. CASE Disconnects(c)
  BY <1>1 DEF Disconnects, DeliveryTypes, jobs
<1>2. CASE ClientConnected(c)
  <2>1. online' \in [Clients -> BOOLEAN] /\ connects' \in [Clients -> Nat]
    BY <1>2 DEF ClientConnected, DeliveryTypes
  <2>2. resuming' \in [Clients -> Resumes]
    <3>1. resuming[c] \in Resumes /\ resuming[c].pc = "idle"
      BY <1>2 DEF ClientConnected, DeliveryTypes
    <3>2. resuming[c] \in [pc : {"idle", "list", "read"}, todo : SUBSET Names, load : {{}}]
      BY <3>1 DEF Resumes
    <3>3. [resuming[c] EXCEPT !.pc = "list"] \in Resumes
      BY <3>2 DEF Resumes
    <3>4. resuming' = [resuming EXCEPT ![c] = [resuming[c] EXCEPT !.pc = "list"]]
      BY <1>2 DEF ClientConnected, DeliveryTypes
    <3> QED BY <3>3, <3>4 DEF DeliveryTypes
  <2>3. /\ got' \in [Clients -> [Names -> SUBSET Texts]]
        /\ last' \in [Clients -> [Names -> Texts]]
    BY <1>2 DEF ClientConnected, DeliveryTypes, Texts
  <2>4. UNCHANGED <<value, sub, calls, timeouts, deleting, notifying, inflight>>
    BY <1>2 DEF ClientConnected
  <2> QED BY <2>1, <2>2, <2>3, <2>4 DEF DeliveryTypes
<1> QED BY <1>1, <1>2

(* What NextOf makes of a list. *)
LEMMA NextOfTyped ==
  ASSUME NEW todo \in SUBSET Names
  PROVE  /\ NextOf(todo) \in Resumes
         /\ todo = {} => NextOf(todo).pc = "idle"
         /\ todo # {} => NextOf(todo).pc = "read" /\ NextOf(todo).todo = todo
         /\ NextOf(todo).pc # "send"
         /\ NoResume \in Resumes /\ NoResume.pc = "idle"
BY DEF NextOf, NoResume, Resumes

(* The three steps of a return, each with the record it leaves. *)
LEMMA ResumingSteps ==
  ASSUME DeliveryTypes, NEW c \in Clients
  PROVE  /\ ListObserving(c) =>
               \E todo \in SUBSET Names :
                   /\ resuming[c].pc = "list"
                   /\ \A n \in Names : sub[c][n].pc \in {"read", "done"} /\ sub[c][n].own => n \in todo
                   /\ Resuming(c, NextOf(todo))
                   /\ UNCHANGED client
         /\ ReadObserved(c) =>
               \E n \in Names :
                   /\ resuming[c].pc = "read" /\ n \in resuming[c].todo
                   /\ Resuming(c, [pc |-> "send", key |-> n, todo |-> resuming[c].todo \ {n},
                                   load |-> GetVarInternal(n)])
                   /\ UNCHANGED client
                   /\ [pc |-> "send", key |-> n, todo |-> resuming[c].todo \ {n},
                       load |-> GetVarInternal(n)] \in Resumes
         /\ SendObserved(c) =>
               /\ resuming[c].pc = "send"
               /\ resuming[c].load \in Loads /\ resuming[c].key \in Names
               /\ resuming[c].todo \in SUBSET Names
               /\ Resuming(c, IF online[c] THEN NextOf(resuming[c].todo) ELSE NoResume)
               /\ Send(c, resuming[c].load)
<1>0. resuming[c] \in Resumes
  BY DEF DeliveryTypes
<1>1. ASSUME ListObserving(c)
      PROVE  \E todo \in SUBSET Names :
                   /\ resuming[c].pc = "list"
                   /\ \A n \in Names : sub[c][n].pc \in {"read", "done"} /\ sub[c][n].own => n \in todo
                   /\ Resuming(c, NextOf(todo))
                   /\ UNCHANGED client
  <2>1. PICK new \in SUBSET {n \in Names : sub[c][n].pc = "registered" /\ sub[c][n].own} :
          Resuming(c, NextOf(new \cup {n \in Names : sub[c][n].pc # "registered" /\ sub[c][n].own}))
    BY <1>1 DEF ListObserving
  <2> DEFINE todo == new \cup {n \in Names : sub[c][n].pc # "registered" /\ sub[c][n].own}
  <2>2. /\ todo \in SUBSET Names
        /\ \A n \in Names : sub[c][n].pc \in {"read", "done"} /\ sub[c][n].own => n \in todo
    OBVIOUS
  <2>3. Resuming(c, NextOf(todo)) /\ resuming[c].pc = "list" /\ UNCHANGED client
    BY <1>1, <2>1 DEF ListObserving
  <2> HIDE DEF todo
  <2> QED BY <2>2, <2>3
<1>2. ASSUME ReadObserved(c)
      PROVE  \E n \in Names :
                   /\ resuming[c].pc = "read" /\ n \in resuming[c].todo
                   /\ Resuming(c, [pc |-> "send", key |-> n, todo |-> resuming[c].todo \ {n},
                                   load |-> GetVarInternal(n)])
                   /\ UNCHANGED client
                   /\ [pc |-> "send", key |-> n, todo |-> resuming[c].todo \ {n},
                       load |-> GetVarInternal(n)] \in Resumes
  <2>1. resuming[c].todo \in SUBSET Names
    BY <1>0 DEF Resumes
  <2>2. \A n \in Names : [pc |-> "send", key |-> n, todo |-> resuming[c].todo \ {n},
                          load |-> GetVarInternal(n)] \in Resumes
    BY <2>1, ReadsCurrent DEF Resumes
  <2> QED BY <1>2, <2>1, <2>2 DEF ReadObserved
<1>3. ASSUME SendObserved(c)
      PROVE  /\ resuming[c].pc = "send"
             /\ resuming[c].load \in Loads /\ resuming[c].key \in Names
             /\ resuming[c].todo \in SUBSET Names
             /\ Resuming(c, IF online[c] THEN NextOf(resuming[c].todo) ELSE NoResume)
             /\ Send(c, resuming[c].load)
  <2>1. resuming[c].pc = "send"
    BY <1>3 DEF SendObserved
  <2>2. resuming[c] \in [pc : {"send"}, key : Names, todo : SUBSET Names, load : Loads]
    BY <1>0, <2>1 DEF Resumes
  <2> QED BY <1>3, <2>1, <2>2 DEF SendObserved
<1> QED BY <1>1, <1>2, <1>3

LEMMA ResumingTyped ==
  ASSUME DeliveryTypes, NEW c \in Clients, ListObserving(c) \/ ReadObserved(c) \/ SendObserved(c)
  PROVE  DeliveryTypes'
<1>1. ASSUME NEW r \in Resumes, Resuming(c, r)
      PROVE  /\ resuming' \in [Clients -> Resumes]
             /\ UNCHANGED <<value, sub, calls, timeouts, deleting, notifying, inflight>>
  BY <1>1 DEF Resuming, DeliveryTypes
<1>2. CASE ListObserving(c)
  BY <1>1, <1>2, ResumingSteps, NextOfTyped DEF DeliveryTypes, client
<1>3. CASE ReadObserved(c)
  BY <1>1, <1>3, ResumingSteps DEF DeliveryTypes, client
<1>4. CASE SendObserved(c)
  <2>1. (IF online[c] THEN NextOf(resuming[c].todo) ELSE NoResume) \in Resumes
    BY <1>4, ResumingSteps, NextOfTyped
  <2>2. /\ online' = online /\ connects' = connects
        /\ got' \in [Clients -> [Names -> SUBSET Texts]]
        /\ last' \in [Clients -> [Names -> Texts]]
    BY <1>4, ResumingSteps, LoadsArePayloads, SendStep
  <2> QED BY <1>1, <1>4, <2>1, <2>2, ResumingSteps DEF DeliveryTypes
<1> QED BY <1>2, <1>3, <1>4

LEMMA TypesInit == DeliveryInit => DeliveryTypes
<1> SUFFICES ASSUME DeliveryInit PROVE DeliveryTypes
  OBVIOUS
<1>1. NoSub \in Subs
  BY DEF NoSub, Subs, Loads
<1>2. NoResume \in Resumes
  BY NextOfTyped
<1>3. 0 <= MaxTimeouts
  BY DeliveryAssumption
<1> QED BY <1>1, <1>2, <1>3 DEF DeliveryInit, DeliveryTypes, Subs, Texts

LEMMA TypesStep ==
  ASSUME DeliveryTypes, [DeliveryNext]_vars
  PROVE  DeliveryTypes'
<1>1. CASE UNCHANGED vars
  BY <1>1 DEF vars, jobs, client, DeliveryTypes
<1>2. CASE Changes
  BY <1>2, SettingTyped, DeletingTyped DEF Changes
<1>3. CASE Goroutines
  BY <1>3, DelVarNextTyped, VisitTyped, DeliverTyped, ResumingTyped, SubTyped DEF Goroutines
<1>4. CASE Requests
  BY <1>4, ConnectionTyped, SubTyped DEF Requests
<1> QED BY <1>1, <1>2, <1>3, <1>4 DEF DeliveryNext

-----------------------------------------------------------------------------
(* Who is told: MatchesAreTold *)

(* What a step may do to the notifications. *)
LEMMA NotificationSteps ==
  ASSUME DeliveryTypes, [DeliveryNext]_vars
  PROVE  \/ \E id \in Nat, n \in Changed, v \in Texts :
               Notify(id, n, v) /\ inflight' = inflight /\ sub' = sub
         \/ \E j \in notifying : NotifyNext(j) \/ NotifyNobody(j)
         \/ \E m \in inflight : Deliver(m)
         \/ notifying' = notifying /\ inflight' = inflight /\ due' \subseteq due
<1>1. CASE UNCHANGED vars
  BY <1>1 DEF vars, jobs, record
<1>2. ASSUME NEW n \in Names, NEW v \in Values, SetVar(n, v)
      PROVE  /\ Notify(calls, n, v) /\ inflight' = inflight /\ sub' = sub
             /\ calls \in Nat /\ n \in Changed /\ v \in Texts
  BY <1>2 DEF SetVar, Setting, DeliveryTypes, Changed, Texts
<1>3. ASSUME NEW n \in Names, DelVar(n)
      PROVE  notifying' = notifying /\ inflight' = inflight /\ due' = due
  BY <1>3 DEF DelVar, record
<1>4. ASSUME NEW d \in deleting, DelVarNext(d)
      PROVE  \E n \in Changed : /\ Notify(d.id, n, Empty) /\ inflight' = inflight /\ sub' = sub
                                /\ d.id \in Nat /\ Empty \in Texts
  BY <1>4 DEF DelVarNext, DeliveryTypes, Deletions, Texts
<1>5. ASSUME NEW c \in Clients, ListObserving(c) \/ ReadObserved(c) \/ SendObserved(c)
      PROVE  notifying' = notifying /\ inflight' = inflight /\ due' = due
  BY <1>5 DEF ListObserving, ReadObserved, SendObserved, Resuming, record
<1>6. ASSUME NEW c \in Clients, NEW n \in Names,
             ReadCurrent(c, n) \/ SendCurrent(c, n) \/ ObserveVar(c, n) \/ StopObservingVar(c, n)
      PROVE  notifying' = notifying /\ inflight' = inflight /\ due' \subseteq due
  BY <1>6, SubSteps, SetSubStep
<1>7. ASSUME NEW c \in Clients, Disconnects(c) \/ ClientConnected(c)
      PROVE  notifying' = notifying /\ inflight' = inflight /\ due' = due
  BY <1>7 DEF Disconnects, ClientConnected, jobs, record
<1>8. CASE Changes
  BY <1>2, <1>3, <1>8 DEF Changes
<1>9. CASE Goroutines
  BY <1>4, <1>5, <1>6, <1>9 DEF Goroutines
<1>10. CASE Requests
  BY <1>6, <1>7, <1>10 DEF Requests
<1> QED BY <1>1, <1>8, <1>9, <1>10 DEF DeliveryNext

LEMMA MatchesStep ==
  ASSUME DeliveryTypes, OnlyMatches, [DeliveryNext]_vars
  PROVE  OnlyMatches'
<1>1. ASSUME NEW id \in Nat, NEW n \in Changed, NEW v \in Texts,
             Notify(id, n, v), inflight' = inflight
      PROVE  OnlyMatches'
  <2> DEFINE new == [id |-> id, name |-> n, value |-> v, todo |-> Targets(n)]
  <2>1. \A i \in 1..Len(Targets(n)) : Matches(Targets(n)[i], n)
    BY NamesAreWords, TargetsAreTheMatches
  <2>2. notifying' = notifying \cup {new}
    BY <1>1 DEF Notify
  <2>3. new.name = n /\ new.todo = Targets(n)
    OBVIOUS
  <2> HIDE DEF new
  <2> QED BY <1>1, <2>1, <2>2, <2>3 DEF OnlyMatches, Matches
<1>2. ASSUME NEW j \in notifying, NotifyNext(j) \/ NotifyNobody(j) PROVE OnlyMatches'
  <2>0. Visited(j)
    BY <1>2, NotifyNextStep, NotifyNobodyStep
  <2>1. \A i \in 1..Len(j.todo) : Matches(j.todo[i], j.name)
    BY DEF OnlyMatches
  <2>2. ASSUME NEW i \in notifying', NEW a \in 1..Len(i.todo) PROVE Matches(i.todo[a], i.name)
    <3>1. CASE i \in notifying
      BY <3>1 DEF OnlyMatches
    <3>2. CASE /\ i.name = j.name
               /\ \A b \in 1..Len(i.todo) : b + 1 \in 1..Len(j.todo) /\ i.todo[b] = j.todo[b + 1]
      BY <2>1, <3>2
    <3> QED BY <2>0, <3>1, <3>2, VisitedStep
  <2>3. ASSUME NEW m \in inflight' PROVE Matches(m.via, m.name)
    <3>1. CASE m \in inflight
      BY <3>1 DEF OnlyMatches
    <3>2. CASE m.name = j.name /\ m.via = Head(j.todo)
      <4>1. Head(j.todo) = j.todo[1] /\ 1 \in 1..Len(j.todo)
        BY <2>0, VisitedStep
      <4> QED BY <2>1, <3>2, <4>1
    <3> QED BY <1>2, <3>1, <3>2, NotifyNextStep, NotifyNobodyStep
  <2> QED BY <2>2, <2>3 DEF OnlyMatches, Matches
<1>3. ASSUME NEW m \in inflight, Deliver(m) PROVE OnlyMatches'
  BY <1>3 DEF Deliver, OnlyMatches, Matches
<1>4. CASE notifying' = notifying /\ inflight' = inflight
  BY <1>4 DEF OnlyMatches, Matches
<1> QED BY <1>1, <1>2, <1>3, <1>4, NotificationSteps

LEMMA DueStep ==
  ASSUME DeliveryTypes, DueIsPlanned, DueIsListed, [DeliveryNext]_vars
  PROVE  DueIsPlanned'
<1> DEFINE Planned(d, j) == /\ j.id = d[1] /\ j.name = d[2]
                            /\ \E i \in 1..Len(j.todo) : j.todo[i] = d[4]
<1>0. \A d \in due : \E j \in notifying : Planned(d, j)
  BY DEF DueIsPlanned
<1>1. ASSUME NEW id \in Nat, NEW n \in Changed, NEW v \in Texts, Notify(id, n, v)
      PROVE  DueIsPlanned'
  <2> DEFINE new == [id |-> id, name |-> n, value |-> v, todo |-> Targets(n)]
  <2>1. \A k \in Names : Matches(k, n) => \E i \in 1..Len(Targets(n)) : Targets(n)[i] = k
    BY NamesAreWords, TargetsAreTheMatches
  <2>2. notifying' = notifying \cup {new}
    BY <1>1 DEF Notify
  <2>3. new.id = id /\ new.name = n /\ new.todo = Targets(n)
    OBVIOUS
  <2>4. \A d \in due' : d \in due \/
            /\ d \in {id} \X {n} \X Clients \X Names
            /\ Matches(d[4], n)
    BY <1>1 DEF Notify
  <2> HIDE DEF new
  <2>5. ASSUME NEW d \in {id} \X {n} \X Clients \X Names, Matches(d[4], n) PROVE Planned(d, new)
    BY <2>1, <2>3, <2>5
  <2>6. \A d \in due' : \E j \in notifying' : Planned(d, j)
    <3> HIDE DEF Planned
    <3> QED BY <1>0, <2>2, <2>4, <2>5
  <2> QED BY <2>6 DEF DueIsPlanned
<1>2. ASSUME NEW j \in notifying, NotifyNext(j) \/ NotifyNobody(j) PROVE DueIsPlanned'
  <2> SUFFICES ASSUME NEW d \in due' PROVE \E i \in notifying' : Planned(d, i)
    BY DEF DueIsPlanned
  <2>0. Visited(j)
    BY <1>2, NotifyNextStep, NotifyNobodyStep
  <2>1. d \in due /\ ~(d[1] = j.id /\ d[2] = j.name /\ d[4] = Head(j.todo))
    BY <1>2 DEF NotifyNext, NotifyNobody, DueIsListed
  <2>2. PICK i \in notifying : Planned(d, i)
    BY <1>0, <2>1
  <2>3. CASE i # j
    <3> HIDE DEF Planned
    <3> QED BY <2>0, <2>2, <2>3, VisitedStep
  <2>4. CASE i = j
    <3>1. PICK a \in 1..Len(j.todo) : j.todo[a] = d[4]
      BY <2>2, <2>4
    <3>2. j.todo[a] # Head(j.todo)
      BY <2>1, <2>2, <2>4, <3>1
    <3>3. PICK e \in notifying' :
                  /\ e.id = j.id /\ e.name = j.name /\ e.value = j.value
                  /\ \E b \in 1..Len(e.todo) : e.todo[b] = j.todo[a]
      BY <2>0, <3>2, VisitedStep
    <3>4. Planned(d, e)
      BY <2>2, <2>4, <3>1, <3>3
    <3> HIDE DEF Planned
    <3> QED BY <3>3, <3>4
  <2> QED BY <2>3, <2>4
<1>3. ASSUME NEW m \in inflight, Deliver(m) PROVE DueIsPlanned'
  BY <1>3 DEF Deliver, DueIsPlanned, record
<1>4. CASE notifying' = notifying /\ due' \subseteq due
  BY <1>4 DEF DueIsPlanned
<1> QED BY <1>1, <1>2, <1>3, <1>4, NotificationSteps

(* Nobody leaves a list while he is due to be told through it. *)
LEMMA DueListedStep ==
  ASSUME DeliveryTypes, DueIsListed, [DeliveryNext]_vars
  PROVE  DueIsListed'
<1>0. ASSUME sub' = sub, \A d \in due' : d \in due \/ d[3] \in Observers(d[4]) PROVE DueIsListed'
  BY <1>0 DEF DueIsListed, Observers
<1>1. ASSUME NEW id, NEW n, NEW v, Notify(id, n, v), sub' = sub PROVE DueIsListed'
  BY <1>0, <1>1 DEF Notify
<1>2. ASSUME NEW j \in notifying, NotifyNext(j) \/ NotifyNobody(j) PROVE DueIsListed'
  BY <1>0, <1>2 DEF NotifyNext, NotifyNobody
<1>3. ASSUME NEW c \in Clients, NEW n \in Names,
             ReadCurrent(c, n) \/ SendCurrent(c, n) \/ ObserveVar(c, n) \/ StopObservingVar(c, n)
      PROVE  DueIsListed'
  <2>1. /\ sub'[c][n].pc # "none"
        /\ \A e \in Clients, k \in Names : e # c \/ k # n => sub'[e][k] = sub[e][k]
    BY <1>3, SubSteps, SetSubStep
  <2>2. \A e \in Clients, k \in Names : sub'[e][k].listed => sub'[e][k].pc # "none"
    BY <2>1 DEF DueIsListed
  <2>3. ASSUME NEW d \in due' PROVE d[3] \in Observers(d[4])'
    <3>0. d \in due /\ d[3] \in Clients /\ d[4] \in Names /\ sub[d[3]][d[4]].listed
      BY <1>3, SubSteps DEF DueIsListed, Observers
    <3>1. CASE d[3] # c \/ d[4] # n
      BY <2>1, <3>0, <3>1 DEF Observers
    <3>2. CASE d[3] = c /\ d[4] = n
      <4>1. ~ObserveVar(c, n) /\ ~StopObservingVar(c, n)
        BY <3>0, <3>2, SubSteps DEF DueIsListed
      <4>2. sub'[c][n].listed = sub[c][n].listed
        BY <1>3, <4>1, SubSteps, SetSubStep
      <4> QED BY <3>0, <3>2, <4>2 DEF Observers
    <3> QED BY <3>1, <3>2
  <2> QED BY <2>2, <2>3 DEF DueIsListed
<1>4. CASE UNCHANGED vars
  BY <1>0, <1>4 DEF vars, record
<1>5. CASE Changes
  BY <1>0, <1>1, <1>5 DEF Changes, SetVar, Setting, DelVar, record
<1>6. CASE Goroutines
  <2>1. ASSUME NEW d \in deleting, DelVarNext(d) PROVE DueIsListed'
    BY <1>1, <2>1 DEF DelVarNext
  <2>2. ASSUME NEW m \in inflight, Deliver(m) PROVE DueIsListed'
    BY <1>0, <2>2 DEF Deliver, record
  <2>3. ASSUME NEW c \in Clients, ListObserving(c) \/ ReadObserved(c) \/ SendObserved(c)
        PROVE  DueIsListed'
    BY <1>0, <2>3 DEF ListObserving, ReadObserved, SendObserved, Resuming, record
  <2> QED BY <1>2, <1>3, <1>6, <2>1, <2>2, <2>3 DEF Goroutines
<1>7. CASE Requests
  <2>1. ASSUME NEW c \in Clients, Disconnects(c) \/ ClientConnected(c) PROVE DueIsListed'
    BY <1>0, <2>1 DEF Disconnects, ClientConnected, record
  <2> QED BY <1>3, <1>7, <2>1 DEF Requests
<1> QED BY <1>4, <1>5, <1>6, <1>7 DEF DeliveryNext

-----------------------------------------------------------------------------
(* What is deleted: DeletedIsGone *)

(* What a step may do to values and deletions. *)
LEMMA ValueSteps ==
  ASSUME DeliveryTypes, [DeliveryNext]_vars
  PROVE  \/ \E n \in Names, v \in Values : SetVar(n, v)
         \/ \E n \in Names : DelVar(n)
         \/ \E d \in deleting : DelVarNext(d)
         \/ value' = value /\ deleting' = deleting
<1>1. CASE UNCHANGED vars
  BY <1>1 DEF vars, jobs
<1>2. ASSUME NEW j \in notifying, NotifyNext(j) \/ NotifyNobody(j)
      PROVE  value' = value /\ deleting' = deleting
  BY <1>2 DEF NotifyNext, NotifyNobody
<1>3. ASSUME NEW m \in inflight, Deliver(m) PROVE value' = value /\ deleting' = deleting
  BY <1>3 DEF Deliver
<1>4. ASSUME NEW c \in Clients, ListObserving(c) \/ ReadObserved(c) \/ SendObserved(c)
      PROVE  value' = value /\ deleting' = deleting
  BY <1>4 DEF ListObserving, ReadObserved, SendObserved, Resuming
<1>5. ASSUME NEW c \in Clients, NEW n \in Names,
             ReadCurrent(c, n) \/ SendCurrent(c, n) \/ ObserveVar(c, n) \/ StopObservingVar(c, n)
      PROVE  value' = value /\ deleting' = deleting
  BY <1>5, SubSteps, SetSubStep
<1>6. ASSUME NEW c \in Clients, Disconnects(c) \/ ClientConnected(c)
      PROVE  value' = value /\ deleting' = deleting
  BY <1>6 DEF Disconnects, ClientConnected, jobs
<1>7. CASE Changes
  BY <1>7 DEF Changes
<1>8. CASE Goroutines
  BY <1>2, <1>3, <1>4, <1>5, <1>8 DEF Goroutines
<1>9. CASE Requests
  BY <1>5, <1>6, <1>9 DEF Requests
<1> QED BY <1>1, <1>7, <1>8, <1>9 DEF DeliveryNext

(* A change marks the deletions it races and leaves their lists alone. *)
LEMMA SetVarMarks ==
  ASSUME DeliveryTypes, NEW n \in Names, NEW v \in Values, SetVar(n, v)
  PROVE  /\ \A x \in Names : x # n => value'[x] = value[x]
         /\ \A e \in deleting' : \E d \in deleting :
               /\ e.id = d.id /\ e.key = d.key /\ e.todo = d.todo
               /\ ~e.raced => ~d.raced /\ ~Covers(d.key, n)
         /\ \A d \in deleting : \E e \in deleting' : e.id = d.id
<1> DEFINE Marked(d) == [d EXCEPT !.raced = @ \/ Covers(d.key, n)]
<1>1. ASSUME NEW d \in deleting
      PROVE  /\ Marked(d).id = d.id /\ Marked(d).key = d.key /\ Marked(d).todo = d.todo
             /\ ~Marked(d).raced => ~d.raced /\ ~Covers(d.key, n)
  <2>1. d \in Deletions
    BY DEF DeliveryTypes
  <2> QED BY <2>1 DEF Deletions
<1>2. deleting' = {Marked(d) : d \in deleting}
  BY DEF SetVar, Setting
<1>3. \A x \in Names : x # n => value'[x] = value[x]
  BY DEF SetVar, Setting, Stored, DeliveryTypes
<1> HIDE DEF Marked
<1> QED BY <1>1, <1>2, <1>3

(* One turn of DelVar's loop. *)
LEMMA DelVarNextStep ==
  ASSUME DeliveryTypes, NEW d \in deleting, DelVarNext(d)
  PROVE  \E n \in Changed :
            /\ Notify(d.id, n, Empty)
            /\ \A x \in Names : value'[x] = IF x = n THEN Empty ELSE value[x]
            /\ \A e \in deleting' : e \in deleting \/
                  (e.id = d.id /\ e.key = d.key /\ e.raced = d.raced /\ e.todo = d.todo \ {n})
            /\ \A e \in deleting : e # d => e \in deleting'
            /\ (\A e \in deleting' : e.id # d.id) => d.todo = {n}
            /\ UNCHANGED <<sub, inflight, resuming, client, missed>>
<1>1. d \in Deletions
  BY DEF DeliveryTypes
<1>2. PICK n \in d.todo :
         /\ value' = [x \in Names |-> IF x = n THEN Empty ELSE value[x]]
         /\ Notify(d.id, n, Empty)
         /\ deleting' = (deleting \ {d}) \cup
                           (IF d.todo = {n} THEN {} ELSE {[d EXCEPT !.todo = @ \ {n}]})
         /\ UNCHANGED <<sub, calls, timeouts, inflight, resuming, client, missed>>
  BY DEF DelVarNext
<1> DEFINE rest == [d EXCEPT !.todo = @ \ {n}]
<1>3. n \in Changed
  BY <1>1 DEF Deletions
<1>4. rest.id = d.id /\ rest.key = d.key /\ rest.raced = d.raced /\ rest.todo = d.todo \ {n}
  BY <1>1 DEF Deletions
<1>5. deleting' = (deleting \ {d}) \cup (IF d.todo = {n} THEN {} ELSE {rest})
  BY <1>2
<1> HIDE DEF rest
<1>6. /\ \A e \in deleting' : e \in deleting \/ e = rest
      /\ \A e \in deleting : e # d => e \in deleting'
      /\ d.todo # {n} => rest \in deleting'
  BY <1>5
<1>7. \A x \in Names : value'[x] = IF x = n THEN Empty ELSE value[x]
  BY <1>2
<1>8. (\A e \in deleting' : e.id # d.id) => d.todo = {n}
  BY <1>4, <1>6
<1>9. \A e \in deleting' : e \in deleting \/
          (e.id = d.id /\ e.key = d.key /\ e.raced = d.raced /\ e.todo = d.todo \ {n})
  BY <1>4, <1>6
<1> QED BY <1>2, <1>3, <1>6, <1>7, <1>8, <1>9

LEMMA DeletionStep ==
  ASSUME DeliveryTypes, StillToDelete, [DeliveryNext]_vars
  PROVE  StillToDelete'
<1> SUFFICES ASSUME NEW e \in deleting', ~e.raced,
                    NEW x \in Names, Covers(e.key, x), value'[x] # Empty
             PROVE  x \in e.todo
  BY DEF StillToDelete, Covers
<1>0. \A d \in deleting : ~d.raced /\ Covers(d.key, x) /\ value[x] # Empty => x \in d.todo
  BY DEF StillToDelete
<1>1. ASSUME NEW n \in Names, NEW v \in Values, SetVar(n, v) PROVE x \in e.todo
  <2>1. PICK d \in deleting : /\ e.id = d.id /\ e.key = d.key /\ e.todo = d.todo
                              /\ ~e.raced => ~d.raced /\ ~Covers(d.key, n)
    BY <1>1, SetVarMarks
  <2>2. x # n
    BY <2>1
  <2> QED BY <1>0, <1>1, <2>1, <2>2, SetVarMarks
<1>2. ASSUME NEW n \in Names, DelVar(n) PROVE x \in e.todo
  <2> DEFINE new == [id |-> calls, key |-> n, todo |-> Found(n), raced |-> FALSE]
  <2>1. deleting' = deleting \cup {new} /\ value' = value
    BY <1>2 DEF DelVar
  <2>2. new.key = n /\ new.todo = Found(n)
    OBVIOUS
  <2> HIDE DEF new
  <2> QED BY <1>0, <2>1, <2>2, FoundTyped
<1>3. ASSUME NEW d \in deleting, DelVarNext(d) PROVE x \in e.todo
  <2>1. PICK n \in Changed :
            /\ \A y \in Names : value'[y] = IF y = n THEN Empty ELSE value[y]
            /\ \A f \in deleting' : f \in deleting \/
                  (f.id = d.id /\ f.key = d.key /\ f.raced = d.raced /\ f.todo = d.todo \ {n})
    BY <1>3, DelVarNextStep
  <2>2. x # n /\ value[x] # Empty
    BY <2>1
  <2> QED BY <1>0, <2>1, <2>2
<1>4. CASE value' = value /\ deleting' = deleting
  BY <1>0, <1>4
<1> QED BY <1>1, <1>2, <1>3, <1>4, ValueSteps

-----------------------------------------------------------------------------
(* What is on its way agrees: Straight *)

LEMMA LoadsStep ==
  ASSUME DeliveryTypes, LoadsConcern, [DeliveryNext]_vars
  PROVE  LoadsConcern'
<1>1. ASSUME sub' = sub, resuming' = resuming PROVE LoadsConcern'
  BY <1>1 DEF LoadsConcern, Concerns
<1>2. ASSUME NEW c \in Clients, NEW n \in Names, NEW s \in Subs, SetSub(c, n, s),
             \A l \in s.load : Concerns(n, l[1])
      PROVE  LoadsConcern'
  <2>1. /\ sub'[c][n] = s /\ resuming' = resuming
        /\ \A e \in Clients, k \in Names : e # c \/ k # n => sub'[e][k] = sub[e][k]
    BY <1>2, SetSubStep
  <2>2. ASSUME NEW e \in Clients, NEW k \in Names, NEW l \in sub'[e][k].load PROVE Concerns(k, l[1])
    BY <1>2, <2>1, <2>2 DEF LoadsConcern
  <2> QED BY <2>1, <2>2 DEF LoadsConcern, Concerns
<1>3. ASSUME NEW c \in Clients, NEW r \in Resumes, Resuming(c, r),
             r.pc = "send" => \A l \in r.load : Concerns(r.key, l[1])
      PROVE  LoadsConcern'
  <2>1. sub' = sub /\ resuming'[c] = r /\ \A e \in Clients : e # c => resuming'[e] = resuming[e]
    BY <1>3 DEF Resuming, DeliveryTypes
  <2>2. ASSUME NEW e \in Clients, resuming'[e].pc = "send", NEW l \in resuming'[e].load
        PROVE  Concerns(resuming'[e].key, l[1])
    BY <1>3, <2>1, <2>2 DEF LoadsConcern
  <2> QED BY <2>1, <2>2 DEF LoadsConcern, Concerns
<1>5. ASSUME NEW c \in Clients, NEW n \in Names,
             ObserveVar(c, n) \/ SendCurrent(c, n) \/ StopObservingVar(c, n) \/ ReadCurrent(c, n)
      PROVE  LoadsConcern'
  <2>1. PICK s \in Subs : /\ SetSub(c, n, s)
                          /\ s.load = {} \/ s.load = GetVarInternal(n) \/ s.load = sub[c][n].load
    BY <1>5, SubSteps
  <2>2. \A l \in s.load : Concerns(n, l[1])
    BY <2>1, ReadsCurrent DEF LoadsConcern
  <2> QED BY <1>2, <2>1, <2>2
<1>6. ASSUME NEW c \in Clients, ListObserving(c) PROVE LoadsConcern'
  <2>1. PICK todo \in SUBSET Names : Resuming(c, NextOf(todo))
    BY <1>6, ResumingSteps
  <2> QED BY <1>3, <2>1, NextOfTyped
<1>7. ASSUME NEW c \in Clients, ReadObserved(c) PROVE LoadsConcern'
  <2>1. PICK n \in Names :
           /\ Resuming(c, [pc |-> "send", key |-> n, todo |-> resuming[c].todo \ {n},
                           load |-> GetVarInternal(n)])
           /\ [pc |-> "send", key |-> n, todo |-> resuming[c].todo \ {n},
               load |-> GetVarInternal(n)] \in Resumes
    BY <1>7, ResumingSteps
  <2> QED BY <1>3, <2>1, ReadsCurrent
<1>8. ASSUME NEW c \in Clients, SendObserved(c) PROVE LoadsConcern'
  <2> DEFINE r == IF online[c] THEN NextOf(resuming[c].todo) ELSE NoResume
  <2>1. Resuming(c, r) /\ resuming[c].todo \in SUBSET Names
    BY <1>8, ResumingSteps
  <2>2. r \in Resumes /\ r.pc # "send"
    BY <2>1, NextOfTyped
  <2> HIDE DEF r
  <2> QED BY <1>3, <2>1, <2>2
<1>9. ASSUME NEW c \in Clients, ClientConnected(c) PROVE LoadsConcern'
  <2>1. sub' = sub /\ resuming' = [resuming EXCEPT ![c].pc = "list"]
    BY <1>9 DEF ClientConnected
  <2>2. \A e \in Clients : resuming'[e].pc = "send" => resuming'[e] = resuming[e]
    BY <2>1 DEF DeliveryTypes, Resumes
  <2> QED BY <2>1, <2>2 DEF LoadsConcern, Concerns
<1>10. ASSUME NEW c \in Clients, Disconnects(c) PROVE LoadsConcern'
  BY <1>1, <1>10 DEF Disconnects, jobs
<1>11. CASE UNCHANGED vars
  BY <1>1, <1>11 DEF vars, jobs
<1>12. CASE Changes
  BY <1>1, <1>12 DEF Changes, SetVar, Setting, DelVar
<1>13. CASE Goroutines
  <2>1. ASSUME NEW d \in deleting, DelVarNext(d) PROVE LoadsConcern'
    BY <1>1, <2>1 DEF DelVarNext
  <2>2. ASSUME NEW j \in notifying, NotifyNext(j) \/ NotifyNobody(j) PROVE LoadsConcern'
    BY <1>1, <2>2 DEF NotifyNext, NotifyNobody
  <2>3. ASSUME NEW m \in inflight, Deliver(m) PROVE LoadsConcern'
    BY <1>1, <2>3 DEF Deliver
  <2> QED BY <1>5, <1>6, <1>7, <1>8, <1>13, <2>1, <2>2, <2>3 DEF Goroutines
<1>14. CASE Requests
  BY <1>5, <1>9, <1>10, <1>14 DEF Requests
<1> QED BY <1>11, <1>12, <1>13, <1>14 DEF DeliveryNext

(* A change that crosses nothing: whatever was on its way is about other   *)
(* names.                                                                  *)
LEMMA StraightChange ==
  ASSUME DeliveryTypes, LoadsConcern,
         NEW id \in Nat, NEW k \in Changed, NEW v \in Texts, Notify(id, k, v),
         UNCHANGED <<sub, inflight, resuming>>,
         NEW n \in Names, n \notin crossed', Straight(n),
         value'[n] = IF n = k THEN v ELSE value[n]
  PROVE  Straight(n)'
<1> DEFINE new == [id |-> id, name |-> k, value |-> v, todo |-> Targets(k)]
<1>1. notifying' = notifying \cup {new} /\ new.name = k /\ new.value = v
  BY DEF Notify
<1> HIDE DEF new
<1>2. CASE n # k
  BY <1>1, <1>2 DEF Straight, SaysCurrent
<1>3. CASE n = k
  <2>1. ~OnItsWay(n)
    BY <1>3 DEF Notify
  <2>2. \A j \in notifying \cup inflight : j.name # n
    BY <2>1 DEF OnItsWay
  <2>3. ASSUME NEW c \in Clients, NEW x \in Names, sub[c][x].pc = "read", NEW l \in sub[c][x].load
        PROVE  l[1] # n
    <3>1. ~Concerns(x, n)
      BY <2>1, <2>3 DEF OnItsWay
    <3>2. Concerns(x, l[1])
      BY <2>3 DEF LoadsConcern
    <3> QED BY <3>1, <3>2
  <2>4. ASSUME NEW c \in Clients, resuming[c].pc = "send", NEW l \in resuming[c].load
        PROVE  l[1] # n
    <3>1. ~Concerns(resuming[c].key, n)
      BY <2>1, <2>4 DEF OnItsWay
    <3>2. Concerns(resuming[c].key, l[1])
      BY <2>4 DEF LoadsConcern
    <3> QED BY <3>1, <3>2
  <2>5. \A j \in notifying' \cup inflight' : j.name = n => j.value = value'[n]
    BY <1>1, <1>3, <2>2
  <2>6. \A c \in Clients, x \in Names : sub'[c][x].pc = "read" =>
            \A l \in sub'[c][x].load : l[1] = n => l[2] = value'[n]
    BY <2>3
  <2>7. \A c \in Clients : resuming'[c].pc = "send" =>
            \A l \in resuming'[c].load : l[1] = n => l[2] = value'[n]
    BY <2>4
  <2> QED BY <2>5, <2>6, <2>7 DEF Straight, SaysCurrent
<1> QED BY <1>2, <1>3

(* Any other step sends on what it has, or reads the current value. *)
LEMMA StraightKept ==
  ASSUME NEW n \in Names, Straight(n), value' = value,
         \A j \in notifying' \cup inflight' :
             \E i \in notifying \cup inflight : j.name = i.name /\ j.value = i.value,
         \A c \in Clients, k \in Names : sub'[c][k].pc = "read" =>
             sub'[c][k] = sub[c][k] \/ SaysCurrent(sub'[c][k].load, n),
         \A c \in Clients : resuming'[c].pc = "send" =>
             resuming'[c] = resuming[c] \/ SaysCurrent(resuming'[c].load, n)
  PROVE  Straight(n)'
<1>1. \A j \in notifying' \cup inflight' : j.name = n => j.value = value[n]
  BY DEF Straight
<1>2. \A c \in Clients, k \in Names : sub'[c][k].pc = "read" => SaysCurrent(sub'[c][k].load, n)
  BY DEF Straight
<1>3. \A c \in Clients : resuming'[c].pc = "send" => SaysCurrent(resuming'[c].load, n)
  BY DEF Straight
<1> QED BY <1>1, <1>2, <1>3 DEF Straight, SaysCurrent

LEMMA StraightStep ==
  ASSUME DeliveryTypes, LoadsConcern, StraightUnlessCrossed, [DeliveryNext]_vars
  PROVE  StraightUnlessCrossed'
<1> SUFFICES ASSUME NEW n \in Names, n \notin crossed', ~HasStar(n) PROVE Straight(n)'
  BY DEF StraightUnlessCrossed, HasStar
<1>0. ASSUME crossed \subseteq crossed' PROVE Straight(n)
  BY <1>0 DEF StraightUnlessCrossed
<1>1. ASSUME NEW id \in Nat, NEW k \in Changed, NEW v \in Texts, Notify(id, k, v),
             UNCHANGED <<sub, inflight, resuming>>,
             value'[n] = IF n = k THEN v ELSE value[n]
      PROVE  Straight(n)'
  <2>1. crossed \subseteq crossed'
    BY <1>1 DEF Notify
  <2> QED BY <1>0, <1>1, <2>1, StraightChange
<1>2. ASSUME value' = value, crossed' = crossed, notifying' = notifying, inflight' = inflight,
             resuming' = resuming,
             \A c \in Clients, k \in Names : sub'[c][k].pc = "read" =>
                 sub'[c][k] = sub[c][k] \/ SaysCurrent(sub'[c][k].load, n)
      PROVE  Straight(n)'
  BY <1>0, <1>2, StraightKept
<1>3. ASSUME value' = value, crossed' = crossed, notifying' = notifying, inflight' = inflight,
             sub' = sub,
             \A c \in Clients : resuming'[c].pc = "send" =>
                 resuming'[c] = resuming[c] \/ SaysCurrent(resuming'[c].load, n)
      PROVE  Straight(n)'
  BY <1>0, <1>3, StraightKept
<1>4. \A k \in Names : SaysCurrent(GetVarInternal(k), n)
  BY ReadsCurrent DEF SaysCurrent
<1>6. ASSUME NEW c \in Clients, NEW k \in Names,
             ObserveVar(c, k) \/ SendCurrent(c, k) \/ StopObservingVar(c, k) \/ ReadCurrent(c, k)
      PROVE  Straight(n)'
  <2>1. ASSUME NEW s \in Subs, SetSub(c, k, s), s.pc = "read" => SaysCurrent(s.load, n)
        PROVE  Straight(n)'
    BY <1>2, <2>1, SetSubStep
  <2>2. PICK s \in Subs : SetSub(c, k, s) /\ (s.pc = "read" => s.load = GetVarInternal(k))
    BY <1>6, SubSteps
  <2> QED BY <1>4, <2>1, <2>2
<1>7. ASSUME NEW c \in Clients, NEW r \in Resumes, Resuming(c, r),
             r.pc = "send" => SaysCurrent(r.load, n)
      PROVE  Straight(n)'
  <2>1. /\ resuming'[c] = r /\ \A e \in Clients : e # c => resuming'[e] = resuming[e]
        /\ UNCHANGED <<value, crossed, notifying, inflight, sub>>
    BY <1>7 DEF Resuming, DeliveryTypes, record
  <2> QED BY <1>3, <1>7, <2>1
<1>8. ASSUME NEW c \in Clients, ListObserving(c) PROVE Straight(n)'
  <2>1. PICK todo \in SUBSET Names : Resuming(c, NextOf(todo))
    BY <1>8, ResumingSteps
  <2> QED BY <1>7, <2>1, NextOfTyped
<1>9. ASSUME NEW c \in Clients, ReadObserved(c) PROVE Straight(n)'
  <2>1. PICK k \in Names :
           /\ Resuming(c, [pc |-> "send", key |-> k, todo |-> resuming[c].todo \ {k},
                           load |-> GetVarInternal(k)])
           /\ [pc |-> "send", key |-> k, todo |-> resuming[c].todo \ {k},
               load |-> GetVarInternal(k)] \in Resumes
    BY <1>9, ResumingSteps
  <2> QED BY <1>4, <1>7, <2>1
<1>10. ASSUME NEW c \in Clients, SendObserved(c) PROVE Straight(n)'
  <2> DEFINE r == IF online[c] THEN NextOf(resuming[c].todo) ELSE NoResume
  <2>1. Resuming(c, r) /\ resuming[c].todo \in SUBSET Names
    BY <1>10, ResumingSteps
  <2>2. r \in Resumes /\ r.pc # "send"
    BY <2>1, NextOfTyped
  <2> HIDE DEF r
  <2> QED BY <1>7, <2>1, <2>2
<1>11. ASSUME NEW c \in Clients, ClientConnected(c) PROVE Straight(n)'
  <2>1. /\ resuming' = [resuming EXCEPT ![c].pc = "list"]
        /\ UNCHANGED <<value, crossed, notifying, inflight, sub>>
    BY <1>11 DEF ClientConnected
  <2>2. \A e \in Clients : resuming'[e].pc = "send" => resuming'[e] = resuming[e]
    BY <2>1 DEF DeliveryTypes, Resumes
  <2> QED BY <1>3, <2>1, <2>2
<1>12. ASSUME UNCHANGED <<value, crossed, notifying, inflight, sub, resuming>> PROVE Straight(n)'
  BY <1>3, <1>12
<1>13. ASSUME NEW j \in notifying, NotifyNext(j) \/ NotifyNobody(j) PROVE Straight(n)'
  <2>1. \A i \in notifying' : \E e \in notifying : i.name = e.name /\ i.value = e.value
    BY <1>13, NotifyNextStep, NotifyNobodyStep, VisitedStep
  <2>2. \A i \in inflight' : \E e \in notifying \cup inflight : i.name = e.name /\ i.value = e.value
    BY <1>13, NotifyNextStep, NotifyNobodyStep
  <2>3. UNCHANGED <<value, crossed, sub, resuming>>
    BY <1>13, NotifyNextStep, NotifyNobodyStep
  <2> QED BY <1>0, <2>1, <2>2, <2>3, StraightKept
<1>14. ASSUME NEW m \in inflight, Deliver(m) PROVE Straight(n)'
  <2>1. inflight' \subseteq inflight /\ UNCHANGED <<value, crossed, notifying, sub, resuming>>
    BY <1>14 DEF Deliver, record
  <2> QED BY <1>0, <2>1, StraightKept
<1>15. ASSUME NEW k \in Names, NEW v \in Values, SetVar(k, v) PROVE Straight(n)'
  <2>1. /\ calls \in Nat /\ k \in Changed /\ v \in Texts /\ Notify(calls, k, v)
        /\ UNCHANGED <<sub, inflight, resuming>>
    BY <1>15 DEF SetVar, Setting, DeliveryTypes, Changed, Texts
  <2>2. value'[n] = IF n = k THEN v ELSE value[n]
    BY <1>15 DEF SetVar, Setting, Stored, DeliveryTypes
  <2> QED BY <1>1, <2>1, <2>2
<1>16. ASSUME NEW d \in deleting, DelVarNext(d) PROVE Straight(n)'
  <2>1. d.id \in Nat /\ Empty \in Texts
    BY DEF DeliveryTypes, Deletions, Texts
  <2>2. PICK k \in Changed : /\ Notify(d.id, k, Empty)
                             /\ value'[n] = IF n = k THEN Empty ELSE value[n]
                             /\ UNCHANGED <<sub, inflight, resuming>>
    BY <1>16, DelVarNextStep
  <2> QED BY <1>1, <2>1, <2>2
<1>17. CASE UNCHANGED vars
  BY <1>12, <1>17 DEF vars, jobs, record
<1>18. CASE Changes
  <2>1. ASSUME NEW k \in Names, DelVar(k) PROVE Straight(n)'
    BY <1>12, <2>1 DEF DelVar, record
  <2> QED BY <1>15, <1>18, <2>1 DEF Changes
<1>19. CASE Goroutines
  BY <1>6, <1>8, <1>9, <1>10, <1>13, <1>14, <1>16, <1>19 DEF Goroutines
<1>20. CASE Requests
  <2>1. ASSUME NEW c \in Clients, Disconnects(c) PROVE Straight(n)'
    BY <1>12, <2>1 DEF Disconnects, jobs, record
  <2> QED BY <1>6, <1>11, <1>20, <2>1 DEF Requests
<1> QED BY <1>17, <1>18, <1>19, <1>20 DEF DeliveryNext

-----------------------------------------------------------------------------
(* Everyone is reached: CaughtUp and LateOnlyIfCrossed *)

(* A step that leaves the client and the value alone hands on what it is   *)
(* awaiting.                                                               *)
LEMMA AwaitsKept ==
  ASSUME NEW c \in Clients, NEW n \in Names, value'[n] = value[n],
         notifying \subseteq notifying', inflight \subseteq inflight',
         resuming'[c] = resuming[c], sub'[c][n] = sub[c][n], Awaits(c, n)
  PROVE  Awaits(c, n)'
BY DEF Awaits, Notified, Messaged, Resumed, Registered

LEMMA ReachesKept ==
  ASSUME NEW c \in Clients, NEW n \in Names, Reaches(c, n), value'[n] = value[n],
         got'[c][n] = got[c][n], last'[c][n] = last[c][n], crossed \subseteq crossed',
         Awaits(c, n) => Awaits(c, n)'
  PROVE  Reaches(c, n)'
BY DEF Reaches

LEMMA AwaitingIsReached ==
  ASSUME NEW c \in Clients, NEW n \in Names, Awaits(c, n)'
  PROVE  Reaches(c, n)'
BY DEF Reaches

(* A change of n is notified, beginning with the observers of n. *)
LEMMA ChangeReaches ==
  ASSUME DeliveryTypes,
         NEW id \in Nat, NEW k \in Changed, NEW v \in Texts, Notify(id, k, v),
         UNCHANGED <<sub, inflight, resuming, client>>,
         NEW c \in Clients, NEW n \in Names,
         n = k => value'[n] = v, n # k => value'[n] = value[n],
         n # k => Reaches(c, n)
  PROVE  Reaches(c, n)'
<1> DEFINE new == [id |-> id, name |-> k, value |-> v, todo |-> Targets(k)]
<1>1. notifying' = notifying \cup {new} /\ new.name = k /\ new.value = v /\ new.todo = Targets(k)
  BY DEF Notify
<1>2. 1 \in 1..Len(Targets(k)) /\ Targets(k)[1] = k
  <2>1. Targets(k) \in Seq(Seq(Words)) /\ Targets(k) # <<>> /\ Targets(k)[1] = k
    BY NamesAreWords, TargetsTyped
  <2> QED BY <2>1
<1> HIDE DEF new
<1>3. CASE n = k
  <2>1. /\ new \in notifying' /\ new.name = n /\ new.value = value'[n]
        /\ 1 \in 1..Len(new.todo) /\ new.todo[1] = n
    BY <1>1, <1>2, <1>3
  <2>2. Awaits(c, n)'
    BY <2>1 DEF Awaits, Notified
  <2> QED BY <2>2, AwaitingIsReached
<1>4. CASE n # k
  <2>1. crossed \subseteq crossed'
    BY DEF Notify
  <2>2. Awaits(c, n) => Awaits(c, n)'
    BY <1>1, <1>4, AwaitsKept
  <2> QED BY <1>4, <2>1, <2>2, ReachesKept DEF client
<1> QED BY <1>3, <1>4

(* Sending a load to client e: whoever was reached still is, and a client  *)
(* that is sent the current value is.                                      *)
LEMMA SendReaches ==
  ASSUME DeliveryTypes, NEW e \in Clients, NEW load \in Payloads, Send(e, load),
         NEW c \in Clients, NEW n \in Names, online[c], Reaches(c, n),
         value' = value, crossed' = crossed,
         n \notin crossed /\ e = c => SaysCurrent(load, n),
         Awaits(c, n) => Awaits(c, n)' \/ (e = c /\ <<n, value[n]>> \in load)
  PROVE  Reaches(c, n)'
<1>1. CASE Awaits(c, n)'
  BY <1>1, AwaitingIsReached
<1>2. CASE e # c
  <2>1. got'[c] = got[c] /\ last'[c] = last[c]
    BY <1>2, SendStep
  <2> QED BY <1>2, <2>1, ReachesKept
<1>3. CASE e = c /\ ~Awaits(c, n)'
  <2>0. Send(c, load)
    BY <1>3
  <2>1. /\ got[c][n] \subseteq got'[c][n]
        /\ <<n, value[n]>> \in load => value[n] \in got'[c][n]
        /\ (\A l \in load : l[1] # n) => last'[c][n] = last[c][n]
        /\ \A l \in load : l[1] = n /\ (\A k \in load : k[1] = n => k[2] = l[2])
                             => last'[c][n] = l[2]
    BY <2>0, SendStep
  <2>2. value[n] # Empty => value[n] \in got'[c][n]
    BY <1>3, <2>1 DEF Reaches
  <2>3. ASSUME n \notin crossed PROVE last'[c][n] = value[n]
    <3>1. \A l \in load : l[1] = n => l[2] = value[n]
      BY <1>3, <2>3 DEF SaysCurrent
    <3>2. CASE \E l \in load : l[1] = n
      BY <2>1, <3>1, <3>2
    <3>3. CASE \A l \in load : l[1] # n
      <4>1. <<n, value[n]>> \notin load
        BY <3>3
      <4>2. ~Awaits(c, n)
        BY <1>3, <4>1
      <4> QED BY <2>1, <2>3, <3>3, <4>2 DEF Reaches
    <3> QED BY <3>2, <3>3
  <2> QED BY <2>2, <2>3 DEF Reaches
<1> QED BY <1>1, <1>2, <1>3

(* A visit of another list leaves the notification of n under way. *)
LEMMA VisitNotifies ==
  ASSUME DeliveryTypes, NEW j \in notifying, Visited(j), value' = value,
         NEW n \in Names, Notified(n),
         ~(j.name = n /\ j.value = value[n] /\ Head(j.todo) = n)
  PROVE  Notified(n)'
<1>1. PICK i \in notifying : /\ i.name = n /\ i.value = value[n]
                             /\ \E a \in 1..Len(i.todo) : i.todo[a] = n
  BY DEF Notified
<1>2. CASE i # j
  <2>1. i \in notifying'
    BY <1>2, VisitedStep
  <2> QED BY <1>1, <2>1 DEF Notified
<1>3. CASE i = j
  <2>1. PICK a \in 1..Len(j.todo) : j.todo[a] = n
    BY <1>1, <1>3
  <2>2. j.todo[a] # Head(j.todo)
    BY <1>1, <1>3, <2>1
  <2>3. PICK r \in notifying' : /\ r.name = j.name /\ r.value = j.value
                                /\ \E b \in 1..Len(r.todo) : r.todo[b] = j.todo[a]
    <3>1. \A b \in 1..Len(j.todo) : j.todo[b] # Head(j.todo) =>
             \E r \in notifying' :
                /\ r.id = j.id /\ r.name = j.name /\ r.value = j.value
                /\ \E d \in 1..Len(r.todo) : r.todo[d] = j.todo[b]
      BY VisitedStep
    <3> QED BY <2>2, <3>1
  <2> QED BY <1>1, <1>3, <2>1, <2>3 DEF Notified
<1> QED BY <1>2, <1>3

LEMMA VisitReaches ==
  ASSUME DeliveryTypes, NEW j \in notifying, NotifyNext(j) \/ NotifyNobody(j),
         NEW c \in Clients, NEW n \in Names, Interested(c, n)',
         Interested(c, n) => Reaches(c, n)
  PROVE  Reaches(c, n)'
<1>0. /\ Visited(j) /\ UNCHANGED <<value, sub, resuming, client, crossed>>
      /\ inflight \subseteq inflight' /\ missed \subseteq missed'
  BY NotifyNextStep, NotifyNobodyStep
<1>1. Interested(c, n)
  BY <1>0 DEF Interested, client
<1>2. c \in Observers(n)
  BY <1>1 DEF Interested, Observers
<1>3. ASSUME Awaits(c, n) PROVE Awaits(c, n)'
  <2>1. CASE Notified(n) /\ ~(j.name = n /\ j.value = value[n] /\ Head(j.todo) = n)
    BY <1>0, <2>1, VisitNotifies DEF Awaits
  <2>2. CASE j.name = n /\ j.value = value[n] /\ Head(j.todo) = n
    <3>1. NotifyNext(j)
      BY <1>2, <2>2, NotifyNobodyStep DEF Interested
    <3>2. \E m \in inflight' : m.to = c /\ m.name = n /\ m.value = value[n]
      BY <1>2, <2>2, <3>1, NotifyNextStep
    <3> QED BY <1>0, <3>2 DEF Awaits, Messaged
  <2>3. CASE Messaged(c, n)
    BY <1>0, <2>3 DEF Awaits, Messaged
  <2>4. CASE Resumed(c, n) \/ Registered(c, n)
    BY <1>0, <2>4 DEF Awaits, Resumed, Registered
  <2> QED BY <1>3, <2>1, <2>2, <2>3, <2>4 DEF Awaits
<1> QED BY <1>0, <1>1, <1>3, ReachesKept DEF client

LEMMA DeliverReaches ==
  ASSUME DeliveryTypes, StraightUnlessCrossed, NEW m \in inflight, Deliver(m),
         NEW c \in Clients, NEW n \in Names, Interested(c, n), Reaches(c, n)
  PROVE  Reaches(c, n)'
<1> DEFINE load == {<<m.name, m.value>>}
<1>1. m.to \in Clients /\ load \in Payloads /\ Send(m.to, load)
  BY DEF DeliveryTypes, Messages, Payloads, Deliver
<1>2. inflight' = inflight \ {m} /\ UNCHANGED <<value, sub, notifying, resuming, crossed>>
  BY DEF Deliver, record
<1>3. online[c] /\ ~HasStar(n)
  BY DEF Interested
<1>4. ASSUME n \notin crossed PROVE SaysCurrent(load, n)
  <2>1. m.name = n => m.value = value[n]
    BY <1>3, <1>4 DEF StraightUnlessCrossed, Straight
  <2> QED BY <2>1 DEF SaysCurrent
<1>5. ASSUME Awaits(c, n), ~Awaits(c, n)' PROVE m.to = c /\ <<n, value[n]>> \in load
  <2>1. ~(Notified(n) \/ Resumed(c, n) \/ Registered(c, n))
    BY <1>2, <1>5 DEF Awaits, Notified, Resumed, Registered
  <2>2. PICK i \in inflight : i.to = c /\ i.name = n /\ i.value = value[n]
    BY <1>5, <2>1 DEF Awaits, Messaged
  <2>3. i = m
    BY <1>2, <1>5, <2>2 DEF Awaits, Messaged
  <2> QED BY <2>2, <2>3
<1> HIDE DEF load
<1>6. value' = value /\ crossed' = crossed
  BY <1>2
<1> QED BY <1>1, <1>3, <1>4, <1>5, <1>6, SendReaches

(* The steps of a registration; those of another observation change        *)
(* nothing for this one.                                                   *)
LEMMA SubReaches ==
  ASSUME DeliveryTypes, StraightUnlessCrossed, NEW e \in Clients, NEW k \in Names,
         ObserveVar(e, k) \/ ReadCurrent(e, k) \/ SendCurrent(e, k) \/ StopObservingVar(e, k),
         NEW c \in Clients, NEW n \in Names, Interested(c, n)',
         Interested(c, n) => Reaches(c, n)
  PROVE  Reaches(c, n)'
<1>1. PICK s \in Subs :
         /\ SetSub(e, k, s)
         /\ ReadCurrent(e, k) => s.pc = "read" /\ s.load = GetVarInternal(k)
         /\ ReadCurrent(e, k) \/ SendCurrent(e, k) => s.listed = sub[e][k].listed /\ s.own = sub[e][k].own
         /\ ObserveVar(e, k) => s.pc = "registered"
         /\ StopObservingVar(e, k) => s.pc = "gone"
  <2>1. CASE ObserveVar(e, k)
    BY <2>1, SubSteps
  <2>2. CASE ReadCurrent(e, k)
    BY <2>2, SubSteps
  <2>3. CASE SendCurrent(e, k)
    BY <2>3, SubSteps
  <2>4. CASE StopObservingVar(e, k)
    BY <2>4, SubSteps
  <2> QED BY <2>1, <2>2, <2>3, <2>4
<1>2. /\ sub'[e][k] = s
      /\ e # c \/ k # n => sub'[c][n] = sub[c][n]
      /\ UNCHANGED <<value, crossed, missed, notifying, inflight, resuming>>
  BY <1>1, SetSubStep
<1>3. online' = online
  <2>1. CASE SendCurrent(e, k)
    BY <2>1, SubSteps, LoadsArePayloads, SendStep
  <2>2. CASE ~SendCurrent(e, k)
    BY <2>2, SubSteps DEF client
  <2> QED BY <2>1, <2>2
<1>4. ASSUME e # c \/ k # n, ~SendCurrent(e, k) PROVE Reaches(c, n)'
  <2>1. Interested(c, n)
    BY <1>2, <1>3, <1>4 DEF Interested
  <2>2. Awaits(c, n) => Awaits(c, n)'
    BY <1>2, <1>4, AwaitsKept
  <2>3. got'[c][n] = got[c][n] /\ last'[c][n] = last[c][n]
    <3>1. CASE ObserveVar(e, k)
      <4>1. got' = [got EXCEPT ![e][k] = {}] /\ last' = [last EXCEPT ![e][k] = Empty]
        BY <3>1 DEF ObserveVar
      <4> QED BY <1>4, <4>1 DEF DeliveryTypes
    <3>2. CASE ~ObserveVar(e, k)
      BY <1>4, <3>2, SubSteps DEF client
    <3> QED BY <3>1, <3>2
  <2> QED BY <1>2, <2>1, <2>2, <2>3, ReachesKept
<1>5. CASE e = c /\ k = n /\ ObserveVar(e, k)
  <2>1. last'[c][n] = Empty
    BY <1>5, SubSteps DEF DeliveryTypes
  <2>2. value[n] # Empty => Awaits(c, n)'
    BY <1>1, <1>2, <1>5 DEF Awaits, Registered
  <2> QED BY <1>2, <2>1, <2>2 DEF Reaches
<1>6. CASE e = c /\ k = n /\ ReadCurrent(e, k)
  <2>1. Interested(c, n)
    BY <1>1, <1>2, <1>3, <1>6, SubSteps DEF Interested
  <2>2. value[n] # Empty => <<n, value[n]>> \in s.load
    BY <1>1, <1>6, ReadsCurrent
  <2>3. ASSUME Awaits(c, n) PROVE Awaits(c, n)'
    <3>1. CASE Notified(n) \/ Messaged(c, n) \/ Resumed(c, n)
      BY <1>2, <3>1 DEF Awaits, Notified, Messaged, Resumed
    <3>2. CASE Registered(c, n)
      BY <1>1, <1>2, <1>6, <2>2, <3>2 DEF Awaits, Registered
    <3> QED BY <2>3, <3>1, <3>2 DEF Awaits
  <2>4. got' = got /\ last' = last
    BY <1>6, SubSteps DEF client
  <2> QED BY <1>2, <2>1, <2>3, <2>4, ReachesKept
<1>7. CASE e = c /\ k = n /\ StopObservingVar(e, k)
  BY <1>1, <1>2, <1>7 DEF Interested
<1>8. CASE SendCurrent(e, k)
  <2> DEFINE load == sub[e][k].load
  <2>1. load \in Payloads /\ Send(e, load) /\ sub[e][k].pc = "read"
    BY <1>8, SubSteps, LoadsArePayloads
  <2>2. Interested(c, n) /\ ~HasStar(n)
    BY <1>1, <1>2, <1>3, <1>8, <2>1 DEF Interested
  <2>3. ASSUME n \notin crossed PROVE SaysCurrent(load, n)
    BY <2>1, <2>2, <2>3 DEF StraightUnlessCrossed, Straight
  <2>4. ASSUME Awaits(c, n), ~Awaits(c, n)' PROVE e = c /\ <<n, value[n]>> \in load
    <3>1. ~(Notified(n) \/ Messaged(c, n) \/ Resumed(c, n))
      BY <1>2, <2>4 DEF Awaits, Notified, Messaged, Resumed
    <3>2. Registered(c, n)
      BY <2>4, <3>1 DEF Awaits
    <3>3. e = c /\ k = n
      BY <1>2, <2>4, <3>2 DEF Awaits, Registered
    <3> QED BY <2>1, <3>2, <3>3 DEF Registered
  <2>5. online[c] /\ Reaches(c, n) /\ value' = value /\ crossed' = crossed
    BY <1>2, <2>2 DEF Interested
  <2> HIDE DEF load
  <2> QED BY <2>1, <2>3, <2>4, <2>5, SendReaches
<1> QED BY <1>4, <1>5, <1>6, <1>7, <1>8

(* The steps of a return. *)
LEMMA ResumingReaches ==
  ASSUME DeliveryTypes, StraightUnlessCrossed, NEW e \in Clients,
         ListObserving(e) \/ ReadObserved(e) \/ SendObserved(e),
         NEW c \in Clients, NEW n \in Names, Interested(c, n)',
         Interested(c, n) => Reaches(c, n)
  PROVE  Reaches(c, n)'
<1>1. ASSUME NEW r \in Resumes, Resuming(e, r)
      PROVE  /\ resuming'[e] = r
             /\ e # c => resuming'[c] = resuming[c]
             /\ UNCHANGED <<value, sub, notifying, inflight, crossed, missed>>
  BY <1>1 DEF Resuming, DeliveryTypes, record
<1>2. ASSUME NEW r \in Resumes, Resuming(e, r), UNCHANGED client,
             e = c => Resumed(c, n)' \/ ~Resumed(c, n) \/ Registered(c, n)
      PROVE  Reaches(c, n)'
  <2>1. Interested(c, n)
    BY <1>1, <1>2 DEF Interested, client
  <2>2. ASSUME Awaits(c, n) PROVE Awaits(c, n)'
    <3>1. CASE e # c
      BY <1>1, <1>2, <2>2, <3>1, AwaitsKept
    <3>2. CASE e = c
      BY <1>1, <1>2, <2>2, <3>2 DEF Awaits, Notified, Messaged, Registered
    <3> QED BY <3>1, <3>2
  <2> QED BY <1>1, <1>2, <2>1, <2>2, ReachesKept DEF client
<1>3. CASE ListObserving(e)
  <2>1. PICK todo \in SUBSET Names :
           /\ \A x \in Names : sub[e][x].pc \in {"read", "done"} /\ sub[e][x].own => x \in todo
           /\ Resuming(e, NextOf(todo)) /\ UNCHANGED client
    BY <1>3, ResumingSteps
  <2>2. NextOf(todo) \in Resumes
    BY NextOfTyped
  <2>3. ASSUME e = c, Resumed(c, n) PROVE Resumed(c, n)' \/ Registered(c, n)
    <3>0. value[n] # Empty /\ sub' = sub /\ value' = value /\ resuming'[e] = NextOf(todo)
      BY <1>1, <2>1, <2>2, <2>3 DEF Resumed
    <3>1. CASE sub[c][n].pc = "registered"
      BY <3>0, <3>1 DEF Registered
    <3>2. CASE sub[c][n].pc # "registered"
      <4>1. n \in todo
        BY <2>1, <2>3, <3>0, <3>2 DEF Interested
      <4>2. NextOf(todo).pc = "read" /\ NextOf(todo).todo = todo
        BY <4>1, NextOfTyped
      <4> QED BY <2>3, <3>0, <4>1, <4>2 DEF Resumed
    <3> QED BY <3>1, <3>2
  <2> QED BY <1>2, <2>1, <2>2, <2>3
<1>4. CASE ReadObserved(e)
  <2>1. PICK k \in Names :
           /\ resuming[e].pc = "read"
           /\ Resuming(e, [pc |-> "send", key |-> k, todo |-> resuming[e].todo \ {k},
                           load |-> GetVarInternal(k)])
           /\ UNCHANGED client
           /\ [pc |-> "send", key |-> k, todo |-> resuming[e].todo \ {k},
               load |-> GetVarInternal(k)] \in Resumes
    BY <1>4, ResumingSteps
  <2> DEFINE r == [pc |-> "send", key |-> k, todo |-> resuming[e].todo \ {k},
                   load |-> GetVarInternal(k)]
  <2>2. r \in Resumes /\ Resuming(e, r)
    BY <2>1
  <2>3. r.pc = "send" /\ r.todo = resuming[e].todo \ {k} /\ r.load = GetVarInternal(k)
    OBVIOUS
  <2> HIDE DEF r
  <2>4. resuming'[e] = r /\ value' = value
    BY <1>1, <2>2
  <2>5. ASSUME e = c, Resumed(c, n) PROVE Resumed(c, n)'
    <3>1. n \in resuming[e].todo
      BY <2>1, <2>5 DEF Resumed
    <3>2. value[n] # Empty
      BY <2>5 DEF Resumed
    <3>3. CASE n = k
      <4>1. <<n, value[n]>> \in r.load
        BY <2>3, <3>2, <3>3, ReadsCurrent
      <4> QED BY <2>3, <2>4, <2>5, <4>1 DEF Resumed
    <3>4. CASE n # k
      BY <2>3, <2>4, <2>5, <3>1, <3>4 DEF Resumed
    <3> QED BY <3>3, <3>4
  <2> QED BY <1>2, <2>1, <2>2, <2>5
<1>5. CASE SendObserved(e)
  <2> DEFINE r == IF online[e] THEN NextOf(resuming[e].todo) ELSE NoResume
             load == resuming[e].load
  <2>1. /\ resuming[e].pc = "send" /\ load \in Payloads /\ resuming[e].todo \in SUBSET Names
        /\ Resuming(e, r) /\ Send(e, load)
    BY <1>5, ResumingSteps, LoadsArePayloads
  <2>2. r \in Resumes
    BY <2>1, NextOfTyped
  <2>3. online[e] /\ resuming[e].todo # {} => r.pc = "read" /\ r.todo = resuming[e].todo
    BY <2>1, NextOfTyped
  <2> HIDE DEF r
  <2>4. /\ resuming'[e] = r
        /\ e # c => resuming'[c] = resuming[c]
        /\ UNCHANGED <<value, sub, notifying, inflight, crossed, missed>>
    BY <1>1, <2>1, <2>2
  <2>5. online' = online
    BY <2>1, SendStep
  <2>6. Interested(c, n) /\ ~HasStar(n)
    BY <2>4, <2>5 DEF Interested
  <2>7. ASSUME n \notin crossed PROVE SaysCurrent(load, n)
    BY <2>1, <2>6, <2>7 DEF StraightUnlessCrossed, Straight
  <2>8. ASSUME Awaits(c, n), ~Awaits(c, n)' PROVE e = c /\ <<n, value[n]>> \in load
    <3>1. ~(Notified(n) \/ Messaged(c, n) \/ Registered(c, n))
      BY <2>4, <2>8 DEF Awaits, Notified, Messaged, Registered
    <3>2. Resumed(c, n)
      BY <2>8, <3>1 DEF Awaits
    <3>3. e = c
      BY <2>4, <2>8, <3>2 DEF Awaits, Resumed
    <3>4. n \notin resuming[e].todo
      BY <2>3, <2>4, <2>6, <2>8, <3>2, <3>3 DEF Awaits, Resumed, Interested
    <3> QED BY <2>1, <3>2, <3>3, <3>4 DEF Resumed
  <2>9. online[c] /\ Reaches(c, n) /\ value' = value /\ crossed' = crossed
    BY <2>4, <2>6 DEF Interested
  <2> HIDE DEF load
  <2> QED BY <2>1, <2>7, <2>8, <2>9, SendReaches
<1> QED BY <1>3, <1>4, <1>5

(* A client that goes is not waited for; one that returns awaits all that  *)
(* it observes.                                                            *)
LEMMA ConnectionReaches ==
  ASSUME DeliveryTypes, NEW e \in Clients, Disconnects(e) \/ ClientConnected(e),
         NEW c \in Clients, NEW n \in Names, Interested(c, n)',
         Interested(c, n) => Reaches(c, n)
  PROVE  Reaches(c, n)'
<1>0. UNCHANGED <<value, sub, notifying, inflight, crossed>>
  BY DEF Disconnects, ClientConnected, jobs, record
<1>1. CASE e = c
  <2>1. ClientConnected(c)
    BY <1>1 DEF Disconnects, Interested, DeliveryTypes
  <2>2. resuming'[c].pc = "list"
    BY <2>1 DEF ClientConnected, DeliveryTypes, Resumes
  <2>3. last'[c][n] = Empty
    BY <2>1 DEF ClientConnected, DeliveryTypes
  <2>4. value[n] # Empty => Awaits(c, n)'
    BY <1>0, <2>2 DEF Awaits, Resumed
  <2> QED BY <1>0, <2>3, <2>4 DEF Reaches
<1>2. CASE e # c
  <2>1. /\ online'[c] = online[c] /\ got'[c] = got[c] /\ last'[c] = last[c]
        /\ resuming'[c] = resuming[c]
    BY <1>2 DEF Disconnects, ClientConnected, DeliveryTypes, jobs
  <2>2. Interested(c, n)
    <3>1. <<c, n>> \in missed => <<c, n>> \in missed'
      BY <1>2 DEF Disconnects, ClientConnected, record
    <3> QED BY <1>0, <2>1, <3>1 DEF Interested
  <2>3. Awaits(c, n) => Awaits(c, n)'
    BY <1>0, <2>1, AwaitsKept
  <2> QED BY <1>0, <2>1, <2>2, <2>3, ReachesKept
<1> QED BY <1>1, <1>2

LEMMA ReachStep ==
  ASSUME DeliveryTypes, StraightUnlessCrossed, EveryoneIsReached, [DeliveryNext]_vars
  PROVE  EveryoneIsReached'
<1> SUFFICES ASSUME NEW c \in Clients, NEW n \in Names, Interested(c, n)'
             PROVE  Reaches(c, n)'
  BY DEF EveryoneIsReached
<1>0. Interested(c, n) => Reaches(c, n)
  BY DEF EveryoneIsReached
<1>1. ASSUME UNCHANGED <<value, sub, notifying, inflight, resuming, client, crossed, missed>>
      PROVE  Reaches(c, n)'
  <2>1. Interested(c, n)
    BY <1>1 DEF Interested, client
  <2>2. Awaits(c, n) => Awaits(c, n)'
    BY <1>1, AwaitsKept
  <2> QED BY <1>0, <1>1, <2>1, <2>2, ReachesKept DEF client
<1>2. ASSUME NEW id \in Nat, NEW k \in Changed, NEW v \in Texts, Notify(id, k, v),
             UNCHANGED <<sub, inflight, resuming, client, missed>>,
             n = k => value'[n] = v, n # k => value'[n] = value[n]
      PROVE  Reaches(c, n)'
  <2>1. n # k => Reaches(c, n)
    BY <1>0, <1>2 DEF Interested, client
  <2> QED BY <1>2, <2>1, ChangeReaches
<1>3. ASSUME NEW k \in Names, NEW v \in Values, SetVar(k, v) PROVE Reaches(c, n)'
  <2>1. /\ calls \in Nat /\ k \in Changed /\ v \in Texts /\ Notify(calls, k, v)
        /\ UNCHANGED <<sub, inflight, resuming, client, missed>>
    BY <1>3 DEF SetVar, Setting, DeliveryTypes, Changed, Texts
  <2>3. ~HasStar(n)
    BY DEF Interested, HasStar
  <2>4. (n = k => value'[n] = v) /\ (n # k => value'[n] = value[n])
    BY <1>3, <2>3 DEF SetVar, Setting, Stored, DeliveryTypes
  <2> QED BY <1>2, <2>1, <2>4
<1>4. ASSUME NEW d \in deleting, DelVarNext(d) PROVE Reaches(c, n)'
  <2>1. d.id \in Nat /\ Empty \in Texts
    BY DEF DeliveryTypes, Deletions, Texts
  <2>2. PICK k \in Changed : /\ Notify(d.id, k, Empty)
                             /\ value'[n] = IF n = k THEN Empty ELSE value[n]
                             /\ UNCHANGED <<sub, inflight, resuming, client, missed>>
    BY <1>4, DelVarNextStep
  <2> QED BY <1>2, <2>1, <2>2
<1>5. ASSUME NEW k \in Names, DelVar(k) PROVE Reaches(c, n)'
  BY <1>1, <1>5 DEF DelVar, record
<1>7. ASSUME NEW m \in inflight, Deliver(m) PROVE Reaches(c, n)'
  <2>1. Interested(c, n)
    BY <1>7 DEF Interested, Deliver, Send, record
  <2> QED BY <1>0, <1>7, <2>1, DeliverReaches
<1>8. CASE UNCHANGED vars
  BY <1>1, <1>8 DEF vars, jobs, record
<1>9. CASE Changes
  BY <1>3, <1>5, <1>9 DEF Changes
<1>10. CASE Goroutines
  BY <1>0, <1>4, <1>7, <1>10, VisitReaches, ResumingReaches, SubReaches DEF Goroutines
<1>11. CASE Requests
  BY <1>0, <1>11, ConnectionReaches, SubReaches DEF Requests
<1> QED BY <1>8, <1>9, <1>10, <1>11 DEF DeliveryNext

-----------------------------------------------------------------------------
(* The invariant, and the properties *)

LEMMA DeliveryInvInit == DeliveryInit => DeliveryInv
<1> SUFFICES ASSUME DeliveryInit PROVE DeliveryInv
  OBVIOUS
<1>1. DeliveryTypes
  BY TypesInit
<1>2. /\ deleting = {} /\ notifying = {} /\ inflight = {} /\ due = {}
      /\ \A c \in Clients : resuming[c] = NoResume
      /\ \A c \in Clients, n \in Names : sub[c][n] = NoSub /\ value[n] = Empty
  BY DEF DeliveryInit
<1>3. OnlyMatches /\ DueIsPlanned /\ DueIsListed /\ StillToDelete
  BY <1>2 DEF OnlyMatches, DueIsPlanned, DueIsListed, StillToDelete, NoSub
<1>4. LoadsConcern /\ StraightUnlessCrossed
  BY <1>2 DEF LoadsConcern, StraightUnlessCrossed, Straight, NoSub, NoResume
<1>5. EveryoneIsReached
  BY <1>2 DEF EveryoneIsReached, Interested, NoSub
<1> QED BY <1>1, <1>3, <1>4, <1>5 DEF DeliveryInv

(* The inductive invariant holds in every behaviour. *)
LEMMA DeliveryInvariant == DeliverySpec => []DeliveryInv
<1>1. DeliveryInv /\ [DeliveryNext]_vars => DeliveryInv'
  BY TypesStep, MatchesStep, DueStep, DueListedStep, DeletionStep, LoadsStep, StraightStep, ReachStep
     DEF DeliveryInv
<1> QED BY <1>1, DeliveryInvInit, PTL DEF DeliverySpec

(* Every change of SetVar and DelVar is sent to whoever observed the name  *)
(* or a pattern above it, for any names and patterns, unless he stopped or *)
(* the visit of his list timed out: notifyVarModification and its chain of *)
(* parents leave no list out and visit no other.                           *)
THEOREM DeliveryMatchesAreTold == DeliverySpec => []MatchesAreTold
<1>1. DeliveryInv => MatchesAreTold
  <2> SUFFICES ASSUME DeliveryInv PROVE MatchesAreTold
    OBVIOUS
  <2>1. DeliveryTypeOK
    <3>1. \A j \in notifying : j.id \in 0..calls /\ j.value \in Texts /\ j.todo # <<>>
      BY DEF DeliveryInv, DeliveryTypes, Notifications
    <3>2. \A m \in inflight : /\ m.to \in Clients /\ m.name \in Names \cup {Base(n) : n \in Names}
                              /\ m.value \in Texts
      BY DEF DeliveryInv, DeliveryTypes, Messages, Changed
    <3> QED BY <3>1, <3>2 DEF DeliveryInv, DeliveryTypes, DeliveryTypeOK
  <2> QED BY <2>1 DEF DeliveryInv, DueIsPlanned, OnlyMatches, MatchesAreTold
<1> QED BY <1>1, DeliveryInvariant, PTL

(* When nothing is on its way, nobody awaits anything. *)
LEMMA QuietAwaitsNothing ==
  ASSUME Quiet, NEW c \in Clients, NEW n \in Names
  PROVE  ~Awaits(c, n)
BY DEF Quiet, Awaits, Notified, Messaged, Resumed, Registered

(* A client that observes a name and is connected has been sent its        *)
(* current value once nothing is on its way, however ObserveVar, its       *)
(* return through ClientConnected and the changes overlapped, if it is on  *)
(* both lists and no visit of the variable's list timed out.               *)
THEOREM DeliveryCaughtUp == DeliverySpec => []CaughtUp
<1>1. DeliveryInv => CaughtUp
  <2> SUFFICES ASSUME DeliveryInv, Quiet, NEW c \in Clients, NEW n \in Names,
                      Follows(c, n, n), value[n] # Empty
               PROVE  value[n] \in got[c][n]
    BY DEF CaughtUp
  <2>1. ~HasStar(n)
    BY DEF DeliveryInv, DeliveryTypes
  <2> QED BY <2>1, QuietAwaitsNothing DEF DeliveryInv, EveryoneIsReached, Interested, Reaches, Follows
<1> QED BY <1>1, DeliveryInvariant, PTL

(* And it is what it was sent last, deletions included, unless a change of *)
(* the name was made while a message about it was on its way.              *)
THEOREM DeliveryLateOnlyIfCrossed == DeliverySpec => []LateOnlyIfCrossed
<1>1. DeliveryInv => LateOnlyIfCrossed
  BY QuietAwaitsNothing
     DEF DeliveryInv, EveryoneIsReached, Interested, Reaches, Follows, LateOnlyIfCrossed
<1> QED BY <1>1, DeliveryInvariant, PTL

(* A DelVar that no SetVar raced leaves no value of what it covers when it *)
(* ends, at any depth.                                                     *)
THEOREM DeliveryDeletedIsGone == DeliverySpec => DeletedIsGone
<1> DEFINE Gone == \A d \in deleting :
                      (\A e \in deleting' : e.id # d.id) /\ ~d.raced
                      => \A x \in Names : Covers(d.key, x) => value'[x] = Empty
<1>1. DeliveryInv /\ [DeliveryNext]_vars => [Gone]_vars
  <2> SUFFICES ASSUME DeliveryInv, [DeliveryNext]_vars,
                      NEW d \in deleting, \A e \in deleting' : e.id # d.id, ~d.raced,
                      NEW x \in Names, Covers(d.key, x)
               PROVE  value'[x] = Empty
    OBVIOUS
  <2>0. DeliveryTypes /\ (value[x] # Empty => x \in d.todo)
    BY DEF DeliveryInv, StillToDelete
  <2>1. ASSUME NEW n \in Names, NEW v \in Values, SetVar(n, v) PROVE FALSE
    BY <2>0, <2>1, SetVarMarks
  <2>2. ASSUME NEW n \in Names, DelVar(n) PROVE FALSE
    BY <2>2 DEF DelVar
  <2>3. ASSUME NEW f \in deleting, DelVarNext(f) PROVE value'[x] = Empty
    <3>1. PICK n \in Changed :
             /\ \A y \in Names : value'[y] = IF y = n THEN Empty ELSE value[y]
             /\ \A e \in deleting : e # f => e \in deleting'
             /\ (\A e \in deleting' : e.id # f.id) => f.todo = {n}
      BY <2>0, <2>3, DelVarNextStep
    <3>2. f = d
      BY <3>1
    <3> QED BY <2>0, <3>1, <3>2
  <2>4. ~(value' = value /\ deleting' = deleting)
    OBVIOUS
  <2> QED BY <2>0, <2>1, <2>2, <2>3, <2>4, ValueSteps
<1>2. DeliverySpec => [][DeliveryInv /\ [DeliveryNext]_vars]_vars
  BY DeliveryInvariant, PTL DEF DeliverySpec
<1> QED BY <1>1, <1>2, PTL DEF DeletedIsGone, DeliverySpec

=============================================================================

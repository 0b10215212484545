------------------------------ MODULE HttpTree ------------------------------
(***************************************************************************)
(* services/apis/httpapi/httpapi.go over GetVars and SetVar of             *)
(* controller.go: what a GET answers while other requests change the       *)
(* variables, and what a POST of a JSON object leaves behind.              *)
(*                                                                         *)
(* A name is a sequence of words.  A JSON object is the set of its leaves, *)
(* pairs of a path and a scalar; a node is an object when a longer path    *)
(* goes through it.  The answer of a GET is built in three stages: GetVars *)
(* reads the variables one by one, insertNested puts them into the object  *)
(* one by one, normalizeArrays turns objects into arrays.                  *)
(*                                                                         *)
(* Left out: texts that are JSON objects or arrays themselves, words that  *)
(* are other numerals of the same number ("01"), and names with an empty   *)
(* word ("a..b"), whose empty words insertNested skips.                    *)
(***************************************************************************)
EXTENDS Integers, Sequences, FiniteSets, SequencesExt

CONSTANTS Readers,      \* handler goroutines of net/http that serve a GET each
          Writers,      \* handler goroutines that serve POST and DELETE requests
          MaxPosts,     \* bound on the requests of a writer
          Names,        \* names of variables
          Refused,      \* names that SetVar refuses
          Starred,      \* names with a star
          Queries,      \* what GET asks for: [base, wild]
          Bodies,       \* JSON bodies of POST: sets of <<name, text>>
          Texts,        \* non-empty texts
          TooLong,      \* texts longer than maxValueSize
          Empty,        \* ""
          Null,         \* the JSON null
          Json,         \* Json[t]: the JSON scalar that text t decodes to
          InferType,    \* InferType[t]: "number", "bool" or "string"
          Truths,       \* texts that GetBool takes for true
          Number,       \* Number[t]: the number text t stands for, formatted anew
          Quoted,       \* Quoted[t]: text t between quotes, nothing escaped
          JsonFalse,    \* the JSON false
          Broken,       \* an answer that is not JSON
          Index,        \* Index[w]: the number that word w is the numeral of
          Own           \* the word "_value"

ASSUME HttpAssumption ==
    /\ Refused \subseteq Names /\ Starred \subseteq Names /\ TooLong \subseteq Texts
    /\ \A n \in Names : n \in Seq(Range(n)) /\ n # <<>>
    /\ \A q \in Queries : q.base \in Seq(Range(q.base)) /\ q.wild \in BOOLEAN
    /\ Empty \notin Texts /\ Null \notin Texts \cup {Empty}
    /\ \A f \in {Json, InferType, Number, Quoted} : Texts \cup {Empty} \subseteq DOMAIN f
    /\ \A B \in Bodies : B \subseteq Names \X (Texts \cup {Empty, Null})
    /\ \A n \in Names \ Refused : Own \notin Range(n)
    /\ IsInjective(Index)
    /\ Readers \cap Writers = {}
    /\ MaxPosts \in Nat

VARIABLES value,        \* vars.<name>
          job,          \* the request each goroutine serves, or served last
          posts         \* posts[r]: requests of the writer so far

httpVars == <<value, job, posts>>

Requests == Readers \cup Writers

NoJob == [pc |-> "answered", kind |-> "none", answer |-> "none", name |-> <<>>]

(* Names without a value: SetVar refuses them, or SetValue does not store. *)
Unstored == Refused \cup Starred

HttpInit ==
    /\ value \in [Names -> (Texts \ TooLong) \cup {Empty}]
    /\ \A n \in Unstored : value[n] = Empty
    /\ posts = [r \in Writers |-> 0]
    /\ job = [r \in Requests |-> NoJob]

Stage(r, pc) == job[r].pc = pc
Gets == {r \in Requests : job[r].kind = "get"}
Under(b, n) == IsPrefix(b, n)
Below(b, n) == IsStrictPrefix(b, n)

-----------------------------------------------------------------------------
(* Writes *)

(* For the record: every value a variable has while a GET is served. *)
Noted(n, t) ==
    [r \in Requests |-> IF r \in Gets /\ ~Stage(r, "answered")
                        THEN [job[r] EXCEPT !.seen[n] = @ \cup {t}] ELSE job[r]]

(* SetVar when it refuses nothing, and the request r goes on as j: the     *)
(* value is stored unless the name has a star, which is not an error.      *)
SetVar(r, n, t, j) ==
    LET stored == IF n \in Starred THEN value[n] ELSE t
    IN  /\ value' = [value EXCEPT ![n] = stored]
        /\ job' = [Noted(n, stored) EXCEPT ![r] = j]

(* Whether SetVar refuses: for the name, for the size of the value, or     *)
(* because the variable is locked, which it may be at any time (VarLock).  *)
Refusals(n, t) == IF n \in Refused \/ t \in TooLong THEN {TRUE} ELSE BOOLEAN

(* setJson, one value of the object and of the objects in it, in the order *)
(* of Go maps.  Null ends the handler in a panic that net/http recovers; a *)
(* refused value ends the loops, and its error is dropped.                 *)
SetJson(r, leaf) ==
    IF leaf[2] = Null
    THEN /\ job' = [job EXCEPT ![r].pc = "answered", ![r].answer = "aborted"]
         /\ UNCHANGED value
    ELSE \E refused \in Refusals(leaf[1], leaf[2]) :
            IF refused
            THEN /\ job' = [job EXCEPT ![r].pc = "answered", ![r].answer = "204"]
                 /\ UNCHANGED value
            ELSE SetVar(r, leaf[1], leaf[2], [job[r] EXCEPT !.todo = @ \ {leaf}])

Posts(r) ==
    /\ Stage(r, "answered")
    /\ posts[r] < MaxPosts
    /\ posts' = [posts EXCEPT ![r] = @ + 1]

(* handlePostByName with a JSON body: the path is not looked at. *)
PostJson(r, B) ==
    /\ Posts(r)
    /\ job' = [job EXCEPT ![r] = [pc |-> "set", kind |-> "post", answer |-> "none",
                                  todo |-> B, name |-> <<>>]]
    /\ UNCHANGED value

PostNext(r) ==
    /\ Stage(r, "set")
    /\ \E leaf \in job[r].todo : SetJson(r, leaf)

PostEnds(r) ==
    /\ Stage(r, "set")
    /\ job[r].todo = {}
    /\ job' = [job EXCEPT ![r].pc = "answered", ![r].answer = "204"]
    /\ UNCHANGED value

(* handlePostByName with any other body. *)
PostText(r, n, t) ==
    /\ Posts(r)
    /\ \E refused \in Refusals(n, t) :
          IF refused
          THEN /\ job' = [job EXCEPT ![r] = [NoJob EXCEPT !.answer = "403", !.name = n]]
               /\ UNCHANGED value
          ELSE SetVar(r, n, t, [NoJob EXCEPT !.answer = "204", !.name = n])

(* handleDeleteByName of one name; DelVar deletes a refused name as well,  *)
(* which has no value.  (Patterns are Delivery's.)                         *)
DeleteByName(r, n) ==
    /\ Posts(r)
    /\ n \notin Starred
    /\ SetVar(r, n, Empty, [NoJob EXCEPT !.answer = "204"])

-----------------------------------------------------------------------------
(* GetVars *)

Covered(q, n) == n = q.base \/ (q.wild /\ Below(q.base, n))

Get(r, q, full) ==
    /\ job[r].kind = "none"
    /\ job' = [job EXCEPT ![r] =
          [pc |-> "read", kind |-> "get", answer |-> "none", query |-> q, full |-> full,
           todo |-> {n \in Names : Covered(q, n)}, vals |-> {}, count |-> 0, doc |-> {}, arrays |-> {},
           seen |-> [n \in Names |-> {value[n]}]]]
    /\ UNCHANGED value

(* readFromDb of one name.  A name that changed since the request began    *)
(* may be missed: the childs of its parents were listed before it was      *)
(* there.                                                                  *)
Read(r) ==
    /\ Stage(r, "read")
    /\ \E n \in job[r].todo :
          \E missed \in IF Cardinality(job[r].seen[n]) > 1 THEN BOOLEAN ELSE {FALSE} :
              job' = [job EXCEPT ![r].todo = @ \ {n},
                      ![r].vals = IF missed \/ value[n] = Empty THEN @ ELSE @ \cup {<<n, value[n]>>}]
    /\ UNCHANGED value

(* Every name was read: the default if none had a value. *)
ReadEnds(r) ==
    LET found == IF job[r].vals = {} THEN {<<job[r].query.base, Empty>>} ELSE job[r].vals
    IN  /\ Stage(r, "read")
        /\ job[r].todo = {}
        /\ job' = [job EXCEPT ![r].pc = "insert", ![r].vals = found, ![r].count = Cardinality(found)]
        /\ UNCHANGED value

-----------------------------------------------------------------------------
(* The answer of a GET *)

(* The one variable of the answer is the one asked for. *)
Single(r) ==
    /\ job[r].count = 1
    /\ ~job[r].full
    /\ \E e \in job[r].vals : e[1] = job[r].query.base

(* The scalar answer goes by the type that InferType infers from the text: *)
(* numbers are formatted anew, a true bool is written "trye", and a string *)
(* is put between quotes as it is.                                         *)
Inferred(t) ==
    IF InferType[t] = "number" THEN Number[t]
    ELSE IF InferType[t] = "bool" THEN (IF t \in Truths THEN Broken ELSE JsonFalse)
    ELSE Quoted[t]

(* handleGetByName: a single variable whose name has a dot is answered as  *)
(* a scalar.                                                               *)
AnswerScalar(r) ==
    /\ Stage(r, "insert")
    /\ Single(r) /\ Len(job[r].query.base) > 1
    /\ LET t == (CHOOSE e \in job[r].vals : TRUE)[2]
       IN  job' = [job EXCEPT ![r].pc = "answered", ![r].answer = "scalar",
                   ![r].doc = {<<job[r].query.base, Inferred(t)>>}]
    /\ UNCHANGED value

(* The path of a variable in the object. *)
PathOf(r, n) ==
    CASE job[r].full -> n
      [] (~job[r].full /\ n = job[r].query.base) -> IF job[r].count = 1 THEN n ELSE <<Own>>
      [] OTHER -> SubSeq(n, Len(job[r].query.base) + 1, Len(n))

(* Broken variant: a value takes the place of the object at its path.      *)
InsertOverObject(doc, path, j) ==
    {e \in doc : ~Under(path, e[1])} \cup {<<path, j>>}

(* insertNested: scalars on the way become objects that hold them as       *)
(* "_value"; an object at the path gets the new value as its "_value".     *)
InsertNested(doc, path, j) ==
    LET opened == {<<IF Below(e[1], path) THEN Append(e[1], Own) ELSE e[1], e[2]>> : e \in doc}
        place == IF \E e \in opened : Below(path, e[1]) THEN Append(path, Own) ELSE path
    IN  IF path = <<>> THEN doc ELSE {e \in opened : e[1] # place} \cup {<<place, j>>}

(* Broken variant: GetVars lists parents and childs in any order. *)
AnyFirst(r) == job[r].vals

(* GetVars puts the childs before their parents; siblings come in any      *)
(* order.                                                                  *)
ChildsFirst(r) == {e \in job[r].vals : \A f \in job[r].vals : ~Below(e[1], f[1])}

Insert(r) ==
    /\ Stage(r, "insert")
    /\ ~(Single(r) /\ Len(job[r].query.base) > 1)
    /\ \E e \in ChildsFirst(r) :
          job' = [job EXCEPT ![r].vals = @ \ {e},
                  ![r].doc = InsertNested(@, PathOf(r, e[1]), Json[e[2]])]
    /\ UNCHANGED value

KeysAt(doc, p) == {e[1][Len(p) + 1] : e \in {x \in doc : Below(p, x[1])}}

Objects(doc) == UNION {{SubSeq(e[1], 1, i) : i \in 0..(Len(e[1]) - 1)} : e \in doc}

(* The keys of the object are 0, 1, ..., without a gap. *)
Countable(doc, p) ==
    LET keys == KeysAt(doc, p)
    IN  /\ keys \subseteq DOMAIN Index
        /\ {Index[k] : k \in keys} = 0..(Cardinality(keys) - 1)

(* normalizeArrays: the loop over the keys must meet them in ascending     *)
(* order, which a Go map of several keys does or does not do.              *)
NormalizeArrays(r) ==
    LET candidates == {p \in Objects(job[r].doc) : Countable(job[r].doc, p)}
        certain == {p \in candidates : Cardinality(KeysAt(job[r].doc, p)) = 1}
    IN  /\ Stage(r, "insert")
        /\ job[r].vals = {}
        /\ \E more \in SUBSET candidates :
              job' = [job EXCEPT ![r].pc = "answered", ![r].answer = "json", ![r].arrays = certain \cup more]
        /\ UNCHANGED value

-----------------------------------------------------------------------------
Serves(r) ==
    \/ PostNext(r) \/ PostEnds(r)
    \/ Read(r) \/ ReadEnds(r)
    \/ AnswerScalar(r) \/ Insert(r) \/ NormalizeArrays(r)

Asks(r) ==
    \/ /\ r \in Writers
       /\ \/ \E B \in Bodies : PostJson(r, B)
          \/ \E n \in Names, t \in Texts \cup {Empty} : PostText(r, n, t)
          \/ \E n \in Names : DeleteByName(r, n)
    \/ /\ r \in Readers
       /\ UNCHANGED posts
       /\ \E q \in Queries, full \in BOOLEAN : Get(r, q, full)

HttpNext == \E r \in Requests : Asks(r) \/ (Serves(r) /\ UNCHANGED posts)

HttpSpec == HttpInit /\ [][HttpNext]_httpVars

-----------------------------------------------------------------------------
(* Properties *)

Scalars == {Json[t] : t \in Texts \cup {Empty}} \cup {Inferred(t) : t \in Texts \cup {Empty}}

(* Types of the variables and of the requests; an object holds no scalar   *)
(* where it also has keys.                                                 *)
HttpTypeOK ==
    /\ value \in [Names -> Texts \cup {Empty}]
    /\ \A n \in Unstored : value[n] = Empty
    /\ \A r \in Requests : job[r].answer \in {"none", "204", "403", "aborted", "json", "scalar"}
    /\ \A r \in Gets : /\ \A e \in job[r].doc : e[2] \in Scalars
                       /\ \A e, f \in job[r].doc : e[1] = f[1] \/ Below(e[1], f[1]) => e = f

(* What the client can tell from the answer: a leaf at a path is the value *)
(* of a variable.  Without full names a single variable "a" that was asked *)
(* for keeps its name, and looks as "a.a" would.                           *)
NamesOf(r, path) ==
    LET p == IF Last(path) = Own THEN Front(path) ELSE path
    IN  IF job[r].full \/ job[r].answer = "scalar" THEN {p}
        ELSE {job[r].query.base \o p} \cup (IF job[r].count = 1 THEN {p} \cap {job[r].query.base} ELSE {})

Shown(r, t) == IF job[r].answer = "scalar" THEN Inferred(t) ELSE Json[t]

(* An answer, read back, has every variable asked for that had the same    *)
(* value all the time, and nothing but variables asked for with values     *)
(* that they had while the request was served, whatever the order of the   *)
(* maps and whatever was written meanwhile: insertNested loses no value    *)
(* and renames none, and an array has one element for each of its keys and *)
(* no other.  A value is shown as encoding/json decodes its text, or, in a *)
(* scalar answer, as Inferred has it.  (When nothing was found, the name   *)
(* asked for is told with the value "".)                                   *)
AnswerIsFaithful ==
    \A r \in Gets : job[r].answer \in {"json", "scalar"} =>
        /\ \A n \in Names : \A t \in Texts :
              Covered(job[r].query, n) /\ job[r].seen[n] = {t}
              => \E e \in job[r].doc : n \in NamesOf(r, e[1]) /\ e[2] = Shown(r, t)
        /\ \A e \in job[r].doc :
              \/ e = <<job[r].query.base, Shown(r, Empty)>> /\ job[r].count = 1
              \/ \E n \in NamesOf(r, e[1]) \cap Names : \E t \in job[r].seen[n] \ {Empty} :
                    Covered(job[r].query, n) /\ e[2] = Shown(r, t)
        /\ \A p \in job[r].arrays :
              LET keys == KeysAt(job[r].doc, p)
              IN  {Index[k] : k \in keys} = 0..(Cardinality(keys) - 1)

(* insertNested never meets a scalar where it needs an object: GetVars     *)
(* lists the childs first, also when a parent gets its value meanwhile.    *)
(* Types of the requests and their documents included.                     *)
NoScalarInTheWay ==
    /\ HttpTypeOK
    /\ \A r \in Gets : Stage(r, "insert") =>
          \A e \in ChildsFirst(r), f \in job[r].doc : ~Below(f[1], PathOf(r, e[1]))
=============================================================================

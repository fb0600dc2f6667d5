----------------------------- MODULE StoreProofs ----------------------------
(***************************************************************************)
(* Theorems about a data store: its cookies (CookieStore), for every       *)
(* number of calls and every finite set of cookies, and the storage its    *)
(* views work on (DataStore), for every set of stores, views and           *)
(* identifiers.                                                            *)
(*                                                                         *)
(* Of the cookies: a completion is called once at most, and told what CEF  *)
(* did, in an answer of the kind it asked for.  A call is in one place at  *)
(* a time: a request of CEF's, a reply on its way, a block of the main     *)
(* queue, or completed.                                                    *)
(*                                                                         *)
(* Of the storage: stores are isolated and keep what they were given.      *)
(***************************************************************************)
EXTENDS CookieStore, DataStore, FiniteSetTheorems, TLAPS

\* What a request may carry.
Asked == Cookies \cup {Missing}

Values == {Success(b) : b \in BOOLEAN} \cup {Listed(s) : s \in SUBSET Asked}
              \cup {Deleted(n) : n \in Nat} \cup {Missing}
Requests == [of : Calls, cookie : Asked]
Replies == [of : Calls, with : Values, unvisited : SUBSET Asked]
Blocks == [of : Calls, with : Values]

Shape ==
    /\ jar \subseteq Asked
    /\ call \in [Calls -> [kind : Kinds, completes : BOOLEAN]]
    /\ results \in [Calls -> SUBSET Asked]
    /\ requests \in Seq(Requests) /\ replies \in Seq(Replies) /\ queue \in Seq(Blocks)
    /\ times \in [Calls -> Nat]

Has(s, c) == \E i \in DOMAIN s : s[i].of = c
Single(s, c) == \A i, j \in DOMAIN s : s[i].of = c /\ s[j].of = c => i = j

Singles == \A c \in Calls : Single(requests, c) /\ Single(replies, c) /\ Single(queue, c)

\* Where a call is.
OnePlace ==
    \A c \in Calls :
        /\ Has(requests, c) => ~Has(replies, c) /\ ~Has(queue, c) /\ times[c] = 0
        /\ Has(replies, c) => ~Has(queue, c) /\ times[c] = 0
        /\ Has(queue, c) => times[c] = 0 /\ call[c].completes
        /\ times[c] <= 1
        /\ times[c] = 1 => call[c].completes
        /\ call[c].kind = "list" => call[c].completes
        /\ call[c].kind = "unmade" =>
               ~Has(requests, c) /\ ~Has(replies, c) /\ ~Has(queue, c) /\ times[c] = 0

IInv == Shape /\ Singles /\ OnePlace

-----------------------------------------------------------------------------
(***************************************************************************)
(* What appending to a sequence and taking its head does to the calls in   *)
(* it.                                                                     *)
(***************************************************************************)
LEMMA AppendHas ==
    ASSUME NEW S, NEW s \in Seq(S), NEW x \in S, NEW c
    PROVE  /\ Append(s, x) \in Seq(S)
           /\ Has(Append(s, x), c) <=> Has(s, c) \/ x.of = c
           /\ Single(s, c) /\ (x.of = c => ~Has(s, c)) => Single(Append(s, x), c)
<1>1. /\ Append(s, x) \in Seq(S) /\ DOMAIN Append(s, x) = 1..(Len(s) + 1)
      /\ DOMAIN s = 1..Len(s) /\ Len(s) \in Nat
      /\ \A i \in 1..Len(s) : Append(s, x)[i] = s[i]
      /\ Append(s, x)[Len(s) + 1] = x
  OBVIOUS
<1> DEFINE t == Append(s, x)
<1> HIDE DEF t
<1>2. Has(t, c) <=> Has(s, c) \/ x.of = c
  BY <1>1 DEF Has, t
<1>3. Single(s, c) /\ (x.of = c => ~Has(s, c)) => Single(t, c)
  BY <1>1 DEF Has, Single, t
<1> QED
  BY <1>1, <1>2, <1>3 DEF t

LEMMA TailHas ==
    ASSUME NEW S, NEW s \in Seq(S), s # <<>>, NEW c, Single(s, c)
    PROVE  /\ Head(s) \in S /\ Tail(s) \in Seq(S)
           /\ Has(s, Head(s).of)
           /\ Has(Tail(s), c) <=> Has(s, c) /\ Head(s).of # c
           /\ Single(Tail(s), c)
<1>1. /\ Head(s) \in S /\ Tail(s) \in Seq(S) /\ DOMAIN Tail(s) = 1..(Len(s) - 1)
      /\ DOMAIN s = 1..Len(s) /\ Len(s) \in Nat /\ Len(s) > 0
      /\ \A i \in 1..(Len(s) - 1) : Tail(s)[i] = s[i + 1]
      /\ Head(s) = s[1]
  OBVIOUS
<1> DEFINE t == Tail(s)
           h == Head(s)
<1> HIDE DEF t, h
<1>2. Has(s, h.of)
  BY <1>1 DEF Has, h
<1>3. Has(t, c) => Has(s, c) /\ h.of # c
  BY <1>1 DEF Has, Single, t, h
<1>4. Has(s, c) /\ h.of # c => Has(t, c)
  <2> SUFFICES ASSUME Has(s, c), h.of # c PROVE Has(t, c)
    OBVIOUS
  <2>1. PICK i \in 1..Len(s) : s[i].of = c
    BY <1>1 DEF Has
  <2>2. i - 1 \in 1..(Len(s) - 1) /\ t[i - 1] = s[i]
    BY <1>1, <2>1 DEF t, h
  <2> QED
    BY <1>1, <2>1, <2>2 DEF Has, t
<1>5. Single(t, c)
  BY <1>1 DEF Single, t
<1> QED
  BY <1>1, <1>2, <1>3, <1>4, <1>5 DEF t, h

-----------------------------------------------------------------------------
(***************************************************************************)
(* The steps.                                                              *)
(***************************************************************************)
LEMMA InitIInv == Init => IInv
<1> SUFFICES ASSUME Init PROVE IInv
  OBVIOUS
<1>1. requests = <<>> /\ replies = <<>> /\ queue = <<>>
  BY DEF Init
<1>2. \A c \in Calls : call[c].kind = "unmade" /\ times[c] = 0
  BY DEF Init
<1>3. Singles /\ OnePlace
  BY <1>1, <1>2 DEF Singles, Single, OnePlace, Has
<1>4. Shape
  <2>1. /\ requests \in Seq(Requests) /\ replies \in Seq(Replies) /\ queue \in Seq(Blocks)
    BY <1>1
  <2> QED
    BY <2>1 DEF Init, Shape, Kinds, Asked
<1> QED
  BY <1>3, <1>4 DEF IInv

\* A new call is somewhere for the first time.
LEMMA MadeIInv ==
    ASSUME IInv, NEW c \in Calls, NEW kind \in {"set", "list", "delete"}, NEW completes \in BOOLEAN,
           NEW cookie \in Asked, NEW value \in Values,
           Made(c, kind, completes), kind = "list" => completes,
           Accepted(c, cookie) \/ Refused(c, completes, value)
    PROVE  IInv'
<1>1. /\ call' = [call EXCEPT ![c] = [kind |-> kind, completes |-> completes]]
      /\ call[c].kind = "unmade"
      /\ UNCHANGED <<jar, results, replies, times>>
  BY DEF Made, done
<1>2. /\ call' \in [Calls -> [kind : Kinds, completes : BOOLEAN]]
      /\ call'[c].kind = kind /\ call'[c].completes = completes
      /\ \A d \in Calls : d # c => call'[d] = call[d]
  BY <1>1 DEF Kinds, IInv, Shape
<1>3. ~Has(requests, c) /\ ~Has(replies, c) /\ ~Has(queue, c) /\ times[c] = 0
  BY <1>1 DEF IInv, OnePlace
<1>4. CASE Accepted(c, cookie)
  <2> DEFINE x == [of |-> c, cookie |-> cookie]
  <2>1. x \in Requests /\ x.of = c
    BY DEF Requests
  <2>2. requests' = Append(requests, x) /\ queue' = queue
    BY <1>4 DEF Accepted
  <2> HIDE DEF x
  <2>3. /\ requests' \in Seq(Requests)
        /\ \A d \in Calls : /\ Has(requests', d) <=> Has(requests, d) \/ c = d
                            /\ Single(requests', d)
    BY <1>3, <2>1, <2>2, AppendHas DEF IInv, Shape, Singles
  <2>4. Shape'
    BY <1>1, <1>2, <2>2, <2>3 DEF IInv, Shape
  <2>5. Singles'
    BY <1>1, <2>2, <2>3 DEF IInv, Singles
  <2>6. OnePlace'
    BY <1>1, <1>2, <1>3, <2>2, <2>3 DEF IInv, OnePlace
  <2> QED
    BY <2>4, <2>5, <2>6 DEF IInv
<1>5. CASE Refused(c, completes, value) /\ completes
  <2> DEFINE x == [of |-> c, with |-> value]
  <2>1. x \in Blocks /\ x.of = c
    BY DEF Blocks
  <2>2. queue' = Append(queue, x) /\ requests' = requests
    BY <1>5 DEF Refused, Post
  <2> HIDE DEF x
  <2>3. /\ queue' \in Seq(Blocks)
        /\ \A d \in Calls : /\ Has(queue', d) <=> Has(queue, d) \/ c = d
                            /\ Single(queue', d)
    BY <1>3, <2>1, <2>2, AppendHas DEF IInv, Shape, Singles
  <2>4. Shape'
    BY <1>1, <1>2, <2>2, <2>3 DEF IInv, Shape
  <2>5. Singles'
    BY <1>1, <2>2, <2>3 DEF IInv, Singles
  <2>6. OnePlace'
    BY <1>1, <1>2, <1>3, <1>5, <2>2, <2>3 DEF IInv, OnePlace
  <2> QED
    BY <2>4, <2>5, <2>6 DEF IInv
<1>6. CASE Refused(c, completes, value) /\ ~completes
  <2>1. requests' = requests /\ queue' = queue
    BY <1>6 DEF Refused
  <2>2. Shape' /\ Singles'
    BY <1>1, <1>2, <2>1 DEF IInv, Shape, Singles
  <2>3. OnePlace'
    BY <1>1, <1>2, <1>3, <2>1 DEF IInv, OnePlace
  <2> QED
    BY <2>2, <2>3 DEF IInv
<1> QED
  BY <1>4, <1>5, <1>6

LEMMA HostIInv == IInv /\ HostCalls => IInv'
<1> SUFFICES ASSUME IInv, HostCalls PROVE IInv'
  OBVIOUS
<1>1. Success(FALSE) \in Values /\ Listed({}) \in Values /\ Deleted(0) \in Values
  BY DEF Values
<1>2. ASSUME NEW c \in Calls, NEW cookie \in Cookies, NEW b \in BOOLEAN, SetCookie(c, cookie, b)
      PROVE  IInv'
  BY <1>1, <1>2, MadeIInv DEF SetCookie, Asked
<1>3. ASSUME NEW c \in Calls, GetAllCookies(c) PROVE IInv'
  BY <1>1, <1>3, MadeIInv DEF GetAllCookies, Asked
<1>4. ASSUME NEW c \in Calls, NEW b \in BOOLEAN, DeleteAllCookies(c, b) PROVE IInv'
  BY <1>1, <1>4, MadeIInv DEF DeleteAllCookies, Asked
<1> QED
  BY <1>2, <1>3, <1>4 DEF HostCalls

\* The first request, reply or block, and what is behind it.
LEMMA Heads ==
    ASSUME IInv
    PROVE  /\ requests # <<>> =>
                 /\ Head(requests) \in Requests /\ Tail(requests) \in Seq(Requests)
                 /\ Has(requests, Head(requests).of)
                 /\ \A d \in Calls : /\ Has(Tail(requests), d)
                                           <=> Has(requests, d) /\ Head(requests).of # d
                                     /\ Single(Tail(requests), d)
           /\ replies # <<>> =>
                 /\ Head(replies) \in Replies /\ Tail(replies) \in Seq(Replies)
                 /\ Has(replies, Head(replies).of)
                 /\ \A d \in Calls : /\ Has(Tail(replies), d)
                                           <=> Has(replies, d) /\ Head(replies).of # d
                                     /\ Single(Tail(replies), d)
           /\ queue # <<>> =>
                 /\ Head(queue) \in Blocks /\ Tail(queue) \in Seq(Blocks)
                 /\ Has(queue, Head(queue).of)
                 /\ \A d \in Calls : /\ Has(Tail(queue), d)
                                           <=> Has(queue, d) /\ Head(queue).of # d
                                     /\ Single(Tail(queue), d)
<1>1. ASSUME requests # <<>>, NEW d \in Calls
      PROVE  /\ Head(requests) \in Requests /\ Tail(requests) \in Seq(Requests)
             /\ Has(requests, Head(requests).of)
             /\ Has(Tail(requests), d) <=> Has(requests, d) /\ Head(requests).of # d
             /\ Single(Tail(requests), d)
  BY <1>1, TailHas DEF IInv, Shape, Singles
<1>2. ASSUME replies # <<>>, NEW d \in Calls
      PROVE  /\ Head(replies) \in Replies /\ Tail(replies) \in Seq(Replies)
             /\ Has(replies, Head(replies).of)
             /\ Has(Tail(replies), d) <=> Has(replies, d) /\ Head(replies).of # d
             /\ Single(Tail(replies), d)
  BY <1>2, TailHas DEF IInv, Shape, Singles
<1>3. ASSUME queue # <<>>, NEW d \in Calls
      PROVE  /\ Head(queue) \in Blocks /\ Tail(queue) \in Seq(Blocks)
             /\ Has(queue, Head(queue).of)
             /\ Has(Tail(queue), d) <=> Has(queue, d) /\ Head(queue).of # d
             /\ Single(Tail(queue), d)
  BY <1>3, TailHas DEF IInv, Shape, Singles
<1>4. requests # <<>> => Head(requests).of \in Calls
  <2>1. requests # <<>> => Head(requests) \in Requests
    BY DEF IInv, Shape
  <2> QED
    BY <2>1 DEF Requests
<1>5. replies # <<>> => Head(replies).of \in Calls
  <2>1. replies # <<>> => Head(replies) \in Replies
    BY DEF IInv, Shape
  <2> QED
    BY <2>1 DEF Replies
<1>6. queue # <<>> => Head(queue).of \in Calls
  <2>1. queue # <<>> => Head(queue) \in Blocks
    BY DEF IInv, Shape
  <2> QED
    BY <2>1 DEF Blocks
<1> QED
  BY <1>1, <1>2, <1>3, <1>4, <1>5, <1>6

\* A request becomes a reply.
LEMMA RequestBecomesReply ==
    ASSUME IInv, requests # <<>>, NEW r \in Replies, r.of = Head(requests).of,
           requests' = Tail(requests), replies' = Append(replies, r), jar' \subseteq Asked,
           UNCHANGED <<call, results, queue, done>>
    PROVE  IInv'
<1> DEFINE c == Head(requests).of
<1>1. c \in Calls /\ Has(requests, c) /\ ~Has(replies, c) /\ ~Has(queue, c) /\ times[c] = 0
      /\ call[c].kind # "unmade"
  BY Heads DEF Requests, IInv, OnePlace
<1>2. /\ replies' \in Seq(Replies)
      /\ \A d \in Calls : Has(replies', d) <=> Has(replies, d) \/ c = d
      /\ \A d \in Calls : Single(replies', d)
  BY <1>1, AppendHas DEF IInv, Shape, Singles
<1>3. /\ requests' \in Seq(Requests)
      /\ \A d \in Calls : /\ Has(requests', d) <=> Has(requests, d) /\ c # d
                          /\ Single(requests', d)
  BY Heads
<1> HIDE DEF c
<1>4. Shape'
  BY <1>2, <1>3 DEF IInv, Shape, done
<1>5. Singles'
  BY <1>2, <1>3 DEF IInv, Singles
<1>6. OnePlace'
  BY <1>1, <1>2, <1>3 DEF IInv, OnePlace, done
<1> QED
  BY <1>4, <1>5, <1>6 DEF IInv

LEMMA ExecuteIInv ==
    ASSUME IInv, Execute
    PROVE  IInv'
<1> DEFINE c == Head(requests).of
           cookie == Head(requests).cookie
<1>1. requests # <<>> /\ c \in Calls /\ cookie \in Asked
  BY Heads DEF Execute, Requests
<1>2. jar \subseteq Asked /\ Cardinality(jar) \in Nat
  <2>1. IsFiniteSet(Asked)
    BY CookiesAssumption, FS_AddElement DEF Asked
  <2> QED
    BY <2>1, FS_Subset, FS_CardinalityType DEF IInv, Shape
<1>3. ASSUME NEW value \in Values, NEW unvisited \in SUBSET Asked,
             Reply(c, value, unvisited), jar' \subseteq Asked
      PROVE  IInv'
  <2> DEFINE r == [of |-> c, with |-> value, unvisited |-> unvisited]
  <2>1. r \in Replies /\ r.of = Head(requests).of
    BY <1>1 DEF Replies
  <2>2. replies' = Append(replies, r)
    BY <1>3 DEF Reply
  <2> HIDE DEF r
  <2> QED
    BY <1>1, <1>3, <2>1, <2>2, RequestBecomesReply DEF Execute
<1>4. \A b \in BOOLEAN : Success(b) \in Values
  BY DEF Values
<1>5. Missing \in Values /\ Deleted(Cardinality(jar)) \in Values
  BY <1>2 DEF Values
<1>6. ASSUME NEW ok \in BOOLEAN,
             jar' = IF ok THEN jar \cup {cookie} ELSE jar, Reply(c, Success(ok), {})
      PROVE  IInv'
  BY <1>1, <1>2, <1>3, <1>4, <1>6
<1>7. CASE jar' = jar /\ Reply(c, Missing, jar)
  BY <1>2, <1>3, <1>5, <1>7
<1>8. CASE jar' = {} /\ Reply(c, Deleted(Cardinality(jar)), {})
  BY <1>2, <1>3, <1>5, <1>8
<1> HIDE DEF c, cookie
<1> QED
  BY <1>6, <1>7, <1>8 DEF Execute, c, cookie

\* A visit takes a cookie out of the first reply, and leaves the calls alone.
LEMMA VisitIInv ==
    ASSUME IInv, NEW cookie \in Cookies, Visit(cookie)
    PROVE  IInv'
<1> DEFINE c == Head(replies).of
           r == [replies[1] EXCEPT !.unvisited = @ \ {cookie}]
<1>1. /\ replies # <<>> /\ replies \in Seq(Replies) /\ replies[1] \in Replies /\ c \in Calls
      /\ Head(replies) = replies[1]
  <2>1. replies # <<>> /\ replies \in Seq(Replies)
    BY DEF Visit, IInv, Shape
  <2>2. Head(replies) = replies[1] /\ replies[1] \in Replies
    BY <2>1
  <2> QED
    BY <2>1, <2>2 DEF Replies
<1>2. r \in Replies /\ r.of = replies[1].of
  BY <1>1 DEF Replies
<1>3. replies' = [replies EXCEPT ![1] = r]
  BY <1>1 DEF Visit, Visited
<1>4. results' = [results EXCEPT ![c] = @ \cup {cookie}]
  BY DEF Visit, Visited
<1>5. UNCHANGED <<jar, call, requests, queue, times>>
  BY DEF Visit, done
<1> HIDE DEF r
<1>6. /\ replies' \in Seq(Replies) /\ DOMAIN replies' = DOMAIN replies
      /\ \A i \in DOMAIN replies : replies'[i].of = replies[i].of
  BY <1>1, <1>2, <1>3
<1>7. \A d \in Calls : /\ Has(replies', d) <=> Has(replies, d)
                       /\ Single(replies, d) => Single(replies', d)
  BY <1>6 DEF Has, Single
<1>8. results' \in [Calls -> SUBSET Asked]
  BY <1>1, <1>4 DEF IInv, Shape, Asked
<1>9. Shape'
  BY <1>5, <1>6, <1>8 DEF IInv, Shape
<1>10. Singles'
  BY <1>5, <1>7 DEF IInv, Singles
<1>11. OnePlace'
  BY <1>5, <1>7 DEF IInv, OnePlace
<1> QED
  BY <1>9, <1>10, <1>11 DEF IInv

\* A reply becomes a block of the main queue, if there is a completion.
LEMMA ReplyBecomesBlock ==
    ASSUME IInv, replies # <<>>, NEW value \in Values, replies' = Tail(replies),
           IF call[Head(replies).of].completes
           THEN Post(Head(replies).of, value) ELSE UNCHANGED queue,
           UNCHANGED <<jar, call, results, requests, times>>
    PROVE  IInv'
<1>1. PICK c \in Calls :
          /\ c = Head(replies).of
          /\ Has(replies, c) /\ ~Has(requests, c) /\ ~Has(queue, c) /\ times[c] = 0
          /\ call[c].kind # "unmade"
  BY Heads DEF Replies, IInv, OnePlace
<1>2. /\ replies' \in Seq(Replies)
      /\ \A d \in Calls : /\ Has(replies', d) <=> Has(replies, d) /\ c # d
                          /\ Single(replies', d)
  BY <1>1, Heads
<1>3. CASE call[c].completes
  <2> DEFINE x == [of |-> c, with |-> value]
  <2>1. x \in Blocks /\ x.of = c
    BY DEF Blocks
  <2>2. queue' = Append(queue, x)
    BY <1>1, <1>3 DEF Post
  <2> HIDE DEF x
  <2>3. /\ queue' \in Seq(Blocks)
        /\ \A d \in Calls : /\ Has(queue', d) <=> Has(queue, d) \/ c = d
                            /\ Single(queue', d)
    BY <1>1, <2>1, <2>2, AppendHas DEF IInv, Shape, Singles
  <2>4. Shape'
    BY <1>2, <2>3 DEF IInv, Shape
  <2>5. Singles'
    BY <1>2, <2>3 DEF IInv, Singles
  <2>6. OnePlace'
    BY <1>1, <1>2, <1>3, <2>3 DEF IInv, OnePlace
  <2> QED
    BY <2>4, <2>5, <2>6 DEF IInv
<1>4. CASE ~call[c].completes
  <2>1. queue' = queue
    BY <1>1, <1>4
  <2>2. Shape' /\ Singles'
    BY <1>2, <2>1 DEF IInv, Shape, Singles
  <2>3. OnePlace'
    BY <1>2, <2>1 DEF IInv, OnePlace
  <2> QED
    BY <2>2, <2>3 DEF IInv
<1> QED
  BY <1>3, <1>4

LEMMA UiIInv == IInv /\ UiThread => IInv'
<1> SUFFICES ASSUME IInv, UiThread PROVE IInv'
  OBVIOUS
<1>1. CASE CollectorGoes
  <2>1. Head(replies).of \in Calls
    BY <1>1, Heads DEF CollectorGoes, Replies
  <2>2. call[Head(replies).of].completes
    BY <1>1, <2>1 DEF CollectorGoes, IInv, OnePlace
  <2>3. Listed(results[Head(replies).of]) \in Values
    BY <2>1 DEF Values, IInv, Shape
  <2> QED
    BY <1>1, <2>2, <2>3, ReplyBecomesBlock DEF CollectorGoes, done
<1>2. CASE OnComplete
  <2>1. Head(replies).with \in Values
    BY <1>2, Heads DEF OnComplete, Replies
  <2> QED
    BY <1>2, <2>1, ReplyBecomesBlock DEF OnComplete, done
<1> QED
  BY <1>1, <1>2, VisitIInv DEF UiThread

\* A request that is given up becomes a block if it is a listing, and nothing
\* if it is not.
LEMMA RequestGivenUp ==
    ASSUME IInv, requests # <<>>, Abandon(Head(requests).of), requests' = Tail(requests),
           UNCHANGED <<replies, jar, call, results, times>>
    PROVE  IInv'
<1>1. PICK c \in Calls :
          /\ c = Head(requests).of
          /\ Has(requests, c) /\ ~Has(replies, c) /\ ~Has(queue, c) /\ times[c] = 0
          /\ call[c].kind # "unmade"
  BY Heads DEF Requests, IInv, OnePlace
<1>2. /\ requests' \in Seq(Requests)
      /\ \A d \in Calls : /\ Has(requests', d) <=> Has(requests, d) /\ c # d
                          /\ Single(requests', d)
  BY <1>1, Heads
<1>3. CASE call[c].kind = "list"
  <2> DEFINE x == [of |-> c, with |-> Listed(results[c])]
  <2>1. x \in Blocks /\ x.of = c
    BY DEF Blocks, Values, IInv, Shape
  <2>2. queue' = Append(queue, x) /\ call[c].completes
    BY <1>1, <1>3 DEF Abandon, Post, IInv, OnePlace
  <2> HIDE DEF x
  <2>3. /\ queue' \in Seq(Blocks)
        /\ \A d \in Calls : /\ Has(queue', d) <=> Has(queue, d) \/ c = d
                            /\ Single(queue', d)
    BY <1>1, <2>1, <2>2, AppendHas DEF IInv, Shape, Singles
  <2>4. Shape'
    BY <1>2, <2>3 DEF IInv, Shape
  <2>5. Singles'
    BY <1>2, <2>3 DEF IInv, Singles
  <2>6. OnePlace'
    BY <1>1, <1>2, <2>2, <2>3 DEF IInv, OnePlace
  <2> QED
    BY <2>4, <2>5, <2>6 DEF IInv
<1>4. CASE call[c].kind # "list"
  <2>1. queue' = queue
    BY <1>1, <1>4 DEF Abandon
  <2>2. Shape' /\ Singles'
    BY <1>2, <2>1 DEF IInv, Shape, Singles
  <2>3. OnePlace'
    BY <1>2, <2>1 DEF IInv, OnePlace
  <2> QED
    BY <2>2, <2>3 DEF IInv
<1> QED
  BY <1>3, <1>4

\* So does a reply that is given up.
LEMMA ReplyGivenUp ==
    ASSUME IInv, replies # <<>>, Abandon(Head(replies).of), replies' = Tail(replies),
           UNCHANGED <<requests, jar, call, results, times>>
    PROVE  IInv'
<1>1. PICK c \in Calls :
          /\ c = Head(replies).of
          /\ Has(replies, c) /\ ~Has(requests, c) /\ ~Has(queue, c) /\ times[c] = 0
          /\ call[c].kind # "unmade"
  BY Heads DEF Replies, IInv, OnePlace
<1>2. CASE call[c].kind = "list"
  <2>1. Listed(results[c]) \in Values
    BY DEF Values, IInv, Shape
  <2>2. call[c].completes /\ Post(c, Listed(results[c]))
    BY <1>1, <1>2 DEF Abandon, IInv, OnePlace
  <2> QED
    BY <1>1, <2>1, <2>2, ReplyBecomesBlock
<1>3. CASE call[c].kind # "list"
  <2>1. queue' = queue
    BY <1>1, <1>3 DEF Abandon
  <2>2. /\ replies' \in Seq(Replies)
        /\ \A d \in Calls : /\ Has(replies', d) <=> Has(replies, d) /\ c # d
                            /\ Single(replies', d)
    BY <1>1, Heads
  <2>3. Shape' /\ Singles'
    BY <2>1, <2>2 DEF IInv, Shape, Singles
  <2>4. OnePlace'
    BY <2>1, <2>2 DEF IInv, OnePlace
  <2> QED
    BY <2>3, <2>4 DEF IInv
<1> QED
  BY <1>2, <1>3

\* A block calls its completion, which was not called before.
LEMMA CompletionIInv ==
    ASSUME IInv, Completion
    PROVE  IInv'
<1>1. PICK c \in Calls :
          /\ c = Head(queue).of
          /\ Has(queue, c) /\ ~Has(requests, c) /\ ~Has(replies, c) /\ times[c] = 0
          /\ call[c].kind # "unmade" /\ call[c].completes
  BY Heads DEF Completion, Blocks, IInv, OnePlace
<1>2. /\ queue' \in Seq(Blocks)
      /\ \A d \in Calls : /\ Has(queue', d) <=> Has(queue, d) /\ c # d
                          /\ Single(queue', d)
  BY <1>1, Heads DEF Completion
<1>3. /\ times' = [times EXCEPT ![c] = @ + 1]
      /\ UNCHANGED <<jar, call, results, requests, replies>>
  BY <1>1 DEF Completion
<1>4. times' \in [Calls -> Nat] /\ times'[c] = 1 /\ \A d \in Calls : d # c => times'[d] = times[d]
  BY <1>1, <1>3 DEF IInv, Shape
<1>5. Shape' /\ Singles'
  BY <1>2, <1>3, <1>4 DEF IInv, Shape, Singles
<1>6. OnePlace'
  BY <1>1, <1>2, <1>3, <1>4 DEF IInv, OnePlace
<1> QED
  BY <1>5, <1>6 DEF IInv

LEMMA StepIInv == IInv /\ [Next]_vars => IInv'
<1> SUFFICES ASSUME IInv, [Next]_vars PROVE IInv'
  OBVIOUS
<1>1. CASE Initialized
  BY <1>1 DEF Initialized, IInv, Shape, Singles, OnePlace, done
<1>2. CASE GiveUp
  BY <1>2, RequestGivenUp, ReplyGivenUp DEF GiveUp, done
<1>3. CASE UNCHANGED vars
  BY <1>3 DEF vars, IInv, Shape, Singles, OnePlace, done
<1> QED
  BY <1>1, <1>2, <1>3, HostIInv, ExecuteIInv, UiIInv, CompletionIInv DEF Next

\* What is in one place of the queue at most is counted once at most.
LEMMA PostedAtMostOnce == IInv => CompletedOnce
<1> SUFFICES ASSUME IInv, NEW c \in Calls
             PROVE  times[c] + Posted(c) <= IF call[c].completes THEN 1 ELSE 0
  BY DEF CompletedOnce
<1> DEFINE Places == {i \in DOMAIN queue : queue[i].of = c}
<1>1. Posted(c) = Cardinality(Places)
  BY DEF Posted
<1>2. CASE Has(queue, c)
  <2>1. PICK i \in DOMAIN queue : queue[i].of = c
    BY <1>2 DEF Has
  <2>2. Places = {i}
    BY <2>1 DEF IInv, Singles, Single
  <2>3. Cardinality(Places) = 1
    BY <2>2, FS_Singleton
  <2>4. times[c] = 0 /\ call[c].completes
    BY <1>2 DEF IInv, OnePlace
  <2> HIDE DEF Places
  <2> QED
    BY <1>1, <2>3, <2>4
<1>3. CASE ~Has(queue, c)
  <2>1. Places = {}
    BY <1>3 DEF Has
  <2>2. Cardinality(Places) = 0
    BY <2>1, FS_EmptySet
  <2>3. times[c] \in Nat /\ times[c] <= 1 /\ (times[c] = 1 => call[c].completes)
    BY DEF IInv, OnePlace, Shape
  <2> HIDE DEF Places
  <2> QED
    BY <1>1, <2>2, <2>3
<1> QED
  BY <1>2, <1>3

\* Whichever way a call takes (no manager, a refusal, a callback, a collector's
\* destructor, a request or a reply given up), its completion is called once at
\* most, and never if there is none.
THEOREM CompletesOnce == Spec => []CompletedOnce
<1>1. Spec => []IInv
  BY InitIInv, StepIInv, PTL DEF Spec
<1> QED
  BY <1>1, PostedAtMostOnce, PTL

-----------------------------------------------------------------------------
(***************************************************************************)
(* Answers are true: what a reply or a block carries is what CEF did for   *)
(* its call, the cookies still to be visited included.                     *)
(***************************************************************************)
Elems(s) == {s[i] : i \in DOMAIN s}

ReplyTrue(r) ==
    IF call[r.of].kind = "list" THEN effect[r.of] = Listed(results[r.of] \cup r.unvisited)
                                ELSE r.with = effect[r.of] /\ r.unvisited = {}

Truth ==
    /\ jar \subseteq Cookies
    /\ \A r \in Elems(requests) : call[r.of].kind = "set" => r.cookie \in Cookies
    /\ \A r \in Elems(replies) : ReplyTrue(r) /\ r.unvisited \subseteq Cookies
    /\ \A r \in Elems(queue) : TrueAnswer(r.of, r.with)
    /\ \A c \in Calls :
          /\ results[c] \subseteq Cookies
          /\ effect[c] = Missing => results[c] = {}
          /\ Has(requests, c) \/ call[c].kind = "unmade" => effect[c] = Missing
          /\ times[c] = 0 => answer[c] = Missing
          /\ \A value : answer[c] = value /\ value # Missing => TrueAnswer(c, value)

Histories ==
    /\ effect \in [Calls -> Values] /\ answer \in [Calls -> Values] /\ lost \subseteq Calls

TInv == IInv /\ Histories /\ Truth

LEMMA AppendElems ==
    ASSUME NEW S, NEW s \in Seq(S), NEW x \in S
    PROVE  \A r \in Elems(Append(s, x)) : r \in Elems(s) \/ r = x
<1>1. /\ DOMAIN Append(s, x) = 1..(Len(s) + 1) /\ DOMAIN s = 1..Len(s) /\ Len(s) \in Nat
      /\ \A i \in 1..Len(s) : Append(s, x)[i] = s[i]
      /\ Append(s, x)[Len(s) + 1] = x
  OBVIOUS
<1> QED
  BY <1>1 DEF Elems

LEMMA TailElems ==
    ASSUME NEW S, NEW s \in Seq(S), s # <<>>
    PROVE  /\ \A r \in Elems(Tail(s)) : r \in Elems(s)
           /\ Head(s) \in Elems(s)
<1>1. /\ DOMAIN Tail(s) = 1..(Len(s) - 1) /\ DOMAIN s = 1..Len(s) /\ Len(s) \in Nat /\ Len(s) > 0
      /\ \A i \in 1..(Len(s) - 1) : Tail(s)[i] = s[i + 1]
      /\ Head(s) = s[1]
  OBVIOUS
<1> QED
  BY <1>1 DEF Elems

\* The calls in a sequence are those it has.
LEMMA ElemsHave ==
    ASSUME IInv
    PROVE  /\ \A r \in Elems(requests) : r.of \in Calls /\ Has(requests, r.of)
           /\ \A r \in Elems(replies) : r.of \in Calls /\ Has(replies, r.of)
           /\ \A r \in Elems(queue) : r.of \in Calls /\ Has(queue, r.of)
<1>1. /\ \A i \in DOMAIN requests : requests[i] \in Requests
      /\ \A i \in DOMAIN replies : replies[i] \in Replies
      /\ \A i \in DOMAIN queue : queue[i] \in Blocks
  BY DEF IInv, Shape
<1> QED
  BY <1>1 DEF Elems, Has, Requests, Replies, Blocks

LEMMA InitTInv == Init => TInv
<1> SUFFICES ASSUME Init PROVE TInv
  OBVIOUS
<1>1. requests = <<>> /\ replies = <<>> /\ queue = <<>>
  BY DEF Init
<1>2. Histories
  BY DEF Init, Histories, Values
<1>3. Truth
  BY <1>1 DEF Init, Truth, Elems, Has
<1> QED
  BY <1>2, <1>3, InitIInv DEF TInv

\* An answer that is true stays true while CEF does nothing for its call.
LEMMA TrueStays ==
    ASSUME NEW c, NEW value, TrueAnswer(c, value),
           effect'[c] = effect[c], lost \subseteq lost', call'[c] = call[c]
    PROVE  TrueAnswer(c, value)'
BY DEF TrueAnswer

\* A new call has no effect yet, and a refusal says so.
LEMMA MadeTInv ==
    ASSUME TInv, NEW c \in Calls, NEW kind \in {"set", "list", "delete"}, NEW completes \in BOOLEAN,
           NEW cookie \in Asked, NEW value \in Values,
           Made(c, kind, completes), kind = "list" => completes, kind = "set" => cookie \in Cookies,
           /\ kind = "set" => value = Success(FALSE)
           /\ kind = "list" => value = Listed({})
           /\ kind = "delete" => value = Deleted(0),
           Accepted(c, cookie) \/ Refused(c, completes, value)
    PROVE  TInv'
<1>1. IInv'
  BY MadeIInv DEF TInv
<1>2. /\ call[c].kind = "unmade" /\ call'[c].kind = kind
      /\ \A d \in Calls : d # c => call'[d] = call[d]
      /\ UNCHANGED <<jar, results, replies, done, effect, lost>>
  BY DEF Made, TInv, IInv, Shape
<1>3. /\ effect[c] = Missing /\ times[c] = 0 /\ answer[c] = Missing
      /\ ~Has(requests, c) /\ ~Has(replies, c) /\ ~Has(queue, c)
  BY <1>2 DEF TInv, Truth, IInv, OnePlace
<1>4. Histories'
  BY <1>2 DEF TInv, Histories, done
<1>5. TrueAnswer(c, value)'
  BY <1>2, <1>3 DEF TrueAnswer
<1>6. \A r \in Elems(requests') : r \in Elems(requests) \/ (r.of = c /\ r.cookie = cookie)
  <2>1. CASE Accepted(c, cookie)
    <3> DEFINE x == [of |-> c, cookie |-> cookie]
    <3>1. x \in Requests /\ requests' = Append(requests, x) /\ x.of = c /\ x.cookie = cookie
      BY <2>1 DEF Accepted, Requests
    <3> HIDE DEF x
    <3> QED
      BY <3>1, AppendElems DEF TInv, IInv, Shape
  <2>2. CASE Refused(c, completes, value)
    BY <2>2 DEF Refused
  <2> QED
    BY <2>1, <2>2
<1>7. \A r \in Elems(queue') : r \in Elems(queue) \/ (r.of = c /\ r.with = value)
  <2>1. CASE Refused(c, completes, value) /\ completes
    <3> DEFINE x == [of |-> c, with |-> value]
    <3>1. x \in Blocks /\ queue' = Append(queue, x) /\ x.of = c /\ x.with = value
      BY <2>1 DEF Refused, Post, Blocks
    <3> HIDE DEF x
    <3> QED
      BY <3>1, AppendElems DEF TInv, IInv, Shape
  <2>2. CASE queue' = queue
    BY <2>2
  <2> QED
    BY <2>1, <2>2 DEF Refused, Accepted
<1>8. \A r \in Elems(requests') : call'[r.of].kind = "set" => r.cookie \in Cookies
  BY <1>2, <1>3, <1>6, ElemsHave DEF TInv, Truth
<1>9. \A r \in Elems(replies) : ReplyTrue(r)'
  BY <1>2, <1>3, ElemsHave DEF TInv, Truth, ReplyTrue
<1>10. \A r \in Elems(queue') : TrueAnswer(r.of, r.with)'
  <2>1. ASSUME NEW r \in Elems(queue) PROVE TrueAnswer(r.of, r.with)'
    <3>1. r.of \in Calls /\ r.of # c /\ TrueAnswer(r.of, r.with)
      BY <1>3, ElemsHave DEF TInv, Truth
    <3> QED
      BY <1>2, <3>1, TrueStays
  <2> QED
    BY <1>5, <1>7, <2>1
<1>11. ASSUME NEW d \in Calls
       PROVE  /\ results'[d] \subseteq Cookies
              /\ effect'[d] = Missing => results'[d] = {}
              /\ Has(requests', d) \/ call'[d].kind = "unmade" => effect'[d] = Missing
              /\ times'[d] = 0 => answer'[d] = Missing
              /\ \A v : answer'[d] = v /\ v # Missing => TrueAnswer(d, v)'
  <2>1. CASE d = c
    BY <1>2, <1>3, <2>1 DEF TInv, Truth, done
  <2>2. CASE d # c
    <3>1. Has(requests', d) => Has(requests, d)
      BY <1>6, <2>2 DEF Has, Elems
    <3>2. \A v : answer'[d] = v /\ v # Missing => TrueAnswer(d, v)'
      BY <1>2, <2>2, TrueStays DEF TInv, Truth, done
    <3> QED
      BY <1>2, <2>2, <3>1, <3>2 DEF TInv, Truth, done
  <2> QED
    BY <2>1, <2>2
<1>12. Truth'
  BY <1>2, <1>8, <1>9, <1>10, <1>11 DEF TInv, Truth
<1> QED
  BY <1>1, <1>4, <1>12 DEF TInv

LEMMA HostTInv == TInv /\ HostCalls => TInv'
<1> SUFFICES ASSUME TInv, HostCalls PROVE TInv'
  OBVIOUS
<1>1. Success(FALSE) \in Values /\ Listed({}) \in Values /\ Deleted(0) \in Values
  BY DEF Values
<1>2. ASSUME NEW c \in Calls, NEW cookie \in Cookies, NEW b \in BOOLEAN, SetCookie(c, cookie, b)
      PROVE  TInv'
  BY <1>1, <1>2, MadeTInv DEF SetCookie, Asked
<1>3. ASSUME NEW c \in Calls, GetAllCookies(c) PROVE TInv'
  BY <1>1, <1>3, MadeTInv DEF GetAllCookies, Asked
<1>4. ASSUME NEW c \in Calls, NEW b \in BOOLEAN, DeleteAllCookies(c, b) PROVE TInv'
  BY <1>1, <1>4, MadeTInv DEF DeleteAllCookies, Asked
<1> QED
  BY <1>2, <1>3, <1>4 DEF HostCalls

\* CEF carries a request out and says what it did.
LEMMA CarriedOutTInv ==
    ASSUME TInv, Execute, NEW c \in Calls, c = Head(requests).of,
           NEW value \in Values, NEW unvisited \in SUBSET Cookies, NEW e \in Values,
           Reply(c, value, unvisited), effect' = [effect EXCEPT ![c] = e], jar' \subseteq Cookies,
           IF call[c].kind = "list" THEN e = Listed(unvisited) ELSE value = e /\ unvisited = {}
    PROVE  TInv'
<1>1. IInv'
  BY ExecuteIInv DEF TInv
<1>2. /\ requests # <<>> /\ requests' = Tail(requests)
      /\ UNCHANGED <<call, results, queue, done, lost>>
  BY DEF Execute
<1>3. /\ Has(requests, c) /\ ~Has(replies, c) /\ ~Has(queue, c) /\ times[c] = 0
      /\ call[c].kind # "unmade" /\ effect[c] = Missing /\ results[c] = {} /\ answer[c] = Missing
  BY <1>2, Heads DEF TInv, Truth, IInv, OnePlace
<1>4. effect' \in [Calls -> Values] /\ effect'[c] = e
      /\ \A d \in Calls : d # c => effect'[d] = effect[d]
  BY DEF TInv, Histories
<1>5. Histories'
  BY <1>2, <1>4 DEF TInv, Histories, done
<1>6. \A r \in Elems(requests') : r \in Elems(requests)
  BY <1>2, TailElems DEF TInv, IInv, Shape
<1>7. ~Has(requests', c)
  BY <1>2, Heads DEF TInv
<1>8. \A r \in Elems(replies') :
          r \in Elems(replies) \/ (r.of = c /\ r.with = value /\ r.unvisited = unvisited)
  <2> DEFINE x == [of |-> c, with |-> value, unvisited |-> unvisited]
  <2>1. x \in Replies /\ x.of = c /\ x.with = value /\ x.unvisited = unvisited
    BY DEF Replies, Asked
  <2>2. replies' = Append(replies, x)
    BY DEF Reply
  <2> HIDE DEF x
  <2> QED
    BY <2>1, <2>2, AppendElems DEF TInv, IInv, Shape
<1>9. \A r \in Elems(replies') : ReplyTrue(r)' /\ r.unvisited \subseteq Cookies
  <2>1. ASSUME NEW r \in Elems(replies) PROVE ReplyTrue(r)' /\ r.unvisited \subseteq Cookies
    <3>1. r.of \in Calls /\ r.of # c /\ ReplyTrue(r) /\ r.unvisited \subseteq Cookies
      BY <1>3, ElemsHave DEF TInv, Truth
    <3> QED
      BY <1>2, <1>4, <3>1 DEF ReplyTrue
  <2>2. ASSUME NEW r, r.of = c, r.with = value, r.unvisited = unvisited
        PROVE  ReplyTrue(r)' /\ r.unvisited \subseteq Cookies
    BY <1>2, <1>3, <1>4, <2>2 DEF ReplyTrue
  <2> QED
    BY <1>8, <2>1, <2>2
<1>10. \A r \in Elems(queue) : TrueAnswer(r.of, r.with)'
  <2> SUFFICES ASSUME NEW r \in Elems(queue) PROVE TrueAnswer(r.of, r.with)'
    OBVIOUS
  <2>1. r.of \in Calls /\ r.of # c /\ TrueAnswer(r.of, r.with)
    BY <1>3, ElemsHave DEF TInv, Truth
  <2> QED
    BY <1>2, <1>4, <2>1, TrueStays
<1>11. ASSUME NEW d \in Calls
       PROVE  /\ effect'[d] = Missing => results[d] = {}
              /\ Has(requests', d) \/ call[d].kind = "unmade" => effect'[d] = Missing
              /\ \A v : answer[d] = v /\ v # Missing => TrueAnswer(d, v)'
  <2>1. CASE d = c
    BY <1>3, <1>7, <2>1
  <2>2. CASE d # c
    <3>1. Has(requests', d) => Has(requests, d)
      BY <1>6 DEF Has, Elems
    <3>2. \A v : answer[d] = v /\ v # Missing => TrueAnswer(d, v)'
      BY <1>2, <1>4, <2>2, TrueStays DEF TInv, Truth
    <3> QED
      BY <1>4, <2>2, <3>1, <3>2 DEF TInv, Truth
  <2> QED
    BY <2>1, <2>2
<1>12. Truth'
  BY <1>2, <1>6, <1>9, <1>10, <1>11 DEF TInv, Truth, done
<1> QED
  BY <1>1, <1>5, <1>12 DEF TInv

LEMMA ExecuteTInv ==
    ASSUME TInv, Execute
    PROVE  TInv'
<1>1. PICK c \in Calls : c = Head(requests).of /\ requests # <<>>
  BY Heads DEF Execute, Requests, TInv
<1>2. /\ jar \subseteq Cookies /\ Cardinality(jar) \in Nat
  BY CookiesAssumption, FS_Subset, FS_CardinalityType DEF TInv, Truth
<1>3. /\ \A b \in BOOLEAN : Success(b) \in Values
      /\ Missing \in Values /\ Listed(jar) \in Values /\ Deleted(Cardinality(jar)) \in Values
  BY <1>2 DEF Values, Asked
<1>4. call[c].kind = "set" => Head(requests).cookie \in Cookies
  BY <1>1, TailElems DEF TInv, Truth, IInv, Shape
<1>5. ASSUME NEW ok \in BOOLEAN, call[c].kind = "set",
             jar' = IF ok THEN jar \cup {Head(requests).cookie} ELSE jar,
             Reply(c, Success(ok), {}), effect' = [effect EXCEPT ![c] = Success(ok)]
      PROVE  TInv'
  <2>1. jar' \subseteq Cookies
    BY <1>2, <1>4, <1>5
  <2> QED
    BY <1>1, <1>3, <1>5, <2>1, CarriedOutTInv
<1>6. CASE /\ call[c].kind = "list" /\ jar' = jar
           /\ Reply(c, Missing, jar) /\ effect' = [effect EXCEPT ![c] = Listed(jar)]
  BY <1>1, <1>2, <1>3, <1>6, CarriedOutTInv
<1>7. CASE /\ call[c].kind = "delete" /\ jar' = {}
           /\ Reply(c, Deleted(Cardinality(jar)), {})
           /\ effect' = [effect EXCEPT ![c] = Deleted(Cardinality(jar))]
  BY <1>1, <1>2, <1>3, <1>7, CarriedOutTInv
<1> QED
  BY <1>1, <1>5, <1>6, <1>7 DEF Execute

\* A visit moves a cookie from what is to be visited to the results.
LEMMA VisitTInv ==
    ASSUME TInv, NEW cookie \in Cookies, Visit(cookie)
    PROVE  TInv'
<1>1. IInv'
  BY VisitIInv DEF TInv
<1>2. /\ replies # <<>> /\ replies \in Seq(Replies) /\ replies[1] \in Replies
      /\ Head(replies) = replies[1] /\ replies[1] \in Elems(replies)
  <2>1. replies # <<>> /\ replies \in Seq(Replies)
    BY DEF Visit, TInv, IInv, Shape
  <2>2. Head(replies) = replies[1] /\ replies[1] \in Replies
    BY <2>1
  <2> QED
    BY <2>1, <2>2, TailElems
<1>3. PICK c \in Calls : c = Head(replies).of
  BY <1>2 DEF Replies
<1>4. /\ cookie \in Head(replies).unvisited
      /\ results' = [results EXCEPT ![c] = @ \cup {cookie}]
      /\ UNCHANGED <<jar, call, requests, queue, done, effect, lost>>
  BY <1>3 DEF Visit, Visited
<1>5. /\ results'[c] = results[c] \cup {cookie}
      /\ \A d \in Calls : d # c => results'[d] = results[d]
  BY <1>3, <1>4 DEF TInv, IInv, Shape
<1>6. /\ call[c].kind = "list"
         => effect[c] = Listed(results[c] \cup Head(replies).unvisited)
      /\ Head(replies).unvisited \subseteq Cookies /\ results[c] \subseteq Cookies
  BY <1>2, <1>3 DEF TInv, Truth, ReplyTrue
<1>7. \A r \in Elems(replies') :
          \/ r \in Elems(replies) /\ r.of # c
          \/ /\ r.of = c /\ r.with = Head(replies).with
             /\ r.unvisited = Head(replies).unvisited \ {cookie}
  <2> DEFINE x == [replies[1] EXCEPT !.unvisited = @ \ {cookie}]
  <2>1. x.of = c /\ x.with = Head(replies).with /\ x.unvisited = Head(replies).unvisited \ {cookie}
    BY <1>2, <1>3 DEF Replies
  <2>2. replies' = [replies EXCEPT ![1] = x]
    BY <1>2 DEF Visit, Visited
  <2>3. DOMAIN replies' = DOMAIN replies /\ 1 \in DOMAIN replies
    BY <1>2, <2>2
  <2>4. \A i \in DOMAIN replies : i # 1 => replies[i].of # c
    BY <1>2, <1>3, <2>3 DEF TInv, IInv, Singles, Single
  <2> HIDE DEF x
  <2> QED
    BY <2>1, <2>2, <2>3, <2>4 DEF Elems
<1>8. \A r \in Elems(replies') : ReplyTrue(r)' /\ r.unvisited \subseteq Cookies
  <2>1. ASSUME NEW r \in Elems(replies), r.of # c
        PROVE  ReplyTrue(r)' /\ r.unvisited \subseteq Cookies
    <3>1. r.of \in Calls /\ ReplyTrue(r) /\ r.unvisited \subseteq Cookies
      BY ElemsHave DEF TInv, Truth
    <3> QED
      BY <1>4, <1>5, <2>1, <3>1 DEF ReplyTrue
  <2>2. ASSUME NEW r, r.of = c, r.with = Head(replies).with,
               r.unvisited = Head(replies).unvisited \ {cookie}
        PROVE  ReplyTrue(r)' /\ r.unvisited \subseteq Cookies
    <3>1. results'[c] \cup r.unvisited = results[c] \cup Head(replies).unvisited
      BY <1>4, <1>5, <2>2
    <3>2. call[c].kind # "list"
            => Head(replies).with = effect[c] /\ Head(replies).unvisited = {}
      BY <1>2, <1>3 DEF TInv, Truth, ReplyTrue
    <3> QED
      BY <1>4, <1>6, <2>2, <3>1, <3>2 DEF ReplyTrue
  <2> QED
    BY <1>7, <2>1, <2>2
<1>9. effect[c] # Missing
  <2>1. call[c].kind = "list"
    BY <1>2, <1>3, <1>4 DEF TInv, Truth, ReplyTrue
  <2> QED
    BY <1>6, <2>1, MissingAssumption
<1>10. \A r \in Elems(queue) : TrueAnswer(r.of, r.with)'
  <2> SUFFICES ASSUME NEW r \in Elems(queue) PROVE TrueAnswer(r.of, r.with)'
    OBVIOUS
  <2> QED
    BY <1>4, TrueStays DEF TInv, Truth
<1>11. ASSUME NEW d \in Calls
       PROVE  /\ results'[d] \subseteq Cookies
              /\ effect[d] = Missing => results'[d] = {}
              /\ \A v : answer[d] = v /\ v # Missing => TrueAnswer(d, v)'
  <2>1. results'[d] \subseteq Cookies /\ (effect[d] = Missing => results'[d] = {})
    BY <1>5, <1>6, <1>9 DEF TInv, Truth
  <2>2. \A v : answer[d] = v /\ v # Missing => TrueAnswer(d, v)'
    BY <1>4, TrueStays DEF TInv, Truth
  <2> QED
    BY <2>1, <2>2
<1>12. Histories' /\ Truth'
  BY <1>4, <1>8, <1>10, <1>11 DEF TInv, Histories, Truth, done
<1> QED
  BY <1>1, <1>12 DEF TInv

\* A call leaves its place, and a block that is posted for it is true.
LEMMA PlacesTInv ==
    ASSUME TInv, IInv', NEW c \in Calls, NEW value \in Values,
           UNCHANGED <<jar, call, results, done, effect>>,
           lost \subseteq lost', lost' \subseteq Calls,
           \A r \in Elems(requests') : r \in Elems(requests),
           \A r \in Elems(replies') : r \in Elems(replies),
           \/ UNCHANGED queue
           \/ Post(c, value) /\ TrueAnswer(c, value)'
    PROVE  TInv'
<1>1. \A r \in Elems(queue') : r \in Elems(queue) \/ (r.of = c /\ r.with = value /\ TrueAnswer(c, value)')
  <2>1. CASE UNCHANGED queue
    BY <2>1
  <2>2. CASE Post(c, value) /\ TrueAnswer(c, value)'
    <3> DEFINE x == [of |-> c, with |-> value]
    <3>1. x \in Blocks /\ queue' = Append(queue, x) /\ x.of = c /\ x.with = value
      BY <2>2 DEF Post, Blocks
    <3> HIDE DEF x
    <3> QED
      BY <2>2, <3>1, AppendElems DEF TInv, IInv, Shape
  <2> QED
    BY <2>1, <2>2
<1>2. \A r \in Elems(queue') : TrueAnswer(r.of, r.with)'
  <2>1. ASSUME NEW r \in Elems(queue) PROVE TrueAnswer(r.of, r.with)'
    BY TrueStays DEF TInv, Truth
  <2> QED
    BY <1>1, <2>1
<1>3. \A r \in Elems(replies') : ReplyTrue(r)' /\ r.unvisited \subseteq Cookies
  <2> SUFFICES ASSUME NEW r \in Elems(replies) PROVE ReplyTrue(r)' /\ r.unvisited \subseteq Cookies
    OBVIOUS
  <2> QED
    BY DEF TInv, Truth, ReplyTrue
<1>4. ASSUME NEW d \in Calls
      PROVE  /\ Has(requests', d) => Has(requests, d)
             /\ \A v : answer[d] = v /\ v # Missing => TrueAnswer(d, v)'
  <2>1. Has(requests', d) => Has(requests, d)
    BY DEF Has, Elems
  <2>2. \A v : answer[d] = v /\ v # Missing => TrueAnswer(d, v)'
    BY TrueStays DEF TInv, Truth
  <2> QED
    BY <2>1, <2>2
<1>5. Histories' /\ Truth'
  BY <1>2, <1>3, <1>4 DEF TInv, Histories, Truth, done
<1> QED
  BY <1>5 DEF TInv

\* The destructor posts all that the collector was to collect, a callback what
\* it is called with.
LEMMA AnsweredTInv ==
    ASSUME TInv, CollectorGoes \/ OnComplete
    PROVE  TInv'
<1>1. IInv'
  BY UiIInv DEF TInv, UiThread
<1>2. /\ replies # <<>> /\ replies' = Tail(replies) /\ Head(replies) \in Elems(replies)
      /\ \A r \in Elems(replies') : r \in Elems(replies)
      /\ UNCHANGED <<jar, call, results, requests, done, effect, lost>>
  BY TailElems DEF CollectorGoes, OnComplete, TInv, IInv, Shape
<1>3. PICK c \in Calls : c = Head(replies).of /\ ReplyTrue(Head(replies))
  BY <1>2, ElemsHave DEF TInv, Truth
<1>4. CASE CollectorGoes
  <2>1. /\ Post(c, Listed(results[c])) /\ effect[c] = Listed(results[c])
        /\ results[c] \cup Head(replies).unvisited = results[c]
    BY <1>3, <1>4 DEF CollectorGoes, ReplyTrue
  <2>2. Listed(results[c]) \in Values
    BY DEF TInv, IInv, Shape, Values
  <2>3. TrueAnswer(c, Listed(results[c]))'
    BY <1>2, <2>1 DEF TrueAnswer
  <2> QED
    BY <1>1, <1>2, <2>1, <2>2, <2>3, PlacesTInv DEF TInv, Histories
<1>5. CASE OnComplete
  <2>1. PICK value \in Values : value = Head(replies).with
    BY <1>2, Heads DEF TInv, Replies
  <2>2. TrueAnswer(c, value)'
    BY <1>2, <1>3, <1>5, <2>1 DEF OnComplete, ReplyTrue, TrueAnswer
  <2>3. UNCHANGED queue \/ Post(c, value)
    BY <1>3, <1>5, <2>1 DEF OnComplete
  <2> QED
    BY <1>1, <1>2, <2>2, <2>3, PlacesTInv DEF TInv, Histories
<1> QED
  BY <1>4, <1>5

\* What is given up counts as lost, and a collector posts what there is.
LEMMA AbandonTrue ==
    ASSUME TInv, NEW c \in Calls, Abandon(c), Has(requests, c) \/ Has(replies, c),
           UNCHANGED <<call, effect>>
    PROVE  \E value \in Values : UNCHANGED queue \/ (Post(c, value) /\ TrueAnswer(c, value)')
<1>1. c \in lost'
  BY DEF Abandon
<1>2. CASE call[c].kind = "list"
  <2>1. PICK value \in Values : value = Listed(results[c])
    BY DEF TInv, IInv, Shape, Values
  <2>2. Post(c, value)
    BY <1>2, <2>1 DEF Abandon
  <2>3. effect[c] = Missing => value = Listed({})
    BY <2>1 DEF TInv, Truth
  <2>4. TrueAnswer(c, value)'
    BY <1>1, <1>2, <2>3 DEF TrueAnswer
  <2> QED
    BY <2>2, <2>4
<1>3. CASE call[c].kind # "list"
  BY <1>3 DEF Abandon, Values
<1> QED
  BY <1>2, <1>3

LEMMA GiveUpTInv ==
    ASSUME TInv, GiveUp
    PROVE  TInv'
<1>1. IInv'
  BY StepIInv DEF TInv, Next
<1>2. UNCHANGED <<jar, call, results, done, effect>>
  BY DEF GiveUp
<1>3. CASE /\ requests # <<>> /\ Abandon(Head(requests).of)
           /\ requests' = Tail(requests) /\ UNCHANGED replies
  <2>1. PICK c \in Calls : c = Head(requests).of /\ Has(requests, c)
    BY <1>3, Heads DEF TInv, Requests
  <2>2. \A r \in Elems(requests') : r \in Elems(requests)
    BY <1>3, TailElems DEF TInv, IInv, Shape
  <2>3. Abandon(c) /\ lost' = lost \cup {c} /\ lost' \subseteq Calls
    BY <1>3, <2>1 DEF Abandon, TInv, Histories
  <2>4. PICK value \in Values : UNCHANGED queue \/ (Post(c, value) /\ TrueAnswer(c, value)')
    BY <1>2, <2>1, <2>3, AbandonTrue
  <2> QED
    BY <1>1, <1>2, <1>3, <2>2, <2>3, <2>4, PlacesTInv
<1>4. CASE /\ replies # <<>> /\ Abandon(Head(replies).of)
           /\ replies' = Tail(replies) /\ UNCHANGED requests
  <2>1. PICK c \in Calls : c = Head(replies).of /\ Has(replies, c)
    BY <1>4, Heads DEF TInv, Replies
  <2>2. \A r \in Elems(replies') : r \in Elems(replies)
    BY <1>4, TailElems DEF TInv, IInv, Shape
  <2>3. Abandon(c) /\ lost' = lost \cup {c} /\ lost' \subseteq Calls
    BY <1>4, <2>1 DEF Abandon, TInv, Histories
  <2>4. PICK value \in Values : UNCHANGED queue \/ (Post(c, value) /\ TrueAnswer(c, value)')
    BY <1>2, <2>1, <2>3, AbandonTrue
  <2> QED
    BY <1>1, <1>2, <1>4, <2>2, <2>3, <2>4, PlacesTInv
<1> QED
  BY <1>3, <1>4 DEF GiveUp

\* A completion is told what its block carries.
LEMMA CompletionTInv ==
    ASSUME TInv, Completion
    PROVE  TInv'
<1>1. IInv'
  BY CompletionIInv DEF TInv
<1>2. /\ queue # <<>> /\ Head(queue) \in Elems(queue)
      /\ \A r \in Elems(queue') : r \in Elems(queue)
      /\ UNCHANGED <<jar, call, results, requests, replies, effect, lost>>
  BY TailElems DEF Completion, TInv, IInv, Shape
<1>3. PICK c \in Calls : c = Head(queue).of
  BY <1>2, ElemsHave DEF TInv
<1>4. PICK value \in Values : value = Head(queue).with
  BY <1>2, Heads DEF TInv, Blocks
<1>5. TrueAnswer(c, value)
  BY <1>2, <1>3, <1>4 DEF TInv, Truth
<1>6. /\ answer' \in [Calls -> Values] /\ answer'[c] = value
      /\ times'[c] = times[c] + 1 /\ times[c] \in Nat
      /\ \A d \in Calls : d # c => answer'[d] = answer[d] /\ times'[d] = times[d]
  BY <1>3, <1>4 DEF Completion, TInv, Histories, IInv, Shape
<1>7. \A r \in Elems(queue') : TrueAnswer(r.of, r.with)'
  <2> SUFFICES ASSUME NEW r \in Elems(queue) PROVE TrueAnswer(r.of, r.with)'
    BY <1>2
  <2> QED
    BY <1>2, TrueStays DEF TInv, Truth
<1>8. ASSUME NEW d \in Calls
      PROVE  /\ times'[d] = 0 => answer'[d] = Missing
             /\ \A v : answer'[d] = v /\ v # Missing => TrueAnswer(d, v)'
  <2>1. CASE d = c
    <3>1. TrueAnswer(c, value)'
      BY <1>2, <1>5, TrueStays
    <3> QED
      BY <1>6, <2>1, <3>1
  <2>2. CASE d # c
    <3>1. \A v : answer'[d] = v /\ v # Missing => TrueAnswer(d, v)'
      BY <1>2, <1>6, <2>2, TrueStays DEF TInv, Truth
    <3> QED
      BY <1>6, <2>2, <3>1 DEF TInv, Truth
  <2> QED
    BY <2>1, <2>2
<1>9. \A r \in Elems(replies) : ReplyTrue(r)' <=> ReplyTrue(r)
  BY <1>2 DEF ReplyTrue
<1>10. Histories' /\ Truth'
  BY <1>2, <1>6, <1>7, <1>8, <1>9 DEF TInv, Histories, Truth
<1> QED
  BY <1>1, <1>10 DEF TInv

\* Steps that change none of this.
LEMMA IdleTInv ==
    ASSUME TInv, Initialized \/ UNCHANGED vars
    PROVE  TInv'
<1>1. IInv'
  BY StepIInv DEF TInv, Next
<1>2. UNCHANGED <<jar, call, results, requests, replies, queue, done, effect, lost>>
  BY DEF Initialized, vars
<1> QED
  BY <1>1, <1>2 DEF TInv, Histories, Truth, TrueAnswer, ReplyTrue, done

LEMMA StepTInv == TInv /\ [Next]_vars => TInv'
<1> SUFFICES ASSUME TInv, [Next]_vars PROVE TInv'
  OBVIOUS
<1>1. CASE UiThread
  BY <1>1, VisitTInv, AnsweredTInv DEF UiThread
<1> QED
  BY <1>1, HostTInv, ExecuteTInv, GiveUpTInv, CompletionTInv, IdleTInv DEF Next

\* Whatever the host asks and CEF does, refuses or gives up, in whatever order, a
\* completion is told what CEF did for its call: a listing is complete and of
\* one moment, and success is never made up.
THEOREM AnswersTrue == Spec => []AnswersAreTrue
<1>1. Spec => []TInv
  BY InitTInv, StepTInv, PTL DEF Spec
<1>2. TInv => AnswersAreTrue
  BY DEF TInv, Truth, AnswersAreTrue
<1> QED
  BY <1>1, <1>2, PTL

-----------------------------------------------------------------------------
(***************************************************************************)
(* Types: what a completion takes depends on its call, so a block must     *)
(* never get to the completion of another kind of call.                    *)
(***************************************************************************)
Fitting ==
    /\ valid \in BOOLEAN
    /\ \A r \in Elems(replies) : call[r.of].kind # "list" => r.with \in Answers(r.of)
    /\ \A r \in Elems(queue) : r.with \in Answers(r.of)
    /\ \A c \in Calls : /\ effect[c] \in Answers(c) \cup {Missing}
                        /\ answer[c] \in Answers(c) \cup {Missing}

AInv == TInv /\ Fitting

LEMMA InitAInv == Init => AInv
<1> SUFFICES ASSUME Init PROVE AInv
  OBVIOUS
<1>1. TInv
  BY InitTInv
<1>2. Elems(replies) = {} /\ Elems(queue) = {}
  BY DEF Init, Elems
<1>3. \A c \in Calls : effect[c] = Missing /\ answer[c] = Missing
  BY DEF Init
<1>4. Fitting
  BY <1>2, <1>3 DEF Init, Fitting
<1> QED
  BY <1>1, <1>4 DEF AInv

\* Steps of CEF and of the main thread make no calls.
LEMMA FittingKept ==
    ASSUME AInv, TInv', call' = call, valid' \in BOOLEAN,
           \A r \in Elems(replies') :
               r \in Elems(replies) \/ (call[r.of].kind # "list" => r.with \in Answers(r.of)),
           \A r \in Elems(queue') : r \in Elems(queue) \/ r.with \in Answers(r.of),
           \A c \in Calls : /\ effect'[c] = effect[c] \/ effect'[c] \in Answers(c)
                            /\ answer'[c] = answer[c] \/ answer'[c] \in Answers(c)
    PROVE  AInv'
<1>1. \A c : Answers(c)' = Answers(c)
  BY DEF Answers
<1> QED
  BY <1>1 DEF AInv, Fitting

\* The number of cookies deleted is one that the store can have had.
LEMMA JarCounts ==
    ASSUME AInv
    PROVE  Cardinality(jar) \in 0 .. Cardinality(Cookies)
<1>1. jar \subseteq Cookies
  BY DEF AInv, TInv, Truth
<1>2. IsFiniteSet(jar) /\ Cardinality(jar) <= Cardinality(Cookies)
  BY <1>1, CookiesAssumption, FS_Subset
<1> QED
  BY <1>2, CookiesAssumption, FS_CardinalityType

LEMMA MadeAInv ==
    ASSUME AInv, TInv', NEW c \in Calls, NEW kind \in {"set", "list", "delete"}, NEW completes \in BOOLEAN,
           NEW cookie \in Asked, NEW value \in Values, Made(c, kind, completes),
           /\ kind = "set" => value = Success(FALSE)
           /\ kind = "list" => value = Listed({})
           /\ kind = "delete" => value = Deleted(0),
           Accepted(c, cookie) \/ Refused(c, completes, value)
    PROVE  AInv'
<1>1. /\ call[c].kind = "unmade" /\ call'[c].kind = kind
      /\ \A d \in Calls : d # c => call'[d] = call[d]
      /\ UNCHANGED <<valid, replies, done, effect>>
  BY DEF Made, AInv, TInv, IInv, Shape
<1>2. /\ effect[c] = Missing /\ answer[c] = Missing /\ ~Has(replies, c) /\ ~Has(queue, c)
  BY <1>1 DEF AInv, TInv, Truth, IInv, OnePlace
<1>3. \A d \in Calls : d # c => Answers(d)' = Answers(d)
  BY <1>1 DEF Answers
<1>4. value \in Answers(c)'
  <2>1. 0 \in 0 .. Cardinality(Cookies)
    BY CookiesAssumption, FS_CardinalityType
  <2> QED
    BY <1>1, <2>1 DEF Answers
<1>5. \A r \in Elems(queue') : r \in Elems(queue) \/ (r.of = c /\ r.with = value)
  <2>1. CASE Refused(c, completes, value) /\ completes
    <3> DEFINE x == [of |-> c, with |-> value]
    <3>1. x \in Blocks /\ queue' = Append(queue, x) /\ x.of = c /\ x.with = value
      BY <2>1 DEF Refused, Post, Blocks
    <3> HIDE DEF x
    <3> QED
      BY <3>1, AppendElems DEF AInv, TInv, IInv, Shape
  <2>2. CASE queue' = queue
    BY <2>2
  <2> QED
    BY <2>1, <2>2 DEF Refused, Accepted
<1>6. \A r \in Elems(replies) : r.of \in Calls /\ r.of # c
  BY <1>2, ElemsHave DEF AInv, TInv
<1>7. \A r \in Elems(queue) : r.of \in Calls /\ r.of # c
  BY <1>2, ElemsHave DEF AInv, TInv
<1>8. \A r \in Elems(queue') : r.with \in Answers(r.of)'
  BY <1>3, <1>4, <1>5, <1>7 DEF AInv, Fitting
<1>9. \A r \in Elems(replies') : call'[r.of].kind # "list" => r.with \in Answers(r.of)'
  BY <1>1, <1>3, <1>6 DEF AInv, Fitting
<1>10. \A d \in Calls : effect'[d] \in Answers(d)' \cup {Missing} /\ answer'[d] \in Answers(d)' \cup {Missing}
  BY <1>1, <1>2, <1>3 DEF AInv, Fitting, done
<1> QED
  BY <1>1, <1>8, <1>9, <1>10 DEF AInv, Fitting

LEMMA HostAInv == AInv /\ HostCalls => AInv'
<1> SUFFICES ASSUME AInv, HostCalls PROVE AInv'
  OBVIOUS
<1>1. TInv'
  BY HostTInv DEF AInv
<1>2. Success(FALSE) \in Values /\ Listed({}) \in Values /\ Deleted(0) \in Values
  BY DEF Values
<1>3. ASSUME NEW c \in Calls, NEW cookie \in Cookies, NEW b \in BOOLEAN, SetCookie(c, cookie, b)
      PROVE  AInv'
  BY <1>1, <1>2, <1>3, MadeAInv DEF SetCookie, Asked
<1>4. ASSUME NEW c \in Calls, GetAllCookies(c) PROVE AInv'
  BY <1>1, <1>2, <1>4, MadeAInv DEF GetAllCookies, Asked
<1>5. ASSUME NEW c \in Calls, NEW b \in BOOLEAN, DeleteAllCookies(c, b) PROVE AInv'
  BY <1>1, <1>2, <1>5, MadeAInv DEF DeleteAllCookies, Asked
<1> QED
  BY <1>3, <1>4, <1>5 DEF HostCalls

LEMMA ExecuteAInv ==
    ASSUME AInv, Execute
    PROVE  AInv'
<1>1. TInv'
  BY ExecuteTInv DEF AInv
<1>2. PICK c \in Calls : c = Head(requests).of
  BY Heads DEF AInv, TInv, Requests, Execute
<1>3. PICK value \in Values, unvisited \in SUBSET Cookies, e \in Answers(c) :
          /\ Reply(c, value, unvisited) /\ effect' = [effect EXCEPT ![c] = e]
          /\ (call[c].kind # "list" => value \in Answers(c))
  <2>1. jar \in SUBSET Cookies /\ {} \in SUBSET Cookies
    BY DEF AInv, TInv, Truth
  <2>2. Cardinality(jar) \in 0 .. Cardinality(Cookies)
    BY JarCounts
  <2>3. ASSUME NEW ok \in BOOLEAN PROVE Success(ok) \in Values
    BY DEF Values
  <2>4. Missing \in Values /\ Deleted(Cardinality(jar)) \in Values
    BY <2>2, CookiesAssumption, FS_CardinalityType DEF Values
  <2>5. CASE call[c].kind = "set"
    <3>1. PICK ok \in BOOLEAN : Reply(c, Success(ok), {}) /\ effect' = [effect EXCEPT ![c] = Success(ok)]
      BY <1>2, <2>5 DEF Execute
    <3>2. Success(ok) \in Answers(c)
      BY <2>5 DEF Answers
    <3> QED
      BY <2>1, <2>3, <3>1, <3>2
  <2>6. CASE call[c].kind = "list"
    <3>1. Reply(c, Missing, jar) /\ effect' = [effect EXCEPT ![c] = Listed(jar)]
      BY <1>2, <2>6 DEF Execute
    <3>2. Listed(jar) \in Answers(c)
      BY <2>1, <2>6 DEF Answers
    <3> QED
      BY <2>1, <2>4, <2>6, <3>1, <3>2
  <2>7. CASE call[c].kind = "delete"
    <3>1. Reply(c, Deleted(Cardinality(jar)), {}) /\ effect' = [effect EXCEPT ![c] = Deleted(Cardinality(jar))]
      BY <1>2, <2>7 DEF Execute
    <3>2. Deleted(Cardinality(jar)) \in Answers(c)
      BY <2>2, <2>7 DEF Answers
    <3> QED
      BY <2>1, <2>4, <3>1, <3>2
  <2> QED
    BY <1>2, <2>5, <2>6, <2>7 DEF Execute
<1>4. UNCHANGED <<valid, call, queue, done>>
  BY DEF Execute
<1>5. \A r \in Elems(replies') : r \in Elems(replies) \/ (r.of = c /\ r.with = value)
  <2> DEFINE x == [of |-> c, with |-> value, unvisited |-> unvisited]
  <2>1. x \in Replies /\ replies' = Append(replies, x) /\ x.of = c /\ x.with = value
    BY <1>3 DEF Reply, Replies, Asked
  <2> HIDE DEF x
  <2> QED
    BY <2>1, AppendElems DEF AInv, TInv, IInv, Shape
<1>6. \A d \in Calls : effect'[d] = effect[d] \/ effect'[d] \in Answers(d)
  BY <1>3 DEF AInv, TInv, Histories
<1> QED
  BY <1>1, <1>3, <1>4, <1>5, <1>6, FittingKept DEF AInv, Fitting, done

\* What a collector's destructor posts is a list of cookies.
LEMMA ListedFits ==
    ASSUME AInv, NEW c \in Calls, call[c].kind = "list", Post(c, Listed(results[c]))
    PROVE  \A r \in Elems(queue') : r \in Elems(queue) \/ r.with \in Answers(r.of)
<1> DEFINE x == [of |-> c, with |-> Listed(results[c])]
<1>1. results[c] \in SUBSET Cookies
  BY DEF AInv, TInv, Truth
<1>2. x \in Blocks /\ queue' = Append(queue, x) /\ x.of = c /\ x.with = Listed(results[c])
  BY <1>1 DEF Post, Blocks, Values, Asked
<1>3. Listed(results[c]) \in Answers(c)
  BY <1>1 DEF Answers
<1> HIDE DEF x
<1> QED
  BY <1>2, <1>3, AppendElems DEF AInv, TInv, IInv, Shape

LEMMA UiAInv ==
    ASSUME AInv, UiThread
    PROVE  AInv'
<1>1. TInv'
  BY StepTInv DEF AInv, Next
<1>2. /\ replies # <<>> /\ UNCHANGED <<valid, call, done, effect>>
  BY DEF UiThread, Visit, CollectorGoes, OnComplete
<1>3. PICK c \in Calls : c = Head(replies).of
  BY <1>2, Heads DEF AInv, TInv, Replies
<1>4. Head(replies) \in Elems(replies) /\ \A r \in Elems(Tail(replies)) : r \in Elems(replies)
  BY <1>2, TailElems DEF AInv, TInv, IInv, Shape
<1>5. CASE \E cookie \in Cookies : Visit(cookie)
  <2>1. PICK cookie \in Cookies : Visit(cookie)
    BY <1>5
  <2>2. /\ queue' = queue
        /\ replies' = [replies EXCEPT ![1].unvisited = @ \ {cookie}]
    BY <2>1 DEF Visit, Visited
  <2>3. replies \in Seq(Replies)
    BY DEF AInv, TInv, IInv, Shape
  <2>4. ASSUME NEW r \in Elems(replies') PROVE \E q \in Elems(replies) : r.of = q.of /\ r.with = q.with
    <3>1. DOMAIN replies' = DOMAIN replies
      BY <2>2, <2>3
    <3>2. PICK i \in DOMAIN replies : r = replies'[i]
      BY <2>4, <3>1 DEF Elems
    <3>3. replies[i] \in Replies
      BY <2>3
    <3>4. r.of = replies[i].of /\ r.with = replies[i].with
      BY <2>2, <2>3, <3>2, <3>3 DEF Replies
    <3> QED
      BY <3>4 DEF Elems
  <2>5. \A r \in Elems(replies') : call[r.of].kind # "list" => r.with \in Answers(r.of)
    BY <2>4 DEF AInv, Fitting
  <2> QED
    BY <1>1, <1>2, <2>2, <2>5, FittingKept DEF AInv, Fitting, done
<1>6. CASE CollectorGoes
  <2>1. call[c].kind = "list" /\ Post(c, Listed(results[c])) /\ replies' = Tail(replies)
    BY <1>3, <1>6 DEF CollectorGoes
  <2>2. \A r \in Elems(queue') : r \in Elems(queue) \/ r.with \in Answers(r.of)
    BY <2>1, ListedFits
  <2> QED
    BY <1>1, <1>2, <1>4, <2>1, <2>2, FittingKept DEF AInv, Fitting, done
<1>7. CASE OnComplete
  <2>1. /\ call[c].kind # "list" /\ replies' = Tail(replies)
        /\ IF call[c].completes THEN Post(c, Head(replies).with) ELSE UNCHANGED queue
    BY <1>3, <1>7 DEF OnComplete
  <2>2. Head(replies).with \in Answers(c) /\ Head(replies).with \in Values
    BY <1>2, <1>3, <1>4, <2>1, Heads DEF AInv, TInv, Fitting, Replies
  <2>3. \A r \in Elems(queue') : r \in Elems(queue) \/ r.with \in Answers(r.of)
    <3>1. CASE Post(c, Head(replies).with)
      <4> DEFINE x == [of |-> c, with |-> Head(replies).with]
      <4>1. x \in Blocks /\ queue' = Append(queue, x) /\ x.of = c /\ x.with = Head(replies).with
        BY <2>2, <3>1 DEF Post, Blocks
      <4> HIDE DEF x
      <4> QED
        BY <2>2, <4>1, AppendElems DEF AInv, TInv, IInv, Shape
    <3>2. CASE UNCHANGED queue
      BY <3>2
    <3> QED
      BY <2>1, <3>1, <3>2
  <2> QED
    BY <1>1, <1>2, <1>4, <2>1, <2>3, FittingKept DEF AInv, Fitting, done
<1> QED
  BY <1>5, <1>6, <1>7 DEF UiThread

LEMMA GiveUpAInv ==
    ASSUME AInv, GiveUp
    PROVE  AInv'
<1>1. TInv'
  BY GiveUpTInv DEF AInv
<1>2. UNCHANGED <<valid, call, results, done, effect>>
  BY DEF GiveUp
<1>3. PICK c \in Calls : Abandon(c)
  BY Heads DEF GiveUp, AInv, TInv, Requests, Replies
<1>4. \A r \in Elems(queue') : r \in Elems(queue) \/ r.with \in Answers(r.of)
  <2>1. CASE call[c].kind = "list"
    BY <1>3, <2>1, ListedFits DEF Abandon
  <2>2. CASE call[c].kind # "list"
    BY <1>3, <2>2 DEF Abandon
  <2> QED
    BY <2>1, <2>2
<1>5. \A r \in Elems(replies') : r \in Elems(replies)
  BY TailElems DEF GiveUp, AInv, TInv, IInv, Shape
<1> QED
  BY <1>1, <1>2, <1>4, <1>5, FittingKept DEF AInv, Fitting, done

LEMMA CompletionAInv ==
    ASSUME AInv, Completion
    PROVE  AInv'
<1>1. TInv'
  BY CompletionTInv DEF AInv
<1>2. /\ Head(queue) \in Elems(queue) /\ \A r \in Elems(queue') : r \in Elems(queue)
      /\ UNCHANGED <<valid, call, replies, effect>>
  BY TailElems DEF Completion, AInv, TInv, IInv, Shape
<1>3. \A c \in Calls : answer'[c] = answer[c] \/ answer'[c] \in Answers(c)
  BY <1>2 DEF Completion, AInv, TInv, Histories, Fitting
<1> QED
  BY <1>1, <1>2, <1>3, FittingKept DEF AInv, Fitting

LEMMA IdleAInv ==
    ASSUME AInv, Initialized \/ UNCHANGED vars
    PROVE  AInv'
<1>1. TInv'
  BY IdleTInv DEF AInv
<1>2. UNCHANGED <<call, replies, queue, done, effect>> /\ valid' \in BOOLEAN
  BY DEF Initialized, vars, AInv, Fitting
<1> QED
  BY <1>1, <1>2, FittingKept DEF done

\* Every call, request, reply, block and answer is of its kind: no completion is
\* ever called with the answer to another kind of question.
THEOREM TypeCorrect == Spec => []TypeOK
<1>1. AInv /\ [Next]_vars => AInv'
  BY HostAInv, ExecuteAInv, UiAInv, GiveUpAInv, CompletionAInv, IdleAInv DEF Next
<1>2. AInv => TypeOK
  <2> SUFFICES ASSUME AInv PROVE TypeOK
    OBVIOUS
  <2>1. /\ call \in [Calls -> [kind : Kinds, completes : BOOLEAN]] /\ times \in [Calls -> Nat]
        /\ results \in [Calls -> SUBSET Asked] /\ requests \in Seq(Requests)
        /\ replies \in Seq(Replies) /\ queue \in Seq(Blocks)
    BY DEF AInv, TInv, IInv, Shape
  <2>2. results \in [Calls -> SUBSET Cookies]
    BY <2>1 DEF AInv, TInv, Truth
  <2>3. \A i \in DOMAIN replies : replies[i].of \in Calls /\ replies[i].unvisited \subseteq Cookies
    <3> SUFFICES ASSUME NEW i \in DOMAIN replies
                 PROVE  replies[i].of \in Calls /\ replies[i].unvisited \subseteq Cookies
      OBVIOUS
    <3>1. replies[i] \in Replies /\ replies[i] \in Elems(replies)
      BY <2>1 DEF Elems
    <3> QED
      BY <3>1 DEF AInv, TInv, Truth, Replies
  <2>4. \A i \in DOMAIN queue : queue[i].of \in Calls /\ queue[i].with \in Answers(queue[i].of)
    <3> SUFFICES ASSUME NEW i \in DOMAIN queue
                 PROVE  queue[i].of \in Calls /\ queue[i].with \in Answers(queue[i].of)
      OBVIOUS
    <3>1. queue[i] \in Blocks /\ queue[i] \in Elems(queue)
      BY <2>1 DEF Elems
    <3> QED
      BY <3>1 DEF AInv, Fitting, Blocks
  <2>5. valid \in BOOLEAN /\ jar \subseteq Cookies /\ lost \subseteq Calls
    BY DEF AInv, Fitting, TInv, Truth, Histories
  <2>6. requests \in Seq([of : Calls, cookie : Cookies \cup {Missing}])
    BY <2>1 DEF Requests, Asked
  <2>7. \A c \in Calls : answer[c] \in Answers(c) \cup {Missing} /\ effect[c] \in Answers(c) \cup {Missing}
    BY DEF AInv, Fitting
  <2> QED
    BY <2>1, <2>2, <2>3, <2>4, <2>5, <2>6, <2>7 DEF TypeOK
<1> QED
  BY <1>1, <1>2, InitAInv, PTL DEF Spec

-----------------------------------------------------------------------------
(***************************************************************************)
(* The storage behind the stores.                                          *)
(***************************************************************************)
Lasting == {Default} \cup {Identified(id) : id \in Identifiers}
Authors == Lasting \cup {Instance(s) : s \in Stores}
Paths == {<<>>} \cup {Component(id) : id \in Identifiers}
Storages == {NoStorage, Global} \cup {Disk(p) : p \in Paths}
                \cup {Memory(v) : v \in Views}

StoreRecord == [life : {"unmade", "made", "released"}, isDefault : BOOLEAN, path : Paths,
                persistent : BOOLEAN, context : Views \cup {None}, author : Authors]
ViewRecord == [life : {"unborn", "new", "gone"}, store : Stores \cup {None}, storage : Storages,
               author : Authors, lasting : BOOLEAN]

StorageTypes ==
    /\ store \in [Stores -> StoreRecord] /\ view \in [Views -> ViewRecord]
    /\ data \subseteq [in : Storages, by : Authors] /\ promised \subseteq Lasting

\* One of the three kinds of stores.
Proper(s, r) ==
    \/ r.isDefault /\ r.author = Default
    \/ ~r.isDefault /\ r.path = <<>> /\ ~r.persistent /\ r.author = Instance(s)
    \/ /\ ~r.isDefault
       /\ \E id \in Identifiers : r.path = Component(id) /\ r.author = Identified(id)

\* The one storage an author writes to, as long as the process runs.
Fits(stores, author, storage) ==
    \/ author = Default /\ storage = Global
    \/ \E id \in Identifiers :
          author = Identified(id) /\ storage = Disk(Component(id))
    \/ \E s \in Stores : /\ author = Instance(s) /\ stores[s].context # None
                         /\ storage = Memory(stores[s].context)

\* What is so of each view.
Good(stores, r) ==
    /\ r.life = "unborn" => r.store = None /\ r.storage = NoStorage
    /\ r.store # None => /\ stores[r.store].life # "unmade" /\ Proper(r.store, stores[r.store])
                         /\ r.author = stores[r.store].author
    /\ r.store = None /\ r.storage = NoStorage => r.author = Default
    /\ r.lasting => r.author \in Lasting
    /\ r.storage # NoStorage => Fits(stores, r.author, r.storage)

MadeProperly(stores) == \A s \in Stores : stores[s].life = "made" => Proper(s, stores[s])

\* No two stores share a context: it is known by a view of the store's own.
OwnContexts(stores, views) ==
    \A s \in Stores : stores[s].context # None => views[stores[s].context].store = s

WrittenInPlace(stores, written) == \A w \in written : Fits(stores, w.by, w.in)

Kept(written, authors) == \A a \in authors : \E w \in written : w.by = a

StorageInv ==
    /\ StorageTypes /\ MadeProperly(store) /\ OwnContexts(store, view)
    /\ \A v \in Views : Good(store, view[v])
    /\ WrittenInPlace(store, data)
    /\ Kept(data, recent \cup (promised \ {Default}))

\* The authors are different ones, and so are the kinds of storages.
LEMMA AuthorFacts ==
    /\ Default[1] = "default"
    /\ \A id \in Identifiers : Identified(id)[1] = "identified" /\ Identified(id)[2] = id
    /\ \A s \in Stores : Instance(s)[1] = "instance" /\ Instance(s)[2] = s
BY DEF Default, Identified, Instance

LEMMA StorageFacts ==
    /\ NoStorage.kind = "none" /\ Global.kind = "global"
    /\ \A p : Disk(p).kind = "disk" /\ Disk(p).at = p
    /\ \A c : Memory(c).kind = "memory" /\ Memory(c).at[1] = c
BY DEF NoStorage, Global, Disk, Memory

\* An identifier's path is one.
LEMMA ComponentIsPath ==
    ASSUME NEW id \in Identifiers
    PROVE  Component(id) # <<>> /\ Component(id) \in Paths
<1>1. id \in Seq(STRING)
  BY IdentifiersAssumption
<1>2. CASE id = <<>>
  BY <1>2, IdentifiersAssumption DEF Paths, Component
<1>3. CASE id # <<>>
  <2>1. 1 \in DOMAIN id
    BY <1>1, <1>3
  <2>2. 1 \in DOMAIN Component(id)
    BY <1>3, <2>1 DEF Component
  <2>3. DOMAIN <<>> = {}
    OBVIOUS
  <2> QED BY <2>2, <2>3 DEF Paths
<1> QED BY <1>2, <1>3

\* What a later state of the stores leaves alone.
Grows(stores, later) ==
    \A s \in Stores :
        /\ stores[s].context # None => later[s].context = stores[s].context
        /\ stores[s].life # "unmade" =>
              /\ later[s].life # "unmade"
              /\ later[s].isDefault = stores[s].isDefault /\ later[s].path = stores[s].path
              /\ later[s].persistent = stores[s].persistent /\ later[s].author = stores[s].author

LEMMA FitsGrows ==
    ASSUME NEW stores, NEW later, Grows(stores, later), NEW a, NEW x, Fits(stores, a, x)
    PROVE  Fits(later, a, x)
BY DEF Grows, Fits

LEMMA GoodGrows ==
    ASSUME NEW stores, NEW later, Grows(stores, later), NEW r \in ViewRecord, Good(stores, r)
    PROVE  Good(later, r)
<1>1. r.store \in Stores \cup {None}
  BY DEF ViewRecord
<1>2. ASSUME r.store # None
      PROVE  /\ later[r.store].life # "unmade" /\ Proper(r.store, later[r.store])
             /\ r.author = later[r.store].author
  <2>1. /\ stores[r.store].life # "unmade" /\ Proper(r.store, stores[r.store])
        /\ r.author = stores[r.store].author
    BY <1>2 DEF Good
  <2>2. /\ later[r.store].life # "unmade" /\ later[r.store].isDefault = stores[r.store].isDefault
        /\ later[r.store].path = stores[r.store].path
        /\ later[r.store].persistent = stores[r.store].persistent
        /\ later[r.store].author = stores[r.store].author
    BY <1>1, <1>2, <2>1 DEF Grows
  <2> QED BY <2>1, <2>2 DEF Proper
<1>3. r.storage # NoStorage => Fits(later, r.author, r.storage)
  BY FitsGrows DEF Good
<1> QED BY <1>2, <1>3 DEF Good

\* A step that changes one view's record, and gives its store a context at most.
LEMMA ViewStep ==
    ASSUME StorageInv, NEW v \in Views, NEW r \in ViewRecord, view' = [view EXCEPT ![v] = r],
           store' \in [Stores -> StoreRecord], Grows(store, store'), MadeProperly(store'),
           Good(store', r), view[v].life = "unborn" \/ r.store = view[v].store,
           \A s \in Stores : \/ store'[s].context = store[s].context
                             \/ store'[s].context = v /\ r.store = s,
           UNCHANGED <<data, recent, promised>>
    PROVE  StorageInv'
<1>1. StorageTypes'
  BY DEF StorageInv, StorageTypes
<1>2. view'[v] = r /\ \A u \in Views : u # v => view'[u] = view[u]
  BY DEF StorageInv, StorageTypes
<1>3. ASSUME NEW u \in Views PROVE Good(store', view'[u])
  <2>1. Good(store, view[u]) /\ view[u] \in ViewRecord
    BY DEF StorageInv, StorageTypes
  <2> QED BY <1>2, <2>1, GoodGrows
<1>4. ASSUME NEW s \in Stores, store'[s].context # None
      PROVE  view'[store'[s].context].store = s
  <2>1. CASE store'[s].context = v /\ r.store = s
    BY <1>2, <2>1
  <2>2. CASE store'[s].context = store[s].context
    <3>1. view[store[s].context].store = s
      BY <1>4, <2>2 DEF StorageInv, OwnContexts
    <3>2. store[s].context \in Views
      BY <1>4, <2>2 DEF StorageInv, StorageTypes, StoreRecord
    <3>3. CASE store[s].context = v
      <4>1. s # None
        BY NoneAssumption
      <4> QED BY <1>2, <2>2, <3>1, <3>3, <4>1 DEF StorageInv, Good
    <3> QED BY <1>2, <2>2, <3>1, <3>2, <3>3
  <2> QED BY <2>1, <2>2
<1>5. OwnContexts(store', view')
  BY <1>4 DEF OwnContexts
<1>6. WrittenInPlace(store', data')
  BY FitsGrows DEF StorageInv, WrittenInPlace
<1>7. Kept(data', recent' \cup (promised' \ {Default}))
  BY DEF StorageInv
<1> QED BY <1>1, <1>3, <1>5, <1>6, <1>7 DEF StorageInv

\* A step of the stores alone.
LEMMA StoreStep ==
    ASSUME StorageInv, store' \in [Stores -> StoreRecord], Grows(store, store'),
           MadeProperly(store'), \A s \in Stores : store'[s].context = store[s].context,
           UNCHANGED <<view, data, recent, promised>>
    PROVE  StorageInv'
<1>1. StorageTypes'
  BY DEF StorageInv, StorageTypes
<1>2. ASSUME NEW u \in Views PROVE Good(store', view'[u])
  <2>1. Good(store, view[u]) /\ view[u] \in ViewRecord
    BY DEF StorageInv, StorageTypes
  <2> QED BY <2>1, GoodGrows
<1>3. OwnContexts(store', view')
  BY DEF StorageInv, OwnContexts
<1>4. WrittenInPlace(store', data')
  BY FitsGrows DEF StorageInv, WrittenInPlace
<1>5. Kept(data', recent' \cup (promised' \ {Default}))
  BY DEF StorageInv
<1> QED BY <1>1, <1>2, <1>3, <1>4, <1>5 DEF StorageInv

LEMMA SameStores ==
    ASSUME NEW stores, NEW later, later = stores
    PROVE  Grows(stores, later)
BY DEF Grows

LEMMA FreshRecords ==
    Unmade \in StoreRecord /\ Unborn \in ViewRecord
<1>1. Default \in Authors /\ <<>> \in Paths /\ NoStorage \in Storages
  BY DEF Authors, Lasting, Paths, Storages
<1> QED BY <1>1 DEF Unmade, Unborn, StoreRecord, ViewRecord

\* A store is made.
LEMMA MakeStep ==
    ASSUME StorageInv, NEW s \in Stores, NEW fields \in StoreRecord, Make(s, fields),
           fields.life = "made", fields.context = None, Proper(s, fields)
    PROVE  StorageInv'
<1>1. /\ store[s].life = "unmade" /\ store' = [store EXCEPT ![s] = fields]
      /\ UNCHANGED <<view, data, recent, promised>>
  BY DEF Make
<1>2. /\ store' \in [Stores -> StoreRecord]
      /\ store'[s] = fields /\ \A t \in Stores : t # s => store'[t] = store[t]
  BY <1>1 DEF StorageInv, StorageTypes
<1>3. store[s].context = None
  <2>1. SUFFICES ASSUME store[s].context # None PROVE FALSE
    OBVIOUS
  <2>2. view[store[s].context].store = s /\ store[s].context \in Views
    BY <2>1 DEF StorageInv, StorageTypes, StoreRecord, OwnContexts
  <2>3. s # None
    BY NoneAssumption
  <2> QED BY <1>1, <2>2, <2>3 DEF StorageInv, Good
<1>4. Grows(store, store')
  BY <1>1, <1>2, <1>3 DEF Grows
<1>5. MadeProperly(store')
  BY <1>2 DEF StorageInv, MadeProperly
<1>6. \A t \in Stores : store'[t].context = store[t].context
  BY <1>2, <1>3
<1> QED BY <1>1, <1>2, <1>4, <1>5, <1>6, StoreStep

LEMMA MakingStores ==
    ASSUME StorageInv, NEW s \in Stores,
           \/ DefaultStore(s) \/ NonPersistentStore(s)
           \/ \E id \in Identifiers : StoreForIdentifier(s, id)
    PROVE  StorageInv'
<1>1. Unmade \in StoreRecord
  BY FreshRecords
<1>2. InMemory(s) \in StoreRecord /\ InMemory(s).life = "made"
      /\ InMemory(s).context = None /\ Proper(s, InMemory(s))
  <2>1. Instance(s) \in Authors /\ <<>> \in Paths
    BY DEF Authors, Paths
  <2>2. InMemory(s) = [life |-> "made", isDefault |-> FALSE, path |-> <<>>, persistent |-> FALSE,
                            context |-> None, author |-> Instance(s)]
    <3>1. InMemory(s) = [Unmade EXCEPT !.life = "made", !.author = Instance(s)]
      BY DEF InMemory
    <3>2. PICK a : a = Instance(s)
      OBVIOUS
    <3> QED BY <3>1, <3>2 DEF Unmade
  <2> QED BY <2>1, <2>2 DEF StoreRecord, Proper
<1>3. CASE NonPersistentStore(s)
  BY <1>2, <1>3, MakeStep DEF NonPersistentStore
<1>4. CASE DefaultStore(s)
  <2>1. PICK fields : fields = [Unmade EXCEPT !.life = "made", !.isDefault = TRUE,
                                                   !.persistent = TRUE]
    OBVIOUS
  <2>2. fields = [life |-> "made", isDefault |-> TRUE, path |-> <<>>, persistent |-> TRUE,
                  context |-> None, author |-> Default]
    BY <2>1 DEF Unmade
  <2>3. Default \in Authors /\ <<>> \in Paths
    BY DEF Authors, Lasting, Paths
  <2>4. fields \in StoreRecord /\ fields.life = "made" /\ fields.context = None /\ Proper(s, fields)
    BY <2>2, <2>3 DEF StoreRecord, Proper
  <2>5. Make(s, fields)
    BY <1>4, <2>1 DEF DefaultStore
  <2> QED BY <2>4, <2>5, MakeStep
<1>5. ASSUME NEW id \in Identifiers, StoreForIdentifier(s, id) PROVE StorageInv'
  <2>1. CASE initialized /\ rooted
    <3>1. PICK fields : fields = [Unmade EXCEPT !.life = "made", !.path = Component(id),
                                      !.persistent = TRUE, !.author = Identified(id)]
      OBVIOUS
    <3>2. fields = [life |-> "made", isDefault |-> FALSE, path |-> Component(id),
                    persistent |-> TRUE, context |-> None, author |-> Identified(id)]
      BY <3>1 DEF Unmade
    <3>3. Identified(id) \in Authors /\ Component(id) \in Paths
      BY ComponentIsPath DEF Authors, Lasting
    <3>4. fields \in StoreRecord /\ fields.life = "made" /\ fields.context = None /\ Proper(s, fields)
      BY <3>2, <3>3 DEF StoreRecord, Proper
    <3>5. Make(s, fields)
      BY <1>5, <2>1, <3>1 DEF StoreForIdentifier
    <3> QED BY <3>4, <3>5, MakeStep
  <2>2. CASE ~(initialized /\ rooted)
    <3>1. Make(s, InMemory(s))
      BY <1>5, <2>2 DEF StoreForIdentifier
    <3> QED BY <1>2, <3>1, MakeStep
  <2> QED BY <2>1, <2>2
<1> QED BY <1>3, <1>4, <1>5

LEMMA ReleaseStep ==
    ASSUME StorageInv, NEW s \in Stores, ReleaseStore(s)
    PROVE  StorageInv'
<1>1. /\ store[s].life = "made" /\ store' = [store EXCEPT ![s].life = "released"]
      /\ UNCHANGED <<view, data, recent, promised>> /\ store \in [Stores -> StoreRecord]
  BY DEF ReleaseStore, StorageInv, StorageTypes
<1>2. /\ store' \in [Stores -> StoreRecord]
      /\ store'[s] = [store[s] EXCEPT !.life = "released"]
      /\ \A t \in Stores : t # s => store'[t] = store[t]
  BY <1>1 DEF StoreRecord
<1>3. /\ store'[s].life = "released" /\ store'[s].context = store[s].context
      /\ store'[s].isDefault = store[s].isDefault /\ store'[s].path = store[s].path
      /\ store'[s].persistent = store[s].persistent /\ store'[s].author = store[s].author
  BY <1>1, <1>2 DEF StoreRecord
<1>4. Grows(store, store')
  BY <1>2, <1>3 DEF Grows
<1>5. MadeProperly(store')
  BY <1>2, <1>3 DEF StorageInv, MadeProperly
<1>6. \A t \in Stores : store'[t].context = store[t].context
  BY <1>2, <1>3
<1> QED BY <1>1, <1>2, <1>4, <1>5, <1>6, StoreStep

\* A view is made, of a store or without one.
LEMMA NewViewStep ==
    ASSUME StorageInv, NEW v \in Views, NEW s \in Stores \cup {None}, NewView(v, s)
    PROVE  StorageInv'
<1>1. /\ view[v].life = "unborn" /\ (s = None \/ (s \in Stores /\ store[s].life = "made"))
      /\ UNCHANGED <<store, data, recent, promised>>
      /\ store \in [Stores -> StoreRecord] /\ view[v] \in ViewRecord
  BY DEF NewView, StorageInv, StorageTypes
<1>2. PICK r : r = [view[v] EXCEPT !.life = "new", !.store = s,
                        !.author = IF s = None THEN Default ELSE store[s].author,
                        !.lasting = s # None /\ store[s].persistent]
  OBVIOUS
<1>3. view' = [view EXCEPT ![v] = r]
  BY <1>2 DEF NewView
<1>4. /\ view[v].store = None /\ view[v].storage = NoStorage
  BY <1>1 DEF StorageInv, Good
<1>5. /\ r.life = "new" /\ r.store = s /\ r.storage = NoStorage
      /\ r.author = IF s = None THEN Default ELSE store[s].author
      /\ r.lasting = (s # None /\ store[s].persistent)
  BY <1>1, <1>2, <1>4 DEF ViewRecord
<1>6. s # None => store[s].author \in Authors /\ store[s].persistent \in BOOLEAN
  BY <1>1 DEF StoreRecord
<1>7. Default \in Authors
  BY DEF Authors, Lasting
<1>8. r \in ViewRecord
  BY <1>1, <1>2, <1>6, <1>7 DEF ViewRecord
<1>9. s # None => Proper(s, store[s])
  BY <1>1 DEF StorageInv, MadeProperly
<1>10. Good(store, r)
  BY <1>1, <1>5, <1>9 DEF Good, Proper, Lasting
<1>11. MadeProperly(store') /\ Grows(store, store') /\ store' = store
  BY <1>1, SameStores DEF StorageInv
<1> QED BY <1>1, <1>3, <1>8, <1>10, <1>11, ViewStep

\* A view gets its browser, and with it a storage.
LEMMA CreateStep ==
    ASSUME StorageInv, NEW v \in Views, CreateBrowserIfReady(v)
    PROVE  StorageInv'
<1>1. /\ view[v].life = "new" /\ view[v].storage = NoStorage
      /\ UNCHANGED <<data, recent, promised>>
      /\ store \in [Stores -> StoreRecord] /\ view \in [Views -> ViewRecord]
  BY DEF CreateBrowserIfReady, StorageInv, StorageTypes
<1>2. view[v] \in ViewRecord /\ Good(store, view[v])
  BY <1>1 DEF StorageInv
<1>3. ASSUME NEW x \in Storages, view' = [view EXCEPT ![v].storage = x],
             store' \in [Stores -> StoreRecord], Grows(store, store'), MadeProperly(store'),
             \A s \in Stores : \/ store'[s].context = store[s].context
                               \/ store'[s].context = v /\ view[v].store = s,
             Fits(store', view[v].author, x)
      PROVE  StorageInv'
  <2>1. PICK r : r = [view[v] EXCEPT !.storage = x]
    OBVIOUS
  <2>2. /\ r \in ViewRecord /\ r.life = "new" /\ r.store = view[v].store /\ r.storage = x
        /\ r.author = view[v].author /\ r.lasting = view[v].lasting
    BY <1>1, <1>2, <1>3, <2>1 DEF ViewRecord
  <2>3. view' = [view EXCEPT ![v] = r]
    BY <1>1, <1>3, <2>1
  <2>4. Good(store', view[v])
    BY <1>2, <1>3, GoodGrows
  <2>5. x # NoStorage
    BY <1>3, StorageFacts DEF Fits
  <2>6. Good(store', r)
    <3>1. r.store # None => /\ store'[r.store].life # "unmade" /\ Proper(r.store, store'[r.store])
                            /\ r.author = store'[r.store].author
      BY <2>2, <2>4 DEF Good
    <3>2. r.lasting => r.author \in Lasting
      BY <2>2, <2>4 DEF Good
    <3>3. Fits(store', r.author, r.storage)
      BY <1>3, <2>2
    <3>4. r.life # "unborn" /\ r.storage # NoStorage
      BY <2>2, <2>5
    <3> QED BY <3>1, <3>2, <3>3, <3>4 DEF Good
  <2>7. \A s \in Stores : \/ store'[s].context = store[s].context
                          \/ store'[s].context = v /\ r.store = s
    <3>1. r.store = view[v].store
      BY <2>2
    <3>2. \A s \in Stores : \/ store'[s].context = store[s].context
                            \/ store'[s].context = v /\ view[v].store = s
      BY <1>3
    <3> QED BY ONLY <3>1, <3>2
  <2>8. store' \in [Stores -> StoreRecord] /\ Grows(store, store') /\ MadeProperly(store')
    BY <1>3
  <2>9. r \in ViewRecord /\ r.store = view[v].store
    BY <2>2
  <2>10. UNCHANGED <<data, recent, promised>>
    BY <1>1
  <2> QED BY <2>3, <2>6, <2>7, <2>8, <2>9, <2>10, ViewStep, ZenonT(60)
<1>4. Global \in Storages
  BY DEF Storages
<1>5. CASE view[v].store = None
  <2>1. store' = store /\ view' = [view EXCEPT ![v].storage = Global]
    BY <1>5 DEF CreateBrowserIfReady
  <2>2. view[v].author = Default
    BY <1>1, <1>2, <1>5 DEF Good
  <2>3. Fits(store', view[v].author, Global) /\ MadeProperly(store') /\ Grows(store, store')
    BY <2>1, <2>2, SameStores DEF Fits, StorageInv
  <2> QED BY <1>1, <1>3, <1>4, <2>1, <2>3
<1>6. CASE view[v].store # None
  <2>1. PICK s \in Stores : s = view[v].store
    BY <1>2, <1>6 DEF ViewRecord
  <2>2. /\ EnsureRequestContext(s, v) /\ store[s].life # "unmade" /\ Proper(s, store[s])
        /\ view[v].author = store[s].author
    BY <1>2, <1>6, <2>1 DEF CreateBrowserIfReady, Good
  <2>3. CASE store[s].isDefault
    <3>1. store' = store /\ view' = [view EXCEPT ![v].storage = Global]
      BY <2>2, <2>3 DEF EnsureRequestContext
    <3>2. view[v].author = Default
      BY <2>2, <2>3 DEF Proper
    <3>3. Fits(store', view[v].author, Global) /\ MadeProperly(store') /\ Grows(store, store')
      BY <3>1, <3>2, SameStores DEF Fits, StorageInv
    <3> QED BY <1>1, <1>3, <1>4, <3>1, <3>3
  <2>4. CASE ~store[s].isDefault
    <3>1. PICK c : c = IF store[s].context = None THEN v ELSE store[s].context
      OBVIOUS
    <3>2. /\ store' = [store EXCEPT ![s].context = c]
          /\ view' = [view EXCEPT ![v].storage = StorageOf(s, c)]
      BY <2>2, <2>4, <3>1 DEF EnsureRequestContext
    <3>3. c \in Views /\ c # None /\ store[s] \in StoreRecord
      BY <1>1, <3>1, NoneAssumption DEF StoreRecord
    <3>4. /\ store' \in [Stores -> StoreRecord] /\ store'[s] = [store[s] EXCEPT !.context = c]
          /\ \A t \in Stores : t # s => store'[t] = store[t]
      BY <1>1, <3>2, <3>3 DEF StoreRecord
    <3>5. /\ store'[s].context = c /\ store'[s].life = store[s].life
          /\ store'[s].isDefault = store[s].isDefault /\ store'[s].path = store[s].path
          /\ store'[s].persistent = store[s].persistent /\ store'[s].author = store[s].author
      BY <3>3, <3>4 DEF StoreRecord
    <3>6. Grows(store, store')
      BY <3>1, <3>4, <3>5 DEF Grows
    <3>7. MadeProperly(store')
      <4>1. Proper(s, store'[s])
        BY <2>2, <3>5 DEF Proper
      <4> QED BY <3>4, <4>1 DEF StorageInv, MadeProperly
    <3>8. \A t \in Stores : \/ store'[t].context = store[t].context
                            \/ store'[t].context = v /\ view[v].store = t
      BY <2>1, <3>1, <3>4, <3>5
    <3>9. StorageOf(s, c) \in Storages /\ Fits(store', view[v].author, StorageOf(s, c))
      <4>1. CASE store[s].path = <<>>
        <5>1. StorageOf(s, c) = Memory(c)
          BY <4>1 DEF StorageOf
        <5>2. view[v].author = Instance(s)
          BY <2>2, <2>4, <4>1, ComponentIsPath DEF Proper
        <5> QED BY <3>3, <3>5, <5>1, <5>2 DEF Storages, Fits
      <4>2. CASE store[s].path # <<>>
        <5>1. StorageOf(s, c) = Disk(store[s].path)
          BY <4>2 DEF StorageOf
        <5>2. PICK id \in Identifiers : /\ store[s].path = Component(id)
                                        /\ store[s].author = Identified(id)
          BY <2>2, <2>4, <4>2 DEF Proper
        <5>3. store[s].path \in Paths
          BY <3>3 DEF StoreRecord
        <5> QED BY <2>2, <5>1, <5>2, <5>3 DEF Storages, Fits
      <4> QED BY <4>1, <4>2
    <3> QED BY <1>3, <3>2, <3>4, <3>6, <3>7, <3>8, <3>9
  <2> QED BY <2>3, <2>4
<1> QED BY <1>5, <1>6

\* A popup is given the storage, and stands for the author, of its opener.
LEMMA PopupStep ==
    ASSUME StorageInv, NEW v \in Views, NEW opener \in Views, OnBeforePopup(opener, v)
    PROVE  StorageInv'
<1>1. /\ view[opener].life = "new" /\ view[opener].storage # NoStorage
      /\ view[v].life = "unborn" /\ view[opener] \in ViewRecord /\ Good(store, view[opener])
      /\ UNCHANGED <<store, data, recent, promised>> /\ store \in [Stores -> StoreRecord]
  BY DEF OnBeforePopup, StorageInv, StorageTypes
<1>2. PICK r : r = [view[opener] EXCEPT !.store = None]
  OBVIOUS
<1>3. view' = [view EXCEPT ![v] = r]
  BY <1>2 DEF OnBeforePopup
<1>4. /\ r \in ViewRecord /\ r.life = "new" /\ r.store = None /\ r.storage = view[opener].storage
      /\ r.author = view[opener].author /\ r.lasting = view[opener].lasting
  BY <1>1, <1>2 DEF ViewRecord
<1>5. Good(store, r)
  BY <1>1, <1>4 DEF Good
<1>6. MadeProperly(store') /\ Grows(store, store') /\ store' = store
  BY <1>1, SameStores DEF StorageInv
<1> QED BY <1>1, <1>3, <1>4, <1>5, <1>6, ViewStep

LEMMA DeallocStep ==
    ASSUME StorageInv, NEW v \in Views, Dealloc(v)
    PROVE  StorageInv'
<1>1. /\ view[v].life = "new" /\ view \in [Views -> ViewRecord] /\ Good(store, view[v])
      /\ UNCHANGED <<store, data, recent, promised>> /\ store \in [Stores -> StoreRecord]
  BY DEF Dealloc, StorageInv, StorageTypes
<1>2. PICK r : r = [view[v] EXCEPT !.life = "gone"]
  OBVIOUS
<1>3. view' = [view EXCEPT ![v] = r]
  BY <1>1, <1>2 DEF Dealloc
<1>4. /\ r \in ViewRecord /\ r.life = "gone" /\ r.store = view[v].store
      /\ r.storage = view[v].storage
      /\ r.author = view[v].author /\ r.lasting = view[v].lasting
  <2>1. view[v] \in ViewRecord
    BY <1>1
  <2> QED BY <1>2, <2>1 DEF ViewRecord
<1>5. Good(store, r)
  BY <1>1, <1>4 DEF Good
<1>6. MadeProperly(store') /\ Grows(store, store') /\ store' = store
  BY <1>1, SameStores DEF StorageInv
<1> QED BY <1>1, <1>3, <1>4, <1>5, <1>6, ViewStep

LEMMA WriteStep ==
    ASSUME StorageInv, NEW v \in Views, Write(v)
    PROVE  StorageInv'
<1>1. PICK w : w = [in |-> view[v].storage, by |-> view[v].author]
  OBVIOUS
<1>2. /\ view[v].storage # NoStorage /\ data' = data \cup {w}
      /\ recent' = recent \cup {view[v].author}
      /\ promised' = promised \cup (IF view[v].lasting THEN {view[v].author} ELSE {})
      /\ store' = store /\ view' = view
  BY <1>1 DEF Write
<1>3. view[v] \in ViewRecord /\ Good(store, view[v])
  BY DEF StorageInv, StorageTypes
<1>4. w \in [in : Storages, by : Authors]
  BY <1>1, <1>3 DEF ViewRecord
<1>5. Fits(store, w.by, w.in) /\ w.by = view[v].author
  BY <1>1, <1>2, <1>3 DEF Good
<1>6. StorageTypes'
  BY <1>2, <1>3, <1>4 DEF StorageInv, StorageTypes, Good
<1>7. WrittenInPlace(store', data')
  BY <1>2, <1>5 DEF StorageInv, WrittenInPlace
<1>8. Kept(data', recent' \cup (promised' \ {Default}))
  <2>1. ASSUME NEW a \in recent' \cup (promised' \ {Default})
        PROVE  \E x \in data' : x.by = a
    <3>1. a = w.by \/ a \in recent \cup (promised \ {Default})
      BY <1>2, <1>5
    <3> QED BY <1>2, <3>1 DEF StorageInv, Kept
  <2> QED BY <2>1 DEF Kept
<1>9. MadeProperly(store') /\ OwnContexts(store', view') /\ \A u \in Views : Good(store', view'[u])
  BY <1>2 DEF StorageInv
<1> QED BY <1>6, <1>7, <1>8, <1>9 DEF StorageInv

\* What is on disk is an identifier's, and what an identifier wrote is on disk.
LEMMA DiskFacts ==
    ASSUME NEW a, NEW x, Fits(store, a, x)
    PROVE  /\ x.kind = "disk" => a[1] = "identified" /\ \A later : Fits(later, a, x)
           /\ a \in Lasting /\ a # Default => x.kind = "disk"
<1>1. CASE a = Default /\ x = Global
  BY <1>1, StorageFacts
<1>2. CASE \E id \in Identifiers :
              a = Identified(id) /\ x = Disk(Component(id))
  BY <1>2, StorageFacts, AuthorFacts DEF Fits
<1>3. CASE \E s \in Stores : /\ a = Instance(s) /\ store[s].context # None
                             /\ x = Memory(store[s].context)
  BY <1>3, StorageFacts, AuthorFacts DEF Lasting
<1> QED BY <1>1, <1>2, <1>3 DEF Fits

LEMMA RelaunchStep ==
    ASSUME StorageInv, Relaunch
    PROVE  StorageInv'
<1>1. /\ store' = [s \in Stores |-> IF store[s].life = "unmade" THEN Unmade
                                    ELSE [Unmade EXCEPT !.life = "released"]]
      /\ view' = [v \in Views |-> Unborn]
      /\ data' = {w \in data : w.in.kind = "disk"}
      /\ recent' = {} /\ promised' = promised
  BY DEF Relaunch
<1>2. /\ [Unmade EXCEPT !.life = "released"] \in StoreRecord
      /\ [Unmade EXCEPT !.life = "released"].life = "released"
      /\ [Unmade EXCEPT !.life = "released"].context = None
      /\ Unmade.life = "unmade" /\ Unmade.context = None
  BY FreshRecords DEF StoreRecord, Unmade
<1>3. /\ store' \in [Stores -> StoreRecord]
      /\ \A s \in Stores : store'[s].life # "made" /\ store'[s].context = None
  BY <1>1, <1>2, FreshRecords
<1>4. StorageTypes'
  BY <1>1, <1>3, FreshRecords DEF StorageInv, StorageTypes
<1>5. \A v \in Views : Good(store', view'[v])
  <2>1. /\ Unborn.life = "unborn" /\ Unborn.store = None
        /\ Unborn.storage = NoStorage /\ Unborn.author = Default
        /\ Unborn.lasting = FALSE
    BY DEF Unborn
  <2> QED BY <1>1, <2>1 DEF Good
<1>6. MadeProperly(store') /\ OwnContexts(store', view')
  BY <1>3 DEF MadeProperly, OwnContexts
<1>7. WrittenInPlace(store', data')
  BY <1>1, DiskFacts DEF StorageInv, WrittenInPlace
<1>8. Kept(data', recent' \cup (promised' \ {Default}))
  <2>1. ASSUME NEW a \in promised \ {Default} PROVE \E w \in data' : w.by = a
    <3>1. PICK w \in data : w.by = a
      BY DEF StorageInv, Kept
    <3>2. Fits(store, a, w.in) /\ a \in Lasting
      BY <3>1 DEF StorageInv, StorageTypes, WrittenInPlace
    <3>3. w.in.kind = "disk"
      BY <3>2, DiskFacts
    <3> QED BY <1>1, <3>1, <3>3
  <2> QED BY <1>1, <2>1 DEF Kept
<1> QED BY <1>4, <1>5, <1>6, <1>7, <1>8 DEF StorageInv

LEMMA StorageInit == ASSUME DataInit PROVE StorageInv
<1>1. /\ store = [s \in Stores |-> Unmade] /\ view = [v \in Views |-> Unborn]
      /\ data = {} /\ recent = {} /\ promised = {}
  BY DEF DataInit
<1>2. StorageTypes
  BY <1>1, FreshRecords DEF StorageTypes
<1>3. Unmade.life = "unmade" /\ Unmade.context = None
  BY DEF Unmade
<1>4. MadeProperly(store) /\ OwnContexts(store, view)
  BY <1>1, <1>3 DEF MadeProperly, OwnContexts
<1>5. \A v \in Views : Good(store, view[v])
  <2>1. /\ Unborn.life = "unborn" /\ Unborn.store = None
        /\ Unborn.storage = NoStorage /\ Unborn.author = Default
        /\ Unborn.lasting = FALSE
    BY DEF Unborn
  <2> QED BY <1>1, <2>1 DEF Good
<1> QED BY <1>1, <1>2, <1>4, <1>5 DEF StorageInv, WrittenInPlace, Kept

LEMMA StorageStep == ASSUME StorageInv, [DataNext]_dataVars PROVE StorageInv'
<1>1. CASE RunWithConfiguration
  <2>1. UNCHANGED <<store, view, data, recent, promised>>
    BY <1>1 DEF RunWithConfiguration
  <2> QED BY <2>1 DEF StorageInv, StorageTypes
<1>2. CASE UNCHANGED dataVars
  <2>1. UNCHANGED <<store, view, data, recent, promised>>
    BY <1>2 DEF dataVars
  <2> QED BY <2>1 DEF StorageInv, StorageTypes
<1>3. CASE Relaunch
  BY <1>3, RelaunchStep
<1>4. ASSUME NEW s \in Stores,
             \/ DefaultStore(s) \/ NonPersistentStore(s)
             \/ \E id \in Identifiers : StoreForIdentifier(s, id)
      PROVE  StorageInv'
  BY <1>4, MakingStores
<1>5. ASSUME NEW s \in Stores, ReleaseStore(s) PROVE StorageInv'
  BY <1>5, ReleaseStep
<1>6. ASSUME NEW v \in Views, NEW s \in Stores \cup {None}, NewView(v, s) PROVE StorageInv'
  BY <1>6, NewViewStep
<1>7. ASSUME NEW v \in Views, CreateBrowserIfReady(v) PROVE StorageInv'
  BY <1>7, CreateStep
<1>8. ASSUME NEW v \in Views, Write(v) PROVE StorageInv'
  BY <1>8, WriteStep
<1>9. ASSUME NEW v \in Views, Dealloc(v) PROVE StorageInv'
  BY <1>9, DeallocStep
<1>10. ASSUME NEW v \in Views, NEW opener \in Views, OnBeforePopup(opener, v) PROVE StorageInv'
  BY <1>10, PopupStep
<1> QED
  BY <1>1, <1>2, <1>3, <1>4, <1>5, <1>6, <1>7, <1>8, <1>9, <1>10 DEF DataNext

\* Two authors in one storage may share it, and an author has but one.
LEMMA SharedStorage ==
    ASSUME StorageInv, NEW a, NEW b, NEW x, Fits(store, a, x), Fits(store, b, x)
    PROVE  MayShare(a, b)
<1>1. CASE a = Default /\ x = Global
  <2>1. b = Default
    BY <1>1, StorageFacts DEF Fits
  <2> QED BY <1>1, <2>1 DEF MayShare
<1>2. ASSUME NEW i \in Identifiers,
             a = Identified(i) /\ x = Disk(Component(i))
      PROVE  MayShare(a, b)
  <2>1. PICK j \in Identifiers : b = Identified(j) /\ x = Disk(Component(j))
    BY <1>2, StorageFacts DEF Fits
  <2>2. x.at = Component(i) /\ x.at = Component(j)
    BY <1>2, <2>1, StorageFacts
  <2> QED BY <1>2, <2>1, <2>2, AuthorFacts DEF MayShare
<1>3. ASSUME NEW s \in Stores,
             /\ a = Instance(s) /\ store[s].context # None
             /\ x = Memory(store[s].context)
      PROVE  MayShare(a, b)
  <2>1. PICK t \in Stores : /\ b = Instance(t) /\ store[t].context # None
                            /\ x = Memory(store[t].context)
    BY <1>3, StorageFacts DEF Fits
  <2>2. x.at[1] = store[s].context /\ x.at[1] = store[t].context
    BY <1>3, <2>1, StorageFacts
  <2>3. s = t
    BY <1>3, <2>1, <2>2 DEF StorageInv, OwnContexts
  <2> QED BY <1>3, <2>1, <2>3 DEF MayShare
<1> QED BY <1>1, <1>2, <1>3 DEF Fits

LEMMA OneStorage ==
    ASSUME NEW a, NEW x, NEW y, Fits(store, a, x), Fits(store, a, y)
    PROVE  x = y
<1>1. CASE a = Default
  BY <1>1, AuthorFacts DEF Fits
<1>2. ASSUME NEW id \in Identifiers, a = Identified(id) PROVE x = y
  BY <1>2, AuthorFacts DEF Fits
<1>3. ASSUME NEW s \in Stores, a = Instance(s) PROVE x = y
  BY <1>3, AuthorFacts DEF Fits
<1> QED BY <1>1, <1>2, <1>3 DEF Fits

\* The inductive invariant holds in every reachable state.
THEOREM StorageInvariance == DataSpec => []StorageInv
<1>1. DataInit => StorageInv
  BY StorageInit
<1>2. StorageInv /\ [DataNext]_dataVars => StorageInv'
  BY StorageStep
<1> QED BY <1>1, <1>2, PTL DEF DataSpec

\* Every variable is of its type, for every set of stores, views and identifiers.
THEOREM DataTypeCorrect == DataSpec => []DataTypeOK
<1> DEFINE Switches == rooted \in BOOLEAN /\ initialized \in BOOLEAN
<1>1. DataInit => Switches
  BY DEF DataInit
<1>2. Switches /\ [DataNext]_dataVars => Switches'
  BY DEF DataNext, dataVars, RunWithConfiguration, Relaunch, DefaultStore, NonPersistentStore,
         ReleaseStore, StoreForIdentifier, NewView, CreateBrowserIfReady, Write, Dealloc, OnBeforePopup,
         Make, InMemory, EnsureRequestContext
<1>3. DataSpec => []Switches
  <2> HIDE DEF Switches
  <2> QED BY <1>1, <1>2, PTL DEF DataSpec
<1>4. Switches /\ StorageInv => DataTypeOK
  <2> SUFFICES ASSUME Switches, StorageInv PROVE DataTypeOK
    OBVIOUS
  <2>1. \A s \in Stores : store[s] \in StoreRecord
    BY DEF StorageInv, StorageTypes
  <2>2. \A v \in Views : view[v] \in ViewRecord
    BY DEF StorageInv, StorageTypes
  <2>3. promised \subseteq Lasting
    BY DEF StorageInv, StorageTypes
  <2> QED BY <2>1, <2>2, <2>3 DEF DataTypeOK, StoreRecord, ViewRecord, Lasting
<1> QED BY <1>3, <1>4, StorageInvariance, PTL

\* Stores are isolated: no view, popup or later launch sees what was written
\* through another store, unless the two are identifiers with one path component.
THEOREM StoresIsolated == DataSpec => []Isolated
<1>1. StorageInv => Isolated
  <2> SUFFICES ASSUME StorageInv, NEW w \in data
               PROVE  /\ \A v \in Views : HasBrowser(v) /\ view[v].storage = w.in
                                          => MayShare(view[v].author, w.by)
                      /\ w.in.kind = "disk" => w.by[1] = "identified"
    BY DEF Isolated
  <2>1. Fits(store, w.by, w.in)
    BY DEF StorageInv, WrittenInPlace
  <2>2. ASSUME NEW v \in Views, HasBrowser(v), view[v].storage = w.in
        PROVE  MayShare(view[v].author, w.by)
    <3>1. Fits(store, view[v].author, w.in)
      BY <2>2 DEF StorageInv, Good, HasBrowser
    <3> QED BY <2>1, <3>1, SharedStorage
  <2> QED BY <2>1, <2>2, DiskFacts
<1> QED BY <1>1, StorageInvariance, PTL

\* What was written through a store is there for every later view of it, also
\* when the view that wrote is gone, and after a relaunch if the store has a path.
THEOREM DataStays == DataSpec => []StoresKeepData
<1>1. StorageInv => StoresKeepData
  <2> SUFFICES ASSUME StorageInv, NEW v \in Views, HasBrowser(v),
                      view[v].author \in recent \cup (promised \ {Default})
               PROVE  Sees(v)
    BY DEF StoresKeepData
  <2>1. PICK w \in data : w.by = view[v].author
    BY DEF StorageInv, Kept
  <2>2. Fits(store, view[v].author, w.in) /\ Fits(store, view[v].author, view[v].storage)
    BY <2>1 DEF StorageInv, WrittenInPlace, Good, HasBrowser
  <2>3. w.in = view[v].storage
    BY <2>2, OneStorage
  <2>4. w \in [in : Storages, by : Authors]
    BY DEF StorageInv, StorageTypes
  <2>5. w = [in |-> view[v].storage, by |-> view[v].author]
    BY <2>1, <2>3, <2>4
  <2> QED BY <2>5 DEF Sees
<1> QED BY <1>1, StorageInvariance, PTL

=============================================================================

---------------------------- MODULE VettingProofs ---------------------------
(* Proofs about what is let through: Vetting for any number of requests and  *)
(* versions and any delays, TyposquatMirror for any lists and names, and     *)
(* Egress for any rules, addresses, capacity, changes and failures.          *)
EXTENDS Vetting, TyposquatMirror, Egress, TLAPS

-----------------------------------------------------------------------------
(* The inductive invariant *)

TimeOK ==
  /\ \A v \in Versions :
       /\ Happened(published[v]) => published[v] <= now
       /\ Happened(listed[v]) => listed[v] <= now
       /\ osvCache[v] # None => osvCache[v].at <= now
  /\ dates # None => dates.at <= now
  /\ Happened(failedAt) => failedAt <= now
  /\ \A v \in Versions : Happened(cutAt[v]) => cutAt[v] <= now

(* What an index showed knowing the date is old enough by then.              *)
DatedOK ==
  \A v \in Versions :
    Happened(dated[v]) =>
      Happened(published[v]) /\ dated[v] - published[v] >= MinAge

(* A negative answer of OSV is at most a lookup older than its time.         *)
NegativeOK ==
  \A v \in Versions :
    osvCache[v] # None /\ ~osvCache[v].bad /\ Happened(listed[v]) =>
      osvCache[v].at <= listed[v] + FetchTime

(* v is missing in a map of dates that was looked up at t, because it was    *)
(* published later, a lookup failed later, or one ended before its page.     *)
Excused(v, t) ==
  \/ published[v] >= t
  \/ Happened(failedAt) /\ failedAt >= t
  \/ Happened(cutAt[v]) /\ cutAt[v] >= t

MapOK ==
  dates # None =>
    \A v \in Versions \ dates.known :
      Happened(published[v]) => Excused(v, dates.at - FetchTime)

Waiting  == {"answered", "dates"}
Deciding == {"mirror", "live", "answered", "age", "allowed", "too young"}

RequestOK(c) ==
  /\ started[c] <= asked[c] /\ asked[c] <= now
  /\ pc[c] \in Waiting => now <= asked[c] + FetchTime
  /\ pc[c] = "mirror" => MirrorOn
  /\ pc[c] \in Deciding => Happened(published[ver[c]])
  /\ pc[c] = "too young" => TooYoung(started[c], ver[c])
  /\ pc[c] = "allowed" /\ TooYoung(started[c], ver[c]) =>
       ~config.failOnMissing /\ "date" \in lost[c]
  /\ pc[c] = "answered" /\ ~answer[c] /\ Happened(listed[ver[c]]) =>
       asked[c] <= listed[ver[c]]
  /\ config.source = "live" /\ pc[c] \in {"age", "allowed"} /\ Happened(listed[ver[c]]) =>
       \/ started[c] <= listed[ver[c]] + NegativeTTL + FetchTime
       \/ "osv" \in lost[c]
  /\ pc[c] = "dates" =>
       \A v \in Versions \ shown[c] : Happened(published[v]) => Excused(v, asked[c])
  /\ pc[c] = "offered" =>
       \A v \in shown[c] :
         /\ Happened(published[v])
         /\ TooYoung(started[c], v) => Excused(v, started[c] - CacheTTL - FetchTime)

IInv ==
  /\ TypeOK /\ TimeOK /\ DatedOK /\ NegativeOK /\ MapOK
  /\ \A c \in Clients : RequestOK(c)

-----------------------------------------------------------------------------
(* What the typing of one request says.                                      *)
LEMMA RequestType ==
  ASSUME TypeOK, NEW c \in Clients
  PROVE  /\ now \in Int /\ started[c] \in Int /\ asked[c] \in Int
         /\ ver[c] \in Versions /\ shown[c] \in SUBSET Versions
         /\ \A v \in Versions :
              /\ Happened(published[v]) => published[v] \in Int
              /\ Happened(listed[v]) => listed[v] \in Int
              /\ osvCache[v] # None => osvCache[v].at \in Int /\ osvCache[v].bad \in BOOLEAN
         /\ Happened(failedAt) => failedAt \in Int
         /\ \A v \in Versions : Happened(cutAt[v]) => cutAt[v] \in Int
         /\ dates # None => dates.at \in Int /\ dates.known \in SUBSET Versions
<1>1. Times \subseteq Int
  BY TimeAssumption DEF Times
<1>2. \A v \in Versions :
        /\ Happened(published[v]) => published[v] \in Int
        /\ Happened(listed[v]) => listed[v] \in Int
  BY <1>1 DEF TypeOK, Happened
<1>3. \A v \in Versions :
        osvCache[v] # None => osvCache[v].at \in Int /\ osvCache[v].bad \in BOOLEAN
  BY DEF TypeOK, Entry
<1>4. dates # None => dates.at \in Int /\ dates.known \in SUBSET Versions
  BY DEF TypeOK, Dates
<1>5. \A v \in Versions : Happened(cutAt[v]) => cutAt[v] \in Int
  BY <1>1 DEF TypeOK, Happened
<1> QED
  BY <1>1, <1>2, <1>3, <1>4, <1>5 DEF TypeOK, Happened

LEMMA RequestTime ==
  ASSUME IInv, NEW c \in Clients
  PROVE  /\ now \in Int /\ started[c] \in Int /\ asked[c] \in Int
         /\ started[c] <= asked[c] /\ asked[c] <= now
         /\ pc[c] \in Waiting => now <= asked[c] + FetchTime
         /\ MinAge \in Nat /\ NegativeTTL \in Nat /\ CacheTTL \in Nat /\ FetchTime \in Nat
<1>1. TypeOK /\ RequestOK(c)
  BY DEF IInv
<1>2. now \in Int /\ started[c] \in Int /\ asked[c] \in Int
  BY <1>1, RequestType
<1>3. /\ started[c] <= asked[c] /\ asked[c] <= now
      /\ pc[c] \in Waiting => now <= asked[c] + FetchTime
  BY <1>1 DEF RequestOK
<1> QED
  BY <1>2, <1>3, TimeAssumption

(* A request no step touches stays as it should be.                          *)
LEMMA RequestKept ==
  ASSUME NEW c, RequestOK(c),
         UNCHANGED <<config, now, published, listed, failedAt, cutAt>>,
         pc'[c] = pc[c], ver'[c] = ver[c], started'[c] = started[c],
         asked'[c] = asked[c], answer'[c] = answer[c], shown'[c] = shown[c],
         lost'[c] = lost[c]
  PROVE  RequestOK(c)'
BY ZenonT(60) DEF RequestOK, MirrorOn, TooYoung, Excused, Happened

(* The parts of the invariant that no request is in.                         *)
SharedOK == TimeOK /\ DatedOK /\ NegativeOK /\ MapOK

LEMMA SharedKept ==
  ASSUME SharedOK,
         UNCHANGED <<now, published, listed, osvCache, dates, dated, failedAt, cutAt>>
  PROVE  SharedOK'
BY DEF SharedOK, TimeOK, DatedOK, NegativeOK, MapOK, Excused, Happened

LEMMA InvParts == IInv <=> TypeOK /\ SharedOK /\ \A c \in Clients : RequestOK(c)
BY DEF IInv, SharedOK

-----------------------------------------------------------------------------
(* The initial states and the steps of the world and of the mirror *)

LEMMA InvInit == Init => IInv
<1> SUFFICES ASSUME Init PROVE IInv
  OBVIOUS
<1>1. 0 \in Times /\ 0 \in 0 .. MaxFailures /\ 0 \in 0..MaxPages + 1
  BY TimeAssumption DEF Times
<1>2. TypeOK
  BY <1>1, ValueAssumption DEF Init, TypeOK, Resting, Body, Dates, Entry
<1>3. TimeOK /\ DatedOK /\ NegativeOK /\ MapOK
  BY DEF Init, TimeOK, DatedOK, NegativeOK, MapOK, Happened
<1>4. \A c \in Clients : RequestOK(c)
  BY DEF Init, RequestOK, Waiting, Deciding
<1> QED
  BY <1>2, <1>3, <1>4 DEF IInv

LEMMA InvTick ==
  ASSUME IInv, Tick PROVE IInv'
<1>0. now \in Int /\ now' = now + 1 /\ now' \in Times
  BY TimeAssumption DEF IInv, TypeOK, Times, Tick
<1>1. TypeOK'
  BY <1>0 DEF IInv, TypeOK, Tick, world, mirrorVars, requests, history, Times, Dates,
              Entry, Body, Resting
<1>2. TimeOK'
  <2>1. \A v \in Versions :
          /\ Happened(published[v]) => published[v] \in Int
          /\ Happened(listed[v]) => listed[v] \in Int
          /\ osvCache[v] # None => osvCache[v].at \in Int
    BY TimeAssumption DEF IInv, TypeOK, Happened, Times, Entry
  <2>2. /\ Happened(failedAt) => failedAt \in Int
        /\ dates # None => dates.at \in Int
        /\ \A v \in Versions : Happened(cutAt[v]) => cutAt[v] \in Int
    BY TimeAssumption DEF IInv, TypeOK, Happened, Times, Dates
  <2> QED
    BY <1>0, <2>1, <2>2 DEF IInv, TimeOK, Tick, world, mirrorVars, history, Happened
<1>3. DatedOK' /\ NegativeOK' /\ MapOK'
  BY DEF IInv, DatedOK, NegativeOK, MapOK, Excused, Happened, Tick, world, history
<1>4. ASSUME NEW c \in Clients PROVE RequestOK(c)'
  <2>2. pc[c] \in Waiting => now' <= asked[c] + FetchTime
    BY <1>0, RequestTime DEF Tick, Waiting
  <2>3. asked[c] <= now'
    BY <1>0, RequestTime
  <2> QED
    BY <2>2, <2>3
    DEF IInv, RequestOK, Tick, world, mirrorVars, requests, history, MirrorOn, TooYoung,
        Excused, Happened
<1> QED
  BY <1>1, <1>2, <1>3, <1>4 DEF IInv

LEMMA InvPublish ==
  ASSUME IInv, NEW w \in Versions, NEW pages \in [Versions -> 0..MaxPages + 1],
         PublishVersion(w, pages)
  PROVE  IInv'
<1>0. /\ now \in Times /\ now \in Int
      /\ published[w] = Never /\ published'[w] = now
      /\ \A v \in Versions \ {w} : published'[v] = published[v]
      /\ \A v \in Versions : Happened(published[v]) => published'[v] = published[v]
  BY TimeAssumption DEF IInv, TypeOK, Times, PublishVersion, Happened
<1>u. UNCHANGED <<config, now, listed, dump, mirrorVars, osvCache, dates, requests, history>>
  BY DEF PublishVersion
<1>1. TypeOK'
  BY <1>0, <1>u DEF IInv, TypeOK, PublishVersion, mirrorVars, requests, history, Times
<1>2. TimeOK'
  BY <1>0, <1>u DEF IInv, TimeOK, mirrorVars, history, Happened
<1>3. DatedOK' /\ NegativeOK'
  BY <1>0, <1>u DEF IInv, DatedOK, NegativeOK, Happened, history
<1>4. MapOK'
  <2>1. ASSUME dates # None PROVE published'[w] >= dates.at - FetchTime
    BY <1>0, <2>1, TimeAssumption DEF IInv, TimeOK, TypeOK, Dates
  <2> QED
    BY <1>0, <1>u, <2>1 DEF IInv, MapOK, Excused, Happened, history
<1>5. ASSUME NEW c \in Clients PROVE RequestOK(c)'
  <2>1. /\ pc[c] = "dates" => published'[w] >= asked[c]
        /\ ver[c] \in Versions /\ shown[c] \in SUBSET Versions
    BY <1>0, RequestType DEF IInv, RequestOK
  <2> QED
    BY <1>0, <1>u, <2>1, ZenonT(60)
    DEF IInv, RequestOK, mirrorVars, requests, history, MirrorOn, TooYoung, Excused,
        Happened, Deciding
<1> QED
  BY <1>1, <1>2, <1>3, <1>4, <1>5 DEF IInv

LEMMA InvList ==
  ASSUME IInv, NEW w \in Versions, ListMalicious(w) PROVE IInv'
<1>0. /\ now \in Times /\ now \in Int
      /\ listed[w] = Never /\ listed'[w] = now
      /\ \A v \in Versions \ {w} : listed'[v] = listed[v]
  BY TimeAssumption DEF IInv, TypeOK, Times, ListMalicious
<1>u. UNCHANGED <<config, now, published, dump, mirrorVars, osvCache, dates, requests,
                  history>>
  BY DEF ListMalicious
<1>1. TypeOK'
  BY <1>0, <1>u DEF IInv, TypeOK, ListMalicious, mirrorVars, requests, history, Times
<1>2. TimeOK'
  BY <1>0, <1>u DEF IInv, TimeOK, mirrorVars, history, Happened
<1>3. DatedOK' /\ MapOK'
  BY <1>0, <1>u DEF IInv, DatedOK, MapOK, Excused, Happened, history
<1>4. NegativeOK'
  <2>1. osvCache[w] # None => osvCache[w].at <= listed'[w] + FetchTime
    BY <1>0, TimeAssumption DEF IInv, TimeOK, TypeOK, Entry
  <2> QED
    BY <1>0, <1>u, <2>1 DEF IInv, NegativeOK
<1>5. ASSUME NEW c \in Clients PROVE RequestOK(c)'
  <2>1. /\ ver[c] \in Versions /\ asked[c] <= listed'[w]
        /\ started[c] <= listed'[w] + NegativeTTL + FetchTime
    <3>1. ver[c] \in Versions
      BY RequestType DEF IInv
    <3> QED
      BY <1>0, <3>1, RequestTime
  <2>2. CASE ver[c] = w
    BY <1>0, <1>u, <2>1, <2>2
    DEF IInv, RequestOK, requests, history, MirrorOn, TooYoung, Excused, Happened
  <2>3. CASE ver[c] # w
    BY <1>0, <1>u, <2>1, <2>3
    DEF IInv, RequestOK, requests, history, MirrorOn, TooYoung, Excused, Happened
  <2> QED
    BY <2>2, <2>3
<1> QED
  BY <1>1, <1>2, <1>3, <1>4, <1>5 DEF IInv

(* The producer and the mirror change nothing the invariant is about but     *)
(* types.                                                                    *)
LEMMA InvMirror ==
  ASSUME IInv, ProducerRuns \/ Refresh PROVE IInv'
<1>1. TypeOK'
  <2>1. CASE ProducerRuns
    BY <2>1 DEF IInv, TypeOK, ProducerRuns, Listed, mirrorVars, requests, history
  <2>2. CASE RefreshFetch
    BY <2>2 DEF IInv, TypeOK, RefreshFetch, Body, world, requests, history
  <2>3. CASE RefreshGarbled
    <3>1. failures' \in 0 .. MaxFailures
      BY <2>3, TimeAssumption DEF IInv, TypeOK, RefreshGarbled
    <3> QED
      BY <2>3, <3>1 DEF IInv, TypeOK, RefreshGarbled, Body, world, requests
  <2>4. CASE RefreshStore
    BY <2>4 DEF IInv, TypeOK, RefreshStore, Body, world, requests, history
  <2> QED
    BY <2>1, <2>2, <2>3, <2>4 DEF Refresh
<1>2. UNCHANGED <<config, now, published, listed, osvCache, dates, requests, dated, failedAt, cutAt>>
  BY DEF ProducerRuns, Refresh, RefreshFetch, RefreshGarbled, RefreshStore, world, history
<1>3. SharedOK'
  BY <1>2, SharedKept, InvParts
<1>4. \A c \in Clients : RequestOK(c)'
  BY <1>2, RequestKept DEF IInv, requests
<1> QED
  BY <1>1, <1>3, <1>4, InvParts DEF IInv, SharedOK

-----------------------------------------------------------------------------
(* The steps of a request *)

(* A step of c that leaves the world alone keeps the invariant when it keeps *)
(* types, what is shared, and what is due of c.                              *)
LEMMA InvStep ==
  ASSUME IInv, NEW c \in Clients, TypeOK', SharedOK', RequestOK(c)',
         UNCHANGED <<config, now, published, listed, failedAt, cutAt>>,
         \A x \in Clients \ {c} :
           /\ pc'[x] = pc[x] /\ ver'[x] = ver[x] /\ started'[x] = started[x]
           /\ asked'[x] = asked[x] /\ answer'[x] = answer[x] /\ shown'[x] = shown[x]
           /\ lost'[x] = lost[x]
  PROVE  IInv'
<1>1. \A x \in Clients \ {c} : RequestOK(x)'
  BY RequestKept DEF IInv
<1> QED
  BY <1>1 DEF IInv, SharedOK

LEMMA InvDecide ==
  ASSUME IInv, NEW c \in Clients, NEW v \in Versions, Decide(c, v)
  PROVE  IInv'
<1>0. TypeOK /\ SharedOK /\ now \in Int
  BY RequestTime, InvParts
<1>1. TypeOK'
  BY <1>0
  DEF Decide, Begin, Become, FirstLookup, TypeOK, Resting, world, mirrorVars, history
<1>2. SharedOK'
  BY <1>0, SharedKept DEF Decide, world, history
<1>3. RequestOK(c)'
  <2>1. /\ pc'[c] \in {"mirror", "live", "age"} /\ ver'[c] = v
        /\ pc'[c] = "mirror" => MirrorOn
        /\ pc'[c] = "age" => config.source # "live"
        /\ started'[c] = now /\ asked'[c] = now /\ Happened(published[v])
        /\ UNCHANGED <<config, now, published, listed, failedAt, cutAt>>
    BY <1>0 DEF Decide, Begin, Become, FirstLookup, TypeOK, world, history
  <2>2. started'[c] <= asked'[c] /\ asked'[c] <= now'
    BY <1>0, <2>1
  <2>3. pc'[c] \notin {"answered", "dates", "allowed", "too young", "offered"}
    BY <2>1
  <2> QED
    BY <2>1, <2>2, <2>3
    DEF RequestOK, MirrorOn, Waiting, Deciding, TooYoung, Excused, Happened
<1> QED
  BY <1>1, <1>2, <1>3, InvStep DEF Decide, Begin, Become, world, history, IInv, TypeOK

LEMMA InvMirrorLookup ==
  ASSUME IInv, NEW c \in Clients, MirrorLookup(c) PROVE IInv'
<1>0. TypeOK /\ SharedOK /\ RequestOK(c)
  BY InvParts
<1>1. TypeOK'
  BY <1>0 DEF MirrorLookup, Become, TypeOK, Resting, world, mirrorVars, history
<1>2. SharedOK'
  BY <1>0, SharedKept DEF MirrorLookup, world, history
<1>3. RequestOK(c)'
  <2>1. /\ pc[c] = "mirror" /\ pc'[c] \in {"known bad", "age"}
        /\ UNCHANGED <<config, now, published, listed, ver, started, asked, answer,
                       shown, lost, failedAt, cutAt>>
    BY <1>0 DEF MirrorLookup, Become, TypeOK, world, history
  <2>2. config.source # "live" /\ Happened(published[ver[c]])
    BY <1>0, <2>1 DEF RequestOK, MirrorOn, Deciding
  <2> QED
    BY <1>0, <2>1, <2>2
    DEF RequestOK, MirrorOn, Waiting, Deciding, TooYoung, Excused, Happened
<1> QED
  BY <1>1, <1>2, <1>3, InvStep DEF MirrorLookup, Become, world, history, IInv, TypeOK

LEMMA InvLiveCached ==
  ASSUME IInv, NEW c \in Clients, LiveCached(c) PROVE IInv'
<1>0. TypeOK /\ SharedOK /\ RequestOK(c)
  BY InvParts
<1>1. TypeOK'
  BY <1>0 DEF LiveCached, Become, TypeOK, Resting, world, mirrorVars, history
<1>2. SharedOK'
  BY <1>0, SharedKept DEF LiveCached, world, history
<1>3. RequestOK(c)'
  <2>1. /\ pc[c] = "live"
        /\ pc'[c] = IF osvCache[ver[c]].bad THEN "known bad" ELSE "age"
        /\ UNCHANGED <<config, now, published, listed, ver, started, asked, answer,
                       shown, lost, failedAt, cutAt>>
    BY <1>0 DEF LiveCached, Become, TypeOK, world, history
  <2>2. Happened(published[ver[c]])
    BY <1>0, <2>1 DEF RequestOK, Deciding
  <2>3. pc'[c] = "age" /\ Happened(listed[ver[c]]) =>
          started[c] <= listed[ver[c]] + NegativeTTL + FetchTime
    <3>1. SUFFICES ASSUME pc'[c] = "age", Happened(listed[ver[c]])
                   PROVE  started[c] <= listed[ver[c]] + NegativeTTL + FetchTime
      OBVIOUS
    <3>2. /\ ver[c] \in Versions /\ ~osvCache[ver[c]].bad
          /\ osvCache[ver[c]] # None
          /\ osvCache[ver[c]].at \in Int /\ listed[ver[c]] \in Int
      BY <1>0, <2>1, <3>1, RequestType DEF LiveCached, Fresh
    <3>3. now - osvCache[ver[c]].at < NegativeTTL
      BY <3>2 DEF LiveCached, Fresh
    <3>4. osvCache[ver[c]].at <= listed[ver[c]] + FetchTime
      BY <1>0, <3>1, <3>2 DEF SharedOK, NegativeOK
    <3> QED
      BY <3>2, <3>3, <3>4, RequestTime
  <2> QED
    BY <1>0, <2>1, <2>2, <2>3
    DEF RequestOK, MirrorOn, Waiting, Deciding, TooYoung, Excused, Happened
<1> QED
  BY <1>1, <1>2, <1>3, InvStep DEF LiveCached, Become, world, history, IInv, TypeOK

LEMMA InvLiveAsk ==
  ASSUME IInv, NEW c \in Clients, LiveAsk(c) PROVE IInv'
<1>0. TypeOK /\ SharedOK /\ RequestOK(c)
  BY InvParts
<1>1. TypeOK'
  <2>1. /\ answer' = [answer EXCEPT ![c] = ver[c] \in Listed]
        /\ (ver[c] \in Listed) \in BOOLEAN
    BY DEF LiveAsk
  <2>2. answer' \in [Clients -> BOOLEAN]
    BY <1>0, <2>1 DEF TypeOK
  <2> QED
    BY <1>0, <2>2 DEF LiveAsk, Become, TypeOK, Resting, world, mirrorVars, history
<1>2. SharedOK'
  BY <1>0, SharedKept DEF LiveAsk, world, history
<1>3. RequestOK(c)'
  <2>1. /\ pc[c] = "live" /\ pc'[c] = "answered" /\ asked'[c] = now
        /\ answer'[c] = (ver[c] \in Listed) /\ ver[c] \in Versions
        /\ UNCHANGED <<config, now, published, listed, ver, started, shown, lost, failedAt, cutAt>>
    BY <1>0 DEF LiveAsk, Become, TypeOK, world, history
  <2>2. Happened(published[ver[c]])
    BY <1>0, <2>1 DEF RequestOK, Deciding
  <2>3. ~answer'[c] => ~Happened(listed[ver[c]])
    BY <2>1 DEF Listed
  <2>4. started[c] <= now /\ now <= now /\ now <= now + FetchTime
    BY RequestTime
  <2> QED
    BY <1>0, <2>1, <2>2, <2>3, <2>4
    DEF RequestOK, MirrorOn, Waiting, Deciding, TooYoung, Excused, Happened
<1> QED
  BY <1>1, <1>2, <1>3, InvStep DEF LiveAsk, Become, world, history, IInv, TypeOK

LEMMA InvRemember ==
  ASSUME IInv, NEW c \in Clients, Remember(c) PROVE IInv'
<1>0. TypeOK /\ SharedOK /\ RequestOK(c)
  BY InvParts
<1>a. /\ pc[c] = "answered" /\ ver[c] \in Versions /\ answer[c] \in BOOLEAN
      /\ pc'[c] = IF answer[c] THEN "known bad" ELSE "age"
      /\ osvCache'[ver[c]].bad = answer[c]
      /\ UNCHANGED <<config, now, published, listed, ver, started, asked, answer,
                     shown, lost, dated, dates, failedAt, cutAt>>
  BY <1>0 DEF Remember, Become, TypeOK, world, history
<1>c. /\ osvCache'[ver[c]].at = now
      /\ \A v \in Versions \ {ver[c]} : osvCache'[v] = osvCache[v]
  BY <1>0 DEF Remember, TypeOK
<1>b. Happened(listed[ver[c]]) => listed[ver[c]] \in Int
  BY <1>0, <1>a, RequestType
<1>1. TypeOK'
  <2>1. [bad |-> answer[c], at |-> now] \in Entry
    BY <1>a, RequestTime DEF Entry
  <2> QED
    BY <1>0, <2>1 DEF Remember, Become, TypeOK, Resting, world, mirrorVars, history
<1>2. SharedOK'
  <2>1. TimeOK'
    <3>0. now <= now
      BY RequestTime
    <3>1. UNCHANGED <<now, published, listed, dates, failedAt, cutAt>>
      BY <1>a
    <3>2. ASSUME NEW v \in Versions, osvCache'[v] # None PROVE osvCache'[v].at <= now
      <4>1. CASE v = ver[c]
        BY <1>c, <3>0, <4>1
      <4>2. CASE v # ver[c]
        BY <1>0, <1>c, <3>2, <4>2 DEF SharedOK, TimeOK
      <4> QED
        BY <4>1, <4>2
    <3> QED
      BY <1>0, <3>1, <3>2 DEF SharedOK, TimeOK, Happened
  <2>2. NegativeOK'
    <3>1. ~answer[c] /\ Happened(listed[ver[c]]) => now <= listed[ver[c]] + FetchTime
      <4>1. ~answer[c] /\ Happened(listed[ver[c]]) => asked[c] <= listed[ver[c]]
        BY <1>0, <1>a DEF RequestOK
      <4> QED
        BY <1>a, <1>b, <4>1, RequestTime DEF Waiting
    <3> QED
      BY <1>0, <1>a, <1>c, <3>1 DEF SharedOK, NegativeOK, Happened
  <2>3. DatedOK' /\ MapOK'
    BY <1>0, <1>a DEF SharedOK, DatedOK, MapOK, Excused, Happened
  <2> QED
    BY <2>1, <2>2, <2>3 DEF SharedOK
<1>3. RequestOK(c)'
  <2>1. Happened(published[ver[c]])
    BY <1>0, <1>a DEF RequestOK, Deciding
  <2>2. pc'[c] = "age" /\ Happened(listed[ver[c]]) =>
          started[c] <= listed[ver[c]] + NegativeTTL + FetchTime
    <3>1. pc'[c] = "age" /\ Happened(listed[ver[c]]) => asked[c] <= listed[ver[c]]
      BY <1>0, <1>a DEF RequestOK
    <3> QED
      BY <1>b, <3>1, RequestTime
  <2> QED
    BY <1>0, <1>a, <2>1, <2>2
    DEF RequestOK, MirrorOn, Waiting, Deciding, TooYoung, Excused, Happened
<1> QED
  BY <1>1, <1>2, <1>3, InvStep DEF Remember, Become, world, history, IInv, TypeOK

LEMMA InvLiveFails ==
  ASSUME IInv, NEW c \in Clients, LiveFails(c) PROVE IInv'
<1>0. TypeOK /\ SharedOK /\ RequestOK(c)
  BY InvParts
<1>1. TypeOK'
  <2>1. failures' \in 0 .. MaxFailures
    BY <1>0, TimeAssumption DEF LiveFails, Fail, TypeOK
  <2>2. lost' \in [Clients -> SUBSET {"osv", "date"}]
    BY <1>0 DEF LiveFails, Fail, TypeOK
  <2> QED
    BY <1>0, <2>1, <2>2 DEF LiveFails, Become, TypeOK, Resting, world, mirrorVars
<1>2. SharedOK'
  BY <1>0, SharedKept DEF LiveFails, world
<1>3. RequestOK(c)'
  <2>1. /\ pc[c] = "live" /\ pc'[c] = "age" /\ "osv" \in lost'[c]
        /\ UNCHANGED <<config, now, published, listed, ver, started, asked, answer,
                       shown, failedAt, cutAt>>
    BY <1>0 DEF LiveFails, Fail, Become, TypeOK, world
  <2>2. Happened(published[ver[c]])
    BY <1>0, <2>1 DEF RequestOK, Deciding
  <2> QED
    BY <1>0, <2>1, <2>2
    DEF RequestOK, MirrorOn, Waiting, Deciding, TooYoung, Excused, Happened
<1> QED
  BY <1>1, <1>2, <1>3, InvStep DEF LiveFails, Fail, Become, world, IInv, TypeOK

LEMMA InvAgeCheck ==
  ASSUME IInv, NEW c \in Clients, AgeCheck(c) PROVE IInv'
<1>0. TypeOK /\ SharedOK /\ RequestOK(c)
  BY InvParts
<1>1. TypeOK'
  BY <1>0 DEF AgeCheck, Become, TypeOK, Resting, world, mirrorVars, history
<1>2. SharedOK'
  BY <1>0, SharedKept DEF AgeCheck, world, history
<1>3. RequestOK(c)'
  <2>1. /\ pc[c] = "age"
        /\ pc'[c] = IF TooYoung(started[c], ver[c]) THEN "too young" ELSE "allowed"
        /\ UNCHANGED <<config, now, published, listed, ver, started, asked, answer,
                       shown, lost, failedAt, cutAt>>
    BY <1>0 DEF AgeCheck, Become, TypeOK, world, history
  <2>2. Happened(published[ver[c]])
    BY <1>0, <2>1 DEF RequestOK, Deciding
  <2> QED
    BY <1>0, <2>1, <2>2
    DEF RequestOK, MirrorOn, Waiting, Deciding, TooYoung, Excused, Happened
<1> QED
  BY <1>1, <1>2, <1>3, InvStep DEF AgeCheck, Become, world, history, IInv, TypeOK

LEMMA InvAgeUnknown ==
  ASSUME IInv, NEW c \in Clients, AgeUnknown(c) PROVE IInv'
<1>0. TypeOK /\ SharedOK /\ RequestOK(c)
  BY InvParts
<1>1. TypeOK'
  <2>1. failures' \in 0 .. MaxFailures
    <3>1. failures < MaxFailures /\ failures' = failures + 1
      BY DEF AgeUnknown, Fail
    <3> QED
      BY <1>0, <3>1, TimeAssumption DEF TypeOK
  <2>2. lost' \in [Clients -> SUBSET {"osv", "date"}]
    BY <1>0 DEF AgeUnknown, Fail, TypeOK
  <2> QED
    BY <1>0, <2>1, <2>2 DEF AgeUnknown, Become, TypeOK, Resting, world, mirrorVars
<1>2. SharedOK'
  BY <1>0, SharedKept DEF AgeUnknown, world
<1>3. RequestOK(c)'
  <2>1. /\ pc[c] = "age" /\ lost'[c] = lost[c] \cup {"date"}
        /\ pc'[c] = IF config.failOnMissing THEN "unknown age" ELSE "allowed"
        /\ UNCHANGED <<config, now, published, listed, ver, started, asked, answer,
                       shown, failedAt, cutAt>>
    BY <1>0 DEF AgeUnknown, Fail, Become, TypeOK, world
  <2>2. Happened(published[ver[c]])
    BY <1>0, <2>1 DEF RequestOK, Deciding
  <2> QED
    BY <1>0, <2>1, <2>2
    DEF RequestOK, MirrorOn, Waiting, Deciding, TooYoung, Excused, Happened
<1> QED
  BY <1>1, <1>2, <1>3, InvStep DEF AgeUnknown, Fail, Become, world, IInv, TypeOK

(* What an index offers at a time t that has come, with the versions it      *)
(* leaves unfiltered excused.                                                *)
LEMMA OfferKept ==
  ASSUME IInv, NEW c \in Clients, NEW t \in Times, NEW known \in SUBSET Versions,
         Offer(c, t, known), UNCHANGED <<published, failedAt, cutAt>>,
         \A v \in Versions \ known :
           Happened(published[v]) => Excused(v, t - CacheTTL - FetchTime)
  PROVE  /\ shown' \in [Clients -> SUBSET Versions]
         /\ dated' \in [Versions -> Times \cup {Never}]
         /\ DatedOK'
         /\ \A x \in Clients \ {c} : shown'[x] = shown[x]
         /\ \A v \in shown'[c] :
              /\ Happened(published[v])
              /\ TooYoung(t, v) => Excused(v, t - CacheTTL - FetchTime)
<1>0. TypeOK /\ DatedOK /\ Kept(t, known) \subseteq Versions
  BY DEF IInv, Kept
<1>1. /\ shown' \in [Clients -> SUBSET Versions] /\ shown'[c] = Kept(t, known)
      /\ \A x \in Clients \ {c} : shown'[x] = shown[x]
  BY <1>0 DEF Offer, TypeOK
<1>2. \A v \in Versions :
        dated'[v] = dated[v] \/ (dated'[v] = t /\ v \in Kept(t, known) \cap known)
  BY DEF Offer
<1>3. dated' \in [Versions -> Times \cup {Never}]
  <2>1. dated' = [v \in Versions |-> dated'[v]]
    BY DEF Offer
  <2> QED
    BY <1>0, <1>2, <2>1 DEF TypeOK
<1>4. \A v \in Kept(t, known) : Happened(published[v]) /\ published[v] \in Int
  BY <1>0, TimeAssumption DEF Kept, TypeOK, Happened, Times
<1>5. DatedOK'
  <2>1. \A v \in Kept(t, known) \cap known : t - published[v] >= MinAge
    BY <1>0, <1>4, TimeAssumption DEF Kept, Drops, Times
  <2> QED
    BY <1>0, <1>2, <1>4, <2>1 DEF DatedOK, Happened
<1>6. ASSUME NEW v \in Kept(t, known), TooYoung(t, v)
      PROVE  Excused(v, t - CacheTTL - FetchTime)
  BY <1>0, <1>4, <1>6 DEF Kept, Drops, TooYoung
<1> QED
  BY <1>1, <1>3, <1>4, <1>5, <1>6

LEMMA InvIndexWithDates ==
  ASSUME IInv, NEW c \in Clients, IndexWithDates(c) PROVE IInv'
<1>0. TypeOK /\ SharedOK /\ RequestOK(c) /\ now \in Times /\ now \in Int
  BY RequestTime, InvParts DEF TypeOK
<1>a. /\ Offer(c, now, Versions)
      /\ UNCHANGED <<config, now, world, mirrorVars, osvCache, dates, failedAt, cutAt, failures>>
  BY DEF IndexWithDates
<1>b. /\ shown' \in [Clients -> SUBSET Versions]
      /\ dated' \in [Versions -> Times \cup {Never}]
      /\ DatedOK'
      /\ \A x \in Clients \ {c} : shown'[x] = shown[x]
      /\ \A v \in shown'[c] :
           /\ Happened(published[v])
           /\ TooYoung(now, v) => Excused(v, now - CacheTTL - FetchTime)
  BY <1>0, <1>a, OfferKept DEF world
<1>c. PICK w \in Versions : Begin(c, w, "offered")
  BY DEF IndexWithDates
<1>1. TypeOK'
  BY <1>0, <1>a, <1>b, <1>c DEF Begin, Become, TypeOK, Resting, world, mirrorVars
<1>2. SharedOK'
  BY <1>0, <1>a, <1>b
  DEF SharedOK, TimeOK, NegativeOK, MapOK, Excused, Happened, world
<1>3. RequestOK(c)'
  <2>1. /\ pc'[c] = "offered" /\ started'[c] = now /\ asked'[c] = now
    BY <1>0, <1>c DEF Begin, Become, TypeOK
  <2>2. \A v \in shown'[c] :
          /\ Happened(published'[v])
          /\ TooYoung(started[c], v)' => Excused(v, started[c] - CacheTTL - FetchTime)'
    BY <1>a, <1>b, <2>1 DEF TooYoung, Excused, Happened, world
  <2>3. started'[c] <= asked'[c] /\ asked'[c] <= now'
    BY <1>0, <1>a, <2>1
  <2> QED
    BY <2>1, <2>2, <2>3 DEF RequestOK, Waiting, Deciding, Happened
<1> QED
  BY <1>0, <1>1, <1>2, <1>3, <1>a, <1>b, <1>c, InvStep DEF Begin, Become, world, TypeOK

LEMMA InvIndexBare ==
  ASSUME IInv, NEW c \in Clients, IndexBare(c) PROVE IInv'
<1>0. TypeOK /\ SharedOK /\ now \in Int
  BY RequestTime, InvParts
<1>c. PICK w \in Versions : Begin(c, w, "bare")
  BY DEF IndexBare
<1>1. TypeOK'
  BY <1>0, <1>c DEF IndexBare, Begin, Become, TypeOK, Resting, world, mirrorVars, history
<1>2. SharedOK'
  BY <1>0, SharedKept DEF IndexBare, world, history
<1>3. RequestOK(c)'
  <2>1. /\ pc'[c] = "bare" /\ started'[c] = now /\ asked'[c] = now /\ now' = now
    BY <1>0, <1>c DEF IndexBare, Begin, Become, TypeOK
  <2>2. started'[c] <= asked'[c] /\ asked'[c] <= now'
    BY <1>0, <2>1
  <2> QED
    BY <2>1, <2>2 DEF RequestOK, Waiting, Deciding
<1> QED
  BY <1>0, <1>1, <1>2, <1>3, <1>c, InvStep
  DEF IndexBare, Begin, Become, world, history, TypeOK

LEMMA InvDatesCached ==
  ASSUME IInv, NEW c \in Clients, DatesCached(c) PROVE IInv'
<1>0. TypeOK /\ SharedOK /\ RequestOK(c) /\ started[c] \in Times
  BY InvParts DEF TypeOK
<1>a. /\ pc[c] = "bare" /\ pc' = [pc EXCEPT ![c] = "offered"]
      /\ Offer(c, started[c], dates.known)
      /\ UNCHANGED <<config, now, world, mirrorVars, osvCache, dates, ver, started, asked,
                     answer, lost, failedAt, cutAt, failures>>
  BY DEF DatesCached, Become
<1>d. /\ dates # None /\ dates.known \in SUBSET Versions /\ dates.at \in Int
      /\ now - dates.at < CacheTTL
  BY <1>0, RequestType DEF DatesCached, DatesFresh
<1>e. ASSUME NEW v \in Versions \ dates.known, Happened(published[v])
      PROVE  Excused(v, started[c] - CacheTTL - FetchTime)
  <2>1. Excused(v, dates.at - FetchTime)
    BY <1>0, <1>d, <1>e DEF SharedOK, MapOK
  <2>2. /\ published[v] \in Int
        /\ Happened(failedAt) => failedAt \in Int
        /\ Happened(cutAt[v]) => cutAt[v] \in Int
    BY <1>0, <1>e, RequestType
  <2> QED
    BY <1>d, <2>1, <2>2, RequestTime DEF Excused
<1>b. /\ shown' \in [Clients -> SUBSET Versions]
      /\ dated' \in [Versions -> Times \cup {Never}]
      /\ DatedOK'
      /\ \A x \in Clients \ {c} : shown'[x] = shown[x]
      /\ \A v \in shown'[c] :
           /\ Happened(published[v])
           /\ TooYoung(started[c], v) => Excused(v, started[c] - CacheTTL - FetchTime)
  BY <1>0, <1>a, <1>d, <1>e, OfferKept DEF world
<1>1. TypeOK'
  BY <1>0, <1>a, <1>b DEF TypeOK, Resting, world, mirrorVars
<1>2. SharedOK'
  BY <1>0, <1>a, <1>b
  DEF SharedOK, TimeOK, NegativeOK, MapOK, Excused, Happened, world
<1>3. RequestOK(c)'
  <2>1. pc'[c] = "offered"
    BY <1>0, <1>a DEF TypeOK
  <2> QED
    BY <1>0, <1>a, <1>b, <2>1
    DEF RequestOK, Waiting, Deciding, TooYoung, Excused, Happened, world
<1> QED
  BY <1>0, <1>1, <1>2, <1>3, <1>a, <1>b, InvStep DEF world, TypeOK

(* A lookup that fails or ends early now excuses all that earlier ones did.  *)
LEMMA ExcusedKept ==
  ASSUME IInv, failedAt' \in {failedAt, now}, UNCHANGED published, now \in Int,
         NEW v \in Versions, cutAt'[v] \in {cutAt[v], now},
         NEW t \in Int, Excused(v, t)
  PROVE  Excused(v, t)'
<1>1. /\ Happened(failedAt) => failedAt \in Int /\ failedAt <= now
      /\ Happened(cutAt[v]) => cutAt[v] \in Int /\ cutAt[v] <= now
  BY TimeAssumption DEF IInv, TypeOK, TimeOK, Happened, Times
<1>2. Happened(now)
  BY ValueAssumption DEF Happened
<1> QED
  BY <1>1, <1>2 DEF Excused, Happened

(* So that asking keeps the invariant if it keeps types and what is due of   *)
(* the request that asks.                                                    *)
LEMMA InvAsked ==
  ASSUME IInv, NEW c \in Clients, TypeOK', RequestOK(c)',
         failedAt' \in {failedAt, now},
         \A v \in Versions : cutAt'[v] \in {cutAt[v], now},
         UNCHANGED <<config, now, published, listed, osvCache, dates, dated>>,
         \A x \in Clients \ {c} :
           /\ pc'[x] = pc[x] /\ ver'[x] = ver[x] /\ started'[x] = started[x]
           /\ asked'[x] = asked[x] /\ answer'[x] = answer[x] /\ shown'[x] = shown[x]
           /\ lost'[x] = lost[x]
  PROVE  IInv'
<1>0. TypeOK /\ SharedOK /\ now \in Int
  BY RequestTime, InvParts
<1>c. ASSUME NEW v \in Versions, NEW t \in Int, Excused(v, t) PROVE Excused(v, t)'
  BY <1>0, <1>c, ExcusedKept
<1>2. SharedOK'
  <2>1. \A v \in Versions : Happened(cutAt'[v]) => cutAt'[v] <= now
    BY <1>0 DEF SharedOK, TimeOK, Happened
  <2>2. Happened(failedAt') => failedAt' <= now
    BY <1>0 DEF SharedOK, TimeOK, Happened
  <2>3. TimeOK'
    BY <1>0, <2>1, <2>2 DEF SharedOK, TimeOK, Happened
  <2>4. DatedOK' /\ NegativeOK'
    BY <1>0 DEF SharedOK, DatedOK, NegativeOK, Happened
  <2>5. MapOK'
    <3>1. dates # None => dates.at - FetchTime \in Int
      BY <1>0, TimeAssumption, RequestType
    <3> QED
      BY <1>0, <1>c, <3>1 DEF SharedOK, MapOK, Happened
  <2> QED
    BY <2>3, <2>4, <2>5 DEF SharedOK
<1>4. ASSUME NEW x \in Clients \ {c} PROVE RequestOK(x)'
  <2>1. /\ pc'[x] = pc[x] /\ asked'[x] = asked[x] /\ lost'[x] = lost[x]
        /\ shown'[x] = shown[x] /\ RequestOK(x)
    BY DEF IInv
  <2>2. asked[x] \in Int /\ started[x] - CacheTTL - FetchTime \in Int /\ shown[x] \subseteq Versions
    BY <1>0, RequestTime, RequestType
  <2>3. /\ pc[x] = "dates" =>
             \A v \in Versions \ shown[x] : Happened(published[v]) => Excused(v, asked[x])'
        /\ pc[x] = "offered" =>
             \A v \in shown[x] : TooYoung(started[x], v) =>
               Excused(v, started[x] - CacheTTL - FetchTime)'
    BY <1>c, <2>1, <2>2 DEF RequestOK
  <2> QED
    BY <2>1, <2>3, ZenonT(60) DEF RequestOK, MirrorOn, TooYoung, Happened
<1> QED
  BY <1>2, <1>4 DEF IInv, SharedOK

LEMMA InvDatesAsk ==
  ASSUME IInv, NEW c \in Clients, DatesAsk(c) PROVE IInv'
<1>0. TypeOK /\ SharedOK /\ RequestOK(c) /\ now \in Int /\ now \in Times
  BY RequestTime, InvParts DEF TypeOK
<1>a. /\ pc' = [pc EXCEPT ![c] = "dates"] /\ asked' = [asked EXCEPT ![c] = now]
      /\ shown' = [shown EXCEPT ![c] = Reached]
      /\ cutAt' = [v \in Versions |->
                    IF Happened(published[v]) /\ v \notin Reached THEN now ELSE cutAt[v]]
      /\ UNCHANGED <<config, now, published, page, listed, dump, mirror, refresh, osvCache,
                     dates, ver, started, answer, lost, dated, failedAt, failures>>
  BY DEF DatesAsk, Become, world, mirrorVars
<1>b. Reached \subseteq Versions
  BY DEF Reached
<1>c. \A v \in Versions :
        cutAt'[v] = IF Happened(published[v]) /\ v \notin Reached THEN now ELSE cutAt[v]
  BY <1>a
<1>d. cutAt' \in [Versions -> Times \cup {Never}]
  BY <1>0, <1>a DEF TypeOK
<1>1. TypeOK'
  BY <1>0, <1>a, <1>b, <1>d DEF TypeOK, Resting
<1>3. RequestOK(c)'
  <2>1. /\ pc'[c] = "dates" /\ asked'[c] = now /\ now' = now
        /\ started'[c] = started[c] /\ published' = published
        /\ shown'[c] = Reached
    BY <1>0, <1>a DEF TypeOK
  <2>2. started[c] <= now /\ now <= now /\ now <= now + FetchTime
    BY RequestTime
  <2>3. \A v \in Versions \ Reached : Happened(published[v]) => cutAt'[v] = now /\ Happened(now)
    BY <1>0, <1>c, ValueAssumption DEF Happened
  <2>4. \A v \in Versions \ shown'[c] : Happened(published'[v]) => Excused(v, asked[c])'
    BY <2>1, <2>2, <2>3 DEF Excused, Happened
  <2> QED
    BY <2>1, <2>2, <2>4 DEF RequestOK, Waiting, Deciding
<1>4. \A v \in Versions : cutAt'[v] \in {cutAt[v], now}
  BY <1>c
<1> QED
  BY <1>0, <1>1, <1>3, <1>4, <1>a, InvAsked DEF TypeOK

LEMMA InvDatesFail ==
  ASSUME IInv, NEW c \in Clients, DatesFail(c) PROVE IInv'
<1>0. TypeOK /\ SharedOK /\ RequestOK(c) /\ now \in Int /\ now \in Times
  BY RequestTime, InvParts DEF TypeOK
<1>a. /\ pc' = [pc EXCEPT ![c] = "dates"] /\ asked' = [asked EXCEPT ![c] = now]
      /\ lost' = [lost EXCEPT ![c] = @ \cup {"date"}]
      /\ failures < MaxFailures /\ failures' = failures + 1 /\ failedAt' = now
      /\ UNCHANGED <<config, now, published, page, listed, dump, mirror, refresh, osvCache,
                     dates, ver, started, answer, dated, cutAt>>
  BY DEF DatesFail, Fail, Become, world, mirrorVars
<1>b. PICK part \in SUBSET Reached : shown' = [shown EXCEPT ![c] = part]
  BY DEF DatesFail
<1>1. TypeOK'
  <2>1. failures' \in 0 .. MaxFailures
    BY <1>0, <1>a, TimeAssumption DEF TypeOK
  <2>2. /\ lost' \in [Clients -> SUBSET {"osv", "date"}]
        /\ shown' \in [Clients -> SUBSET Versions]
    BY <1>0, <1>a, <1>b DEF TypeOK, Reached
  <2> QED
    BY <1>0, <1>a, <2>1, <2>2 DEF TypeOK, Resting
<1>3. RequestOK(c)'
  <2>1. pc'[c] = "dates" /\ asked'[c] = now /\ now' = now /\ started'[c] = started[c]
    BY <1>0, <1>a DEF TypeOK
  <2>2. started[c] <= now /\ now <= now /\ now <= now + FetchTime
    BY RequestTime
  <2>3. \A v : Excused(v, asked[c])'
    BY <1>0, <1>a, <2>1, <2>2, ValueAssumption DEF Excused, Happened
  <2> QED
    BY <2>1, <2>2, <2>3 DEF RequestOK, Waiting, Deciding
<1> QED
  BY <1>0, <1>1, <1>3, <1>a, <1>b, InvAsked DEF TypeOK

LEMMA InvDatesPut ==
  ASSUME IInv, NEW c \in Clients, DatesPut(c) PROVE IInv'
<1>0. /\ TypeOK /\ SharedOK /\ RequestOK(c) /\ started[c] \in Times
      /\ shown[c] \in SUBSET Versions
  BY InvParts DEF TypeOK
<1>a. /\ pc[c] = "dates" /\ pc' = [pc EXCEPT ![c] = "offered"]
      /\ dates' = [known |-> shown[c], at |-> now]
      /\ Offer(c, started[c], shown[c])
      /\ UNCHANGED <<config, now, world, mirrorVars, osvCache, ver, started, asked,
                     answer, lost, failedAt, cutAt, failures>>
  BY DEF DatesPut, Become
<1>e. ASSUME NEW v \in Versions \ shown[c], Happened(published[v])
      PROVE  /\ Excused(v, started[c] - CacheTTL - FetchTime)
             /\ Excused(v, now - FetchTime)
  <2>1. Excused(v, asked[c])
    BY <1>0, <1>a, <1>e DEF RequestOK
  <2>2. /\ published[v] \in Int
        /\ Happened(failedAt) => failedAt \in Int
        /\ Happened(cutAt[v]) => cutAt[v] \in Int
    BY <1>0, <1>e, RequestType
  <2>3. /\ started[c] - CacheTTL - FetchTime <= asked[c]
        /\ now - FetchTime <= asked[c]
    BY <1>a, RequestTime DEF Waiting
  <2> QED
    BY <2>1, <2>2, <2>3, RequestTime DEF Excused
<1>b. /\ shown' \in [Clients -> SUBSET Versions]
      /\ dated' \in [Versions -> Times \cup {Never}]
      /\ DatedOK'
      /\ \A x \in Clients \ {c} : shown'[x] = shown[x]
      /\ \A v \in shown'[c] :
           /\ Happened(published[v])
           /\ TooYoung(started[c], v) => Excused(v, started[c] - CacheTTL - FetchTime)
  BY <1>0, <1>a, <1>e, OfferKept DEF world
<1>1. TypeOK'
  <2>1. dates' \in Dates
    BY <1>0, <1>a, RequestTime DEF Dates
  <2> QED
    BY <1>0, <1>a, <1>b, <2>1 DEF TypeOK, Resting, world, mirrorVars
<1>2. SharedOK'
  <2>1. dates'.at = now /\ dates'.known = shown[c] /\ now <= now
    BY <1>a, RequestTime
  <2>2. TimeOK' /\ NegativeOK'
    BY <1>0, <1>a, <2>1 DEF SharedOK, TimeOK, NegativeOK, Happened, world
  <2>3. MapOK'
    BY <1>a, <1>e, <2>1 DEF MapOK, Excused, Happened, world
  <2> QED
    BY <1>b, <2>2, <2>3 DEF SharedOK
<1>3. RequestOK(c)'
  <2>1. pc'[c] = "offered"
    BY <1>0, <1>a DEF TypeOK
  <2> QED
    BY <1>0, <1>a, <1>b, <2>1
    DEF RequestOK, Waiting, Deciding, TooYoung, Excused, Happened, world
<1> QED
  BY <1>0, <1>1, <1>2, <1>3, <1>a, <1>b, InvStep DEF world, TypeOK

-----------------------------------------------------------------------------
(* The theorems *)

LEMMA InvNext == IInv /\ [Next]_vars => IInv'
<1> SUFFICES ASSUME IInv, [Next]_vars PROVE IInv'
  OBVIOUS
<1>1. CASE UNCHANGED vars
  BY <1>1, ZenonT(60)
  DEF vars, world, mirrorVars, requests, history, IInv, TypeOK, TimeOK, DatedOK,
      NegativeOK, MapOK, RequestOK, MirrorOn, TooYoung, Excused, Happened, Times
<1>2. CASE World
  BY <1>2, InvTick, InvPublish, InvList, InvMirror DEF World
<1>3. CASE Refresh
  BY <1>3, InvMirror
<1>4. CASE \E c \in Clients : Request(c)
  <2>1. PICK c \in Clients : Request(c)
    BY <1>4
  <2> QED
    BY <2>1, InvDecide, InvMirrorLookup, InvLiveCached, InvLiveAsk, InvRemember,
       InvLiveFails, InvAgeCheck, InvAgeUnknown, InvIndexWithDates, InvIndexBare,
       InvDatesCached, InvDatesAsk, InvDatesFail, InvDatesPut
    DEF Request
<1> QED
  BY <1>1, <1>2, <1>3, <1>4 DEF Next

LEMMA Invariance == Spec => []IInv
BY InvInit, InvNext, PTL DEF Spec

(* Requests, caches and the clock keep their shapes.                         *)
THEOREM TypeCorrect == Spec => []TypeOK
<1>1. IInv => TypeOK
  BY DEF IInv
<1> QED
  BY <1>1, Invariance, PTL

LEMMA DatedTime ==
  ASSUME IInv, NEW v \in Versions
  PROVE  Happened(dated[v]) =>
           /\ dated[v] \in Int /\ published[v] \in Int
           /\ dated[v] - published[v] >= MinAge
<1>1. Times \subseteq Int
  BY TimeAssumption DEF Times
<1>2. /\ Happened(dated[v]) => dated[v] \in Int
      /\ Happened(published[v]) => published[v] \in Int
  BY <1>1 DEF IInv, TypeOK, Happened
<1> QED
  BY <1>2 DEF IInv, DatedOK

(* An index and the artifact behind it never disagree about a version that   *)
(* the index showed as old enough.                                           *)
THEOREM IndexAgrees == Spec => []ShownIsOldEnough
<1>1. IInv => ShownIsOldEnough
  <2> SUFFICES ASSUME IInv, NEW c \in Clients
               PROVE  pc[c] = "too young" /\ Happened(dated[ver[c]]) =>
                        started[c] < dated[ver[c]]
    BY DEF ShownIsOldEnough
  <2>1. ver[c] \in Versions /\ started[c] \in Int
    BY RequestTime, RequestType DEF IInv
  <2>2. pc[c] = "too young" => started[c] - published[ver[c]] < MinAge
    BY DEF IInv, RequestOK, TooYoung
  <2>3. Happened(dated[ver[c]]) =>
          /\ dated[ver[c]] \in Int /\ published[ver[c]] \in Int
          /\ dated[ver[c]] - published[ver[c]] >= MinAge
    BY <2>1, DatedTime
  <2>4. Happened(dated[ver[c]]) /\ started[c] - published[ver[c]] < MinAge =>
          started[c] < dated[ver[c]]
    BY <2>1, <2>3, TimeAssumption
  <2> QED
    BY <2>2, <2>4
<1> QED
  BY <1>1, Invariance, PTL

(* No version that is too young gets through but by a lookup that failed.    *)
THEOREM MinAgeHolds == Spec => []YoungIsDenied
<1>1. IInv => YoungIsDenied
  BY DEF IInv, YoungIsDenied, RequestOK, TooYoung
<1> QED
  BY <1>1, Invariance, PTL

(* A stale or empty map of dates exposes young versions for a bounded time.  *)
THEOREM StaleDatesBounded == Spec => []StaleIndexBounded
<1>1. IInv => StaleIndexBounded
  BY DEF IInv, StaleIndexBounded, RequestOK, TooYoung, Excused
<1> QED
  BY <1>1, Invariance, PTL

(* A cached negative answer exposes to a listed version for a bounded time.  *)
THEOREM NegativesBounded == Spec => []ExposureBounded
<1>1. IInv => ExposureBounded
  BY DEF IInv, ExposureBounded, RequestOK
<1> QED
  BY <1>1, Invariance, PTL

(* Every exposure is bounded by the life of what is cached.                  *)
THEOREM AllBounded == Spec => []ExposuresBounded
<1> QED
  BY StaleDatesBounded, NegativesBounded, PTL DEF ExposuresBounded

(* Index and artifact agree about what is too young, and about --min-age.    *)
THEOREM OneAge == Spec => []AgesAgree
<1> QED
  BY IndexAgrees, MinAgeHolds, PTL DEF AgesAgree

-----------------------------------------------------------------------------
(* The typosquat detector.                                                   *)

(* A tag tells which lists it came with, and what was flagged last was       *)
(* judged by the lists of now.                                               *)
SquatInv ==
  /\ served.tag \in {NoTag, served.body}
  /\ state.tag \in {NoTag, state.lists}
  /\ RefreshedIsCurrent
  /\ \/ flagged = Unasked
     \/ \E e \in WithLists \cup WithoutLists, name \in Asked :
          flagged = [eco |-> e, name |-> name, near |-> Suggest(e, name)]

(* SquatInv is inductive: one case for each action.                          *)
LEMMA SquatStep ==
  ASSUME SquatInv, [SquatNext]_squatVars
  PROVE  SquatInv'
<1>1. CASE UNCHANGED squatVars
  BY <1>1 DEF SquatInv, squatVars, RefreshedIsCurrent, Suggest
<1>2. CASE RefreshOnce
  <2>1. state' = state \/ state' = [lists |-> served.body, tag |-> served.tag]
    BY <1>2 DEF RefreshOnce, Parsed
  <2>2. served' = served /\ flagged' = Unasked
    BY <1>2 DEF RefreshOnce
  <2>3. state'.tag \in {NoTag, state'.lists}
    BY <2>1 DEF SquatInv
  <2>4. RefreshedIsCurrent'
    BY <1>2, <2>2 DEF RefreshOnce, Parsed, RefreshedIsCurrent, SquatInv
  <2> QED BY <2>2, <2>3, <2>4 DEF SquatInv
<1>3. ASSUME NEW e \in WithLists \cup WithoutLists, NEW name \in Asked, LookUp(e, name)
      PROVE  SquatInv'
  <2>1. Suggest(e, name)' = Suggest(e, name)
    BY <1>3 DEF LookUp, Suggest
  <2> QED BY <1>3, <2>1 DEF LookUp, SquatInv, RefreshedIsCurrent
<1>4. ASSUME NEW s, s.tag \in {NoTag, s.body}, Publish(s)
      PROVE  SquatInv'
  BY <1>4 DEF Publish, SquatInv, RefreshedIsCurrent
<1> QED BY <1>1, <1>2, <1>3, <1>4 DEF SquatNext

(* What is near a name is on the list, and a listed name is near nothing.    *)
LEMMA NearestAreListed ==
  ASSUME NEW list, NEW name
  PROVE  Nearest(list, name) \subseteq list /\ (name \in list => Nearest(list, name) = {})
BY DEF Nearest

(* The invariant gives the property.                                         *)
LEMMA SquatInvGives ==
  ASSUME SquatInv
  PROVE  SquatsAreFlagged
<1>1. CASE flagged = Unasked
  BY <1>1 DEF Unasked, SquatInv, SquatsAreFlagged, CloseIsFlagged, PopularIsClean
<1>2. CASE flagged # Unasked
  <2>1. PICK e, name : /\ e \in WithLists \cup WithoutLists
                       /\ flagged = [eco |-> e, name |-> name, near |-> Suggest(e, name)]
    BY <1>2 DEF SquatInv
  <2>2. flagged.eco = e /\ flagged.name = name /\ flagged.near = Suggest(e, name)
    BY <2>1
  <2>3. e \in WithoutLists => Suggest(e, name) = {}
    BY DEF Suggest
  <2>4. ASSUME e \in WithLists
        PROVE  LET m == state.lists[e]
               IN /\ Threshold > 0 /\ name # <<>> => Suggest(e, name) =
                       IF name \in m THEN {}
                       ELSE IF Nearest(m, name) # {} THEN Nearest(m, name) ELSE Nearest(Baseline[e], name)
                  /\ Threshold = 0 \/ name = <<>> => Suggest(e, name) = {}
    BY <2>4, TyposquatAssumption DEF Suggest
  <2>5. CloseIsFlagged
    BY <2>2, <2>4, NearestAreListed DEF CloseIsFlagged
  <2>6. PopularIsClean
    BY <2>2, <2>3, <2>4, NearestAreListed, TyposquatAssumption DEF PopularIsClean
  <2> QED BY <2>5, <2>6 DEF SquatInv, SquatsAreFlagged
<1> QED BY <1>1, <1>2

(* For any lists, names and threshold: a refresh without an error leaves the *)
(* mirror's lists of now, a name close to a listed one is flagged, and a     *)
(* popular name is flagged in no case for the mirror's lists (typosquat.rs). *)
THEOREM SquatsSafe == SquatSpec => []SquatsAreFlagged
<1>1. SquatInit => SquatInv
  BY DEF SquatInit, SquatInv, Down, RefreshedIsCurrent
<1>2. SquatInv /\ [SquatNext]_squatVars => SquatInv'
  BY SquatStep
<1>3. SquatInv => SquatsAreFlagged
  BY SquatInvGives
<1> QED BY <1>1, <1>2, <1>3, PTL DEF SquatSpec

-----------------------------------------------------------------------------
(* The network rules, the map of the connect hooks and the refresh: the      *)
(* inductive invariant.                                                      *)

AnswersYielded == \A r \in Rules : answers[r] \subseteq yielded[r]

(* A rule has yielded the endpoint of the key for the verdict of the key.    *)
Sound(k) ==
  \E r \in Rules :
    r.verdict = k.verdict /\ k.ep[1] \in yielded[r] /\ k.ep[2] \in r.ports

KeysSound == \A k \in queue \cup seen : Sound(k)

EgressInv == EgressTypeOK /\ AnswersYielded /\ KeysSound /\ SeenMirrorsMap

-----------------------------------------------------------------------------
(* Values *)

LEMMA EndpointValue ==
  /\ \A e \in Endpoints : e[1] \in Addrs /\ e[2] \in Ports /\ e = <<e[1], e[2]>>
  /\ \A a \in Addrs, p \in Ports : <<a, p>> \in Endpoints
BY DEF Endpoints

LEMMA RuleValue ==
  ASSUME NEW r \in Rules
  PROVE  r.verdict \in Verdicts /\ r.host \in Hosts /\ r.ports \subseteq Ports
BY RuleAssumption DEF Rule

LEMMA KeyValue ==
  /\ \A k \in Keys : k.ep \in Endpoints /\ k.verdict \in Verdicts
  /\ \A e \in Endpoints, v \in Verdicts : [ep |-> e, verdict |-> v] \in Keys
BY DEF Keys

LEMMA QueuedValue ==
  ASSUME EgressTypeOK, NEW r \in Rules
  PROVE  /\ Queued(r) \in SUBSET Keys
         /\ \A k \in Queued(r) :
              k.verdict = r.verdict /\ k.ep[1] \in dns[r.host] /\ k.ep[2] \in r.ports
<1>1. dns[r.host] \subseteq Addrs
  BY RuleValue DEF EgressTypeOK
<1>2. dns[r.host] \X r.ports \subseteq Endpoints
  BY <1>1, RuleValue DEF Endpoints
<1>3. Queued(r) \subseteq Keys
  BY <1>2, RuleValue DEF Queued, KeysOf, Keys
<1>4. \A k \in Queued(r) : k.verdict = r.verdict /\ k.ep \in dns[r.host] \X r.ports
  BY DEF Queued, KeysOf
<1> QED
  BY <1>3, <1>4

LEMMA WrittenValue ==
  /\ Written \in [Endpoints -> Verdicts \cup {"none"}]
  /\ \A e \in Endpoints, v \in Verdicts : Written[e] = v => YieldedBy(v, e)
BY DEF Written, Verdicts

LEMMA FaultType ==
  ASSUME faults \in 0 .. MaxFaults, Fault
  PROVE  faults' \in 0 .. MaxFaults
BY BoundAssumption DEF Fault

(* What Expand does to the answers.                                          *)
LEMMA ExpandValue ==
  ASSUME EgressTypeOK, NEW r \in Rules, Expand(r)
  PROVE  /\ answers' \in [Rules -> SUBSET Addrs] /\ yielded' \in [Rules -> SUBSET Addrs]
         /\ \A s \in Rules : yielded[s] \subseteq yielded'[s]
         /\ dns[r.host] \subseteq yielded'[r]
         /\ AnswersYielded => AnswersYielded'
<1>1. dns[r.host] \subseteq Addrs
  BY RuleValue DEF EgressTypeOK
<1>2. answers \in [Rules -> SUBSET Addrs] /\ yielded \in [Rules -> SUBSET Addrs]
  BY DEF EgressTypeOK
<1>3. answers' \in [Rules -> SUBSET Addrs] /\ yielded' \in [Rules -> SUBSET Addrs]
  BY <1>1, <1>2 DEF Expand
<1>4. \A s \in Rules :
        /\ answers'[s] = IF s = r THEN dns[r.host] ELSE answers[s]
        /\ yielded'[s] = IF s = r THEN yielded[r] \cup dns[r.host] ELSE yielded[s]
  BY <1>2 DEF Expand
<1> QED
  BY <1>3, <1>4 DEF AnswersYielded

-----------------------------------------------------------------------------
(* Type correctness *)

LEMMA TypeInit == EgressInit => EgressTypeOK
<1> SUFFICES ASSUME EgressInit PROVE EgressTypeOK
  OBVIOUS
<1>1. dns \in [Hosts -> SUBSET Addrs]
  BY DEF EgressInit
<1>2. entries \in [Endpoints -> Verdicts \cup {"none"}]
  BY DEF EgressInit, NoEntries
<1>3. answers \in [Rules -> SUBSET Addrs] /\ yielded \in [Rules -> SUBSET Addrs]
  BY DEF EgressInit
<1>4. rotations \in 0 .. MaxRotations /\ faults \in 0 .. MaxFaults
  BY BoundAssumption DEF EgressInit
<1> QED
  BY <1>1, <1>2, <1>3, <1>4 DEF EgressInit, EgressTypeOK

LEMMA TypeNext == EgressTypeOK /\ [EgressNext]_egressVars => EgressTypeOK'
<1> SUFFICES ASSUME EgressTypeOK, [EgressNext]_egressVars PROVE EgressTypeOK'
  OBVIOUS
<1> USE DEF loopVars, stopVars
<1>1. ASSUME NEW h \in Hosts, Rotate(h) PROVE EgressTypeOK'
  <2>1. rotations' \in 0 .. MaxRotations
    BY <1>1, BoundAssumption DEF EgressTypeOK, Rotate
  <2>2. dns' \in [Hosts -> SUBSET Addrs]
    BY <1>1 DEF EgressTypeOK, Rotate
  <2> QED
    BY <1>1, <2>1, <2>2 DEF EgressTypeOK, Rotate
<1>2. ASSUME NEW r \in Rules, ResolveFirst(r) PROVE EgressTypeOK'
  <2>1. answers' \in [Rules -> SUBSET Addrs] /\ yielded' \in [Rules -> SUBSET Addrs]
    BY <1>2, ExpandValue DEF ResolveFirst
  <2> QED
    BY <1>2, <2>1 DEF EgressTypeOK, ResolveFirst
<1>3. ASSUME NEW r \in Rules, ResolveFirstFails(r) PROVE EgressTypeOK'
  BY <1>3, FaultType DEF EgressTypeOK, ResolveFirstFails
<1>4. CASE AttachFails
  BY <1>4, FaultType DEF EgressTypeOK, AttachFails
<1>5. CASE Populate
  <2>1. entries' \in [Endpoints -> Verdicts \cup {"none"}]
    BY <1>5, WrittenValue DEF Populate
  <2>2. seen' \in SUBSET Keys
    BY <1>5 DEF Populate, Primed
  <2> QED
    BY <1>5, <2>1, <2>2 DEF EgressTypeOK, Populate, Running, BetweenPasses
<1>6. CASE LoopTop \/ CheckFlag \/ Register \/ Woken \/ BeginPass \/ EndPass
  BY <1>6 DEF EgressTypeOK, LoopTop, CheckFlag, Register, Woken, BeginPass, EndPass, Running,
              BetweenPasses
<1>7. ASSUME NEW r \in Rules, RefreshResolve(r) PROVE EgressTypeOK'
  <2>1. answers' \in [Rules -> SUBSET Addrs] /\ yielded' \in [Rules -> SUBSET Addrs]
    BY <1>7, ExpandValue DEF RefreshResolve
  <2>2. queue' \in SUBSET Keys
    BY <1>7, QueuedValue DEF RefreshResolve
  <2> QED
    BY <1>7, <2>1, <2>2 DEF EgressTypeOK, RefreshResolve
<1>8. ASSUME NEW r \in Rules, RefreshResolveFails(r) PROVE EgressTypeOK'
  BY <1>8, FaultType DEF EgressTypeOK, RefreshResolveFails
<1>9. ASSUME NEW k \in Keys, Skip(k) PROVE EgressTypeOK'
  BY <1>9 DEF EgressTypeOK, Skip
<1>10. ASSUME NEW k \in Keys, Insert(k) PROVE EgressTypeOK'
  <2>1. entries' \in [Endpoints -> Verdicts \cup {"none"}]
    BY <1>10, KeyValue DEF EgressTypeOK, Insert
  <2> QED
    BY <1>10, <2>1 DEF EgressTypeOK, Insert
<1>11. ASSUME NEW k \in Keys, InsertFails(k) PROVE EgressTypeOK'
  BY <1>11, FaultType DEF EgressTypeOK, InsertFails
<1>12. CASE StopFlag
  BY <1>12 DEF EgressTypeOK, StopFlag
<1>13. CASE StopNotify
  <2>1. woken' \in BOOLEAN
    BY <1>13 DEF StopNotify
  <2> QED
    BY <1>13, <2>1 DEF EgressTypeOK, StopNotify
<1>14. CASE UNCHANGED egressVars
  BY <1>14 DEF EgressTypeOK, egressVars
<1> QED
  BY <1>1, <1>2, <1>3, <1>4, <1>5, <1>6, <1>7, <1>8, <1>9, <1>10, <1>11, <1>12, <1>13,
     <1>14 DEF EgressNext, Startup, Loop, RefreshPass

(* Rules, map, pass and StopHandle keep their shapes (resolve_refresh.rs).   *)
THEOREM EgressTypeCorrect == EgressSpec => []EgressTypeOK
<1> QED
  BY TypeInit, TypeNext, PTL DEF EgressSpec

-----------------------------------------------------------------------------
(* The steps of the other parts of the invariant *)

(* A step that yields more and brings no new key leaves the keys sound.      *)
LEMMA SoundKept ==
  ASSUME KeysSound, \A r \in Rules : yielded[r] \subseteq yielded'[r],
         queue' \cup seen' \subseteq queue \cup seen
  PROVE  KeysSound'
BY DEF KeysSound, Sound

LEMMA EgressInvInit == EgressInit => EgressInv
<1> SUFFICES ASSUME EgressInit PROVE EgressInv
  OBVIOUS
<1>1. AnswersYielded /\ KeysSound
  BY DEF EgressInit, AnswersYielded, KeysSound
<1>2. SeenMirrorsMap
  BY DEF EgressInit, SeenMirrorsMap, NoEntries
<1> QED
  BY <1>1, <1>2, TypeInit DEF EgressInv

(* The map is written for the first time.                                    *)
LEMMA InvPopulate ==
  ASSUME EgressInv, Populate
  PROVE  AnswersYielded' /\ KeysSound' /\ SeenMirrorsMap'
<1>1. AnswersYielded' /\ yielded' = yielded /\ queue' = queue
  BY DEF EgressInv, AnswersYielded, Populate, loopVars
<1>2. entries' = Written /\ seen' = {k \in Keys : Written[k.ep] = k.verdict}
  BY DEF Populate, Primed
<1>3. ASSUME NEW k \in seen' PROVE Sound(k)
  <2>1. k \in Keys /\ YieldedBy(k.verdict, k.ep)
    BY <1>2, <1>3, WrittenValue, KeyValue
  <2>2. PICK r \in Rules : r.verdict = k.verdict /\ k.ep \in answers[r] \X r.ports
    BY <2>1 DEF YieldedBy
  <2>3. k.ep[1] \in answers[r] /\ k.ep[2] \in r.ports
    BY <2>2
  <2> QED
    BY <2>2, <2>3 DEF EgressInv, AnswersYielded, Sound
<1>4. KeysSound'
  BY <1>1, <1>3 DEF EgressInv, KeysSound, Sound
<1>5. \A k \in seen' : entries'[k.ep] # "none"
  BY <1>2, KeyValue DEF Verdicts
<1>6. ASSUME NEW e \in Endpoints, entries'[e] # "none"
      PROVE  [ep |-> e, verdict |-> entries'[e]] \in seen'
  <2>1. Written[e] \in Verdicts
    BY <1>2, <1>6, WrittenValue
  <2>2. [ep |-> e, verdict |-> Written[e]] \in Keys
    BY <2>1, KeyValue
  <2> QED
    BY <1>2, <2>2
<1> QED
  BY <1>1, <1>4, <1>5, <1>6 DEF SeenMirrorsMap

LEMMA InvResolve ==
  ASSUME EgressInv, NEW r \in Rules, RefreshResolve(r)
  PROVE  AnswersYielded' /\ KeysSound' /\ SeenMirrorsMap'
<1>1. /\ \A s \in Rules : yielded[s] \subseteq yielded'[s]
      /\ dns[r.host] \subseteq yielded'[r]
      /\ AnswersYielded'
  BY ExpandValue DEF EgressInv, RefreshResolve
<1>2. \A k \in Queued(r) : Sound(k)'
  BY <1>1, QueuedValue DEF EgressInv, Sound
<1>3. \A k \in seen : Sound(k)'
  BY <1>1 DEF EgressInv, KeysSound, Sound
<1>4. KeysSound'
  BY <1>2, <1>3 DEF RefreshResolve, KeysSound
<1>5. SeenMirrorsMap'
  BY DEF EgressInv, RefreshResolve, SeenMirrorsMap
<1> QED
  BY <1>1, <1>4, <1>5

LEMMA InvInsert ==
  ASSUME EgressInv, NEW k \in Keys, Insert(k)
  PROVE  AnswersYielded' /\ KeysSound' /\ SeenMirrorsMap'
<1>1. AnswersYielded' /\ yielded' = yielded
  BY DEF EgressInv, Insert, AnswersYielded
<1>2. k \in queue /\ queue' = queue \ {k} /\ seen' = seen \cup {k}
  BY DEF Insert
<1>3. KeysSound'
  BY <1>1, <1>2, SoundKept DEF EgressInv
<1>4. k.ep \in Endpoints /\ k.verdict \in Verdicts /\ k.verdict # "none"
  BY KeyValue DEF Verdicts
<1>5. \A e \in Endpoints : entries'[e] = IF e = k.ep THEN k.verdict ELSE entries[e]
  BY DEF EgressInv, EgressTypeOK, Insert
<1>6. k = [ep |-> k.ep, verdict |-> k.verdict]
  BY DEF Keys
<1>7. \A j \in seen : j.ep \in Endpoints
  BY KeyValue DEF EgressInv, EgressTypeOK
<1>8. SeenMirrorsMap'
  BY <1>2, <1>4, <1>5, <1>6, <1>7 DEF EgressInv, SeenMirrorsMap
<1> QED
  BY <1>1, <1>3, <1>8

LEMMA EgressInvNext == EgressInv /\ [EgressNext]_egressVars => EgressInv'
<1> SUFFICES ASSUME EgressInv, [EgressNext]_egressVars PROVE EgressInv'
  OBVIOUS
<1> DEFINE Rest == AnswersYielded' /\ KeysSound' /\ SeenMirrorsMap'
<1> DEFINE Calm == /\ entries' = entries /\ seen' = seen /\ answers' = answers
                   /\ yielded' = yielded /\ queue' \subseteq queue
<1>1. EgressTypeOK'
  BY TypeNext DEF EgressInv
<1>2. Calm => Rest
  <2> SUFFICES ASSUME Calm PROVE Rest
    OBVIOUS
  <2>1. AnswersYielded' /\ SeenMirrorsMap'
    BY DEF EgressInv, AnswersYielded, SeenMirrorsMap
  <2>2. KeysSound'
    BY SoundKept DEF EgressInv
  <2> QED
    BY <2>1, <2>2
<1>3. ASSUME NEW h \in Hosts, Rotate(h) PROVE Calm
  BY <1>3 DEF Rotate, loopVars
<1>4. ASSUME NEW r \in Rules, ResolveFirst(r) PROVE Rest
  <2>1. /\ \A s \in Rules : yielded[s] \subseteq yielded'[s]
        /\ AnswersYielded'
    BY <1>4, ExpandValue DEF EgressInv, ResolveFirst
  <2>2. KeysSound'
    BY <1>4, <2>1, SoundKept DEF EgressInv, ResolveFirst
  <2>3. SeenMirrorsMap'
    BY <1>4 DEF EgressInv, ResolveFirst, SeenMirrorsMap
  <2> QED
    BY <2>1, <2>2, <2>3
<1>5. ASSUME NEW r \in Rules, ResolveFirstFails(r) \/ RefreshResolveFails(r) PROVE Calm
  BY <1>5 DEF ResolveFirstFails, RefreshResolveFails
<1>6. ASSUME AttachFails PROVE Calm
  BY <1>6 DEF AttachFails, loopVars
<1>7. ASSUME Populate PROVE Rest
  BY <1>7, InvPopulate
<1>8. ASSUME LoopTop \/ CheckFlag \/ Register \/ Woken \/ BeginPass \/ EndPass
      PROVE  Calm
  BY <1>8 DEF LoopTop, CheckFlag, Register, Woken, BeginPass, EndPass, loopVars
<1>9. ASSUME NEW r \in Rules, RefreshResolve(r) PROVE Rest
  BY <1>9, InvResolve
<1>10. ASSUME NEW k \in Keys, Skip(k) \/ InsertFails(k) PROVE Calm
  BY <1>10 DEF Skip, InsertFails
<1>11. ASSUME NEW k \in Keys, Insert(k) PROVE Rest
  BY <1>11, InvInsert
<1>12. ASSUME StopFlag \/ StopNotify \/ UNCHANGED egressVars PROVE Calm
  BY <1>12 DEF StopFlag, StopNotify, egressVars, loopVars
<1> HIDE DEF Rest, Calm
<1>13. Rest
  BY <1>2, <1>3, <1>4, <1>5, <1>6, <1>7, <1>8, <1>9, <1>10, <1>11, <1>12
     DEF EgressNext, Startup, Loop, RefreshPass
<1> QED
  BY <1>1, <1>13 DEF EgressInv, Rest

LEMMA InvHolds == EgressSpec => []EgressInv
<1> QED
  BY EgressInvInit, EgressInvNext, PTL DEF EgressSpec

-----------------------------------------------------------------------------
(* The safety theorems *)

(* What is in the map comes from a rule of its verdict.                      *)
LEMMA EntrySound ==
  ASSUME EgressInv, NEW a \in Addrs, NEW p \in Ports, entries[<<a, p>>] # "none"
  PROVE  \E r \in Rules :
           r.verdict = entries[<<a, p>>] /\ p \in r.ports /\ a \in yielded[r]
<1> DEFINE k == [ep |-> <<a, p>>, verdict |-> entries[<<a, p>>]]
<1>1. k \in seen
  BY EndpointValue DEF EgressInv, SeenMirrorsMap
<1>2. Sound(k)
  BY <1>1 DEF EgressInv, KeysSound
<1> QED
  BY <1>2 DEF Sound

(* What the refresh takes for written is in the map, and what is in the map  *)
(* it knows, whatever fails (resolve_refresh.rs, refresh_once).              *)
THEOREM SeenAgrees == EgressSpec => []SeenMirrorsMap
<1>1. EgressInv => SeenMirrorsMap
  BY DEF EgressInv
<1> QED
  BY <1>1, InvHolds, PTL

(* The connect hooks depart from the default for addresses of a rule only    *)
(* (main.rs, lookup_net4).                                                   *)
THEOREM VerdictsHaveRules == EgressSpec => []VerdictJustified
<1>1. EgressInv => VerdictJustified
  <2> SUFFICES ASSUME EgressInv, NEW a \in Addrs, NEW p \in Ports, Lookup(a, p) # network.default
               PROVE  \E r \in Rules :
                        /\ r.verdict = Lookup(a, p)
                        /\ r.ports \cap {p, AnyPort} # {} /\ a \in yielded[r]
    BY DEF VerdictJustified
  <2>1. CASE entries[<<a, p>>] # "none"
    BY <2>1, EntrySound DEF Lookup
  <2>2. CASE entries[<<a, p>>] = "none" /\ entries[<<a, AnyPort>>] # "none"
    BY <2>2, EntrySound, RuleAssumption DEF Lookup
  <2> QED
    BY <2>1, <2>2 DEF Lookup
<1> QED
  BY <1>1, InvHolds, PTL

(* A denied address stays denied through every rotation of the DNS as long   *)
(* as no rule that allows yields it (resolve_refresh.rs, "Additive only").   *)
THEOREM DenialsStick == EgressSpec => []DenySticks
<1>1. EgressInv => DenySticks
  <2> SUFFICES ASSUME EgressInv, NEW k \in seen, k.verdict = "deny", AllowsNowhere(k.ep[1]),
                      NEW p \in Ports, k.ep[2] \in {p, AnyPort}
               PROVE  Lookup(k.ep[1], p) = "deny"
    BY DEF DenySticks
  <2> DEFINE a == k.ep[1]
  <2>1. k.ep \in Endpoints
    BY KeyValue DEF EgressInv, EgressTypeOK
  <2>2. a \in Addrs /\ k.ep = <<a, k.ep[2]>>
    BY <2>1, EndpointValue
  <2>3. entries[<<a, k.ep[2]>>] # "none"
    BY <2>2 DEF EgressInv, SeenMirrorsMap
  <2>4. \A q \in Ports : entries[<<a, q>>] # "none" => entries[<<a, q>>] = "deny"
    BY <2>2, EntrySound, RuleValue DEF AllowsNowhere, Verdicts
  <2> QED
    BY <2>2, <2>3, <2>4, RuleAssumption DEF Lookup
<1> QED
  BY <1>1, InvHolds, PTL

(* What the connect hooks answer is what the rules, of both kinds, ask for.  *)
THEOREM RulesDecide == EgressSpec => []RulesHold
<1> QED
  BY VerdictsHaveRules, DenialsStick, PTL DEF RulesHold

(* So the map, the refresh and the rules agree.                              *)
THEOREM MapIsRight == EgressSpec => []MapHolds
<1> QED
  BY SeenAgrees, RulesDecide, PTL DEF MapHolds
=============================================================================

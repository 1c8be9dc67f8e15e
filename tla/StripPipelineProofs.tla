------------------------- MODULE StripPipelineProofs ------------------------
(* Proofs about what the proxy makes of answers: StripPipeline for any       *)
(* number of clients, packages, uploads and restarts of one configuration,   *)
(* and IndexDocuments for any documents, dates and times.                    *)
EXTENDS StripPipeline, IndexDocuments, FiniteSetTheorems, WellFoundedInduction, TLAPS

-----------------------------------------------------------------------------
(* Values *)

LEMMA BodyType ==
  /\ \A p \in Packages, r \in Revs : Body(p, r, Registry) \in Bodies
  /\ \A p \in Packages, r \in Revs, b \in Builds : Body(p, r, b) \in StrippedBodies
  /\ StrippedBodies \subseteq Bodies
BY DEF Body, Bodies, StrippedBodies

LEMMA UpstreamType == TypeOK => \A p \in Packages : Upstream(p) \in Bodies
BY BodyType DEF TypeOK, Upstream

LEMMA BuildType == TypeOK => conf.build \in Builds
BY DEF TypeOK, Builds

LEMMA CacheType ==
  ASSUME TypeOK, NEW b \in Bodies
  PROVE  CacheGet(b) \in Entries /\ Applied(b) \in Bodies
<1>1. b.pkg \in Packages /\ b.rev \in Revs
  BY DEF Bodies
<1>2. CacheGet(b) \in Entries
  BY <1>1 DEF CacheGet, TypeOK, Entries
<1> QED
  BY <1>2, BodyType DEF Applied

LEMMA StripType ==
  ASSUME TypeOK, NEW b \in Bodies, Strip(b) # Failed
  PROVE  Strip(b) \in Entries
<1>1. b.pkg \in Packages /\ b.rev \in Revs
  BY DEF Bodies
<1> QED
  BY <1>1, BodyType, BuildType DEF Strip, Entries

LEMMA InsertType ==
  ASSUME TypeOK, NEW k \in Bodies, NEW e \in Entries, Insert(k, e)
  PROVE  /\ mem' \in [Packages -> [Revs -> Entries]]
         /\ disk' \in [Packages -> [Revs -> Entries]]
         /\ \A p \in Packages, r \in Revs :
              /\ mem'[p][r] = mem[p][r] \/ (p = k.pkg /\ r = k.rev /\ mem'[p][r] = e)
              /\ disk'[p][r] = disk[p][r] \/ (p = k.pkg /\ r = k.rev /\ disk'[p][r] = e)
<1>1. k.pkg \in Packages /\ k.rev \in Revs
  BY DEF Bodies
<1>2. mem \in [Packages -> [Revs -> Entries]] /\ disk \in [Packages -> [Revs -> Entries]]
  BY DEF TypeOK
<1>4. mem' = [mem EXCEPT ![k.pkg][k.rev] = e]
  BY DEF Insert
<1>5. disk' = disk \/ disk' = [disk EXCEPT ![k.pkg][k.rev] = e]
  BY DEF Insert
<1>6. /\ mem' \in [Packages -> [Revs -> Entries]]
      /\ \A p \in Packages, r \in Revs :
           mem'[p][r] = mem[p][r] \/ (p = k.pkg /\ r = k.rev /\ mem'[p][r] = e)
  <2>1. mem' \in [Packages -> [Revs -> Entries]]
    BY <1>1, <1>2, <1>4
  <2> QED
    BY <1>1, <1>2, <1>4, <2>1
<1>7. /\ disk' \in [Packages -> [Revs -> Entries]]
      /\ \A p \in Packages, r \in Revs :
           disk'[p][r] = disk[p][r] \/ (p = k.pkg /\ r = k.rev /\ disk'[p][r] = e)
  <2>1. CASE disk' = disk
    BY <1>2, <2>1
  <2>2. CASE disk' = [disk EXCEPT ![k.pkg][k.rev] = e]
    <3>1. disk' \in [Packages -> [Revs -> Entries]]
      BY <1>1, <1>2, <2>2
    <3> QED
      BY <1>1, <1>2, <2>2, <3>1
  <2> QED
    BY <1>5, <2>1, <2>2
<1> QED
  BY <1>6, <1>7

-----------------------------------------------------------------------------
(* The inductive invariant *)

NoHollow == \A p \in Packages : Trait[p] # "hollow"

(* Who makes the bytes the tarball handler serves for p: it depends on the   *)
(* configuration and on the package, not on the cache.                       *)
Maker(p) ==
  IF conf.policy = "strip" /\ ~Allowed(p) /\ Trait[p] = "scripted"
    THEN conf.build ELSE Registry

(* A cached tarball comes from the bytes of its key; and, when the rewriter  *)
(* and the inspector agree on every package, it is what would be served.     *)
OwnEntry(p, r, x) ==
  x \in StrippedBodies =>
    /\ x.pkg = p /\ x.rev = r
    /\ NoHollow => x.by = Maker(p)

CacheOK ==
  \A p \in Packages, r \in Revs :
    OwnEntry(p, r, mem[p][r]) /\ OwnEntry(p, r, disk[p][r])

Insertable(b, e) ==
  b \in Bodies /\ b.by = Registry /\ e \in Entries /\ OwnEntry(b.pkg, b.rev, e)

LateOK == \A x \in late : Insertable(x[1], x[2])

Told(p, b) == b.pkg = p /\ (NoHollow => b.by \in {Registry, Maker(p)})

PreStrip == {"lookup", "fetching", "inserting"}
Advised == PreStrip \cup {"apply", "told", "served"}

ClientOK(c) ==
  /\ pc[c] \in PreStrip => conf.policy = "strip" /\ ~Allowed(pkg[c])
  /\ pc[c] = "inserting" => Insertable(adv[c], Strip(got[c]))
  /\ pc[c] \in Advised => adv[c] \in Bodies /\ Told(pkg[c], adv[c])
  /\ pc[c] = "served" =>
       got[c] \in Bodies /\ got[c].pkg = pkg[c] /\ got[c].by = Maker(pkg[c])
  /\ pc[c] \in InProxy => ~pinned[c]
  /\ pc[c] \in {"told", "served"} /\ pinned[c] => adv[c].by = Maker(pkg[c])
  /\ \A p \in Packages :
       /\ held[c][p] # None => Told(p, held[c][p])
       /\ lock[c][p] # None => Told(p, lock[c][p]) /\ lock[c][p].by = Maker(p)

IInv == TypeOK /\ CacheOK /\ LateOK /\ \A c \in Clients : ClientOK(c)

(* The configuration is fixed, so what the predicates say of a value lasts.  *)
LEMMA ConfKept ==
  ASSUME conf' = conf
  PROVE  /\ \A p, r, x : OwnEntry(p, r, x)' <=> OwnEntry(p, r, x)
         /\ \A p, b : Told(p, b)' <=> Told(p, b)
         /\ \A b, e : Insertable(b, e)' <=> Insertable(b, e)
         /\ \A p : Maker(p)' = Maker(p) /\ (Allowed(p)' <=> Allowed(p))
         /\ \A b : Strip(b)' = Strip(b)
BY DEF OwnEntry, Told, Insertable, Maker, Allowed, Strip

LEMMA CacheKept ==
  ASSUME conf' = conf, mem' = mem, disk' = disk, CacheOK
  PROVE  CacheOK'
BY ConfKept DEF CacheOK

LEMMA LateKept ==
  ASSUME conf' = conf, late' \subseteq late, LateOK
  PROVE  LateOK'
BY ConfKept DEF LateOK

(* A client no step touches stays as it should be.                           *)
LEMMA ClientKept ==
  ASSUME conf' = conf, NEW c, ClientOK(c),
         pc'[c] = pc[c], pkg'[c] = pkg[c], adv'[c] = adv[c], got'[c] = got[c],
         pinned'[c] = pinned[c], held'[c] = held[c], lock'[c] = lock[c]
  PROVE  ClientOK(c)'
BY ConfKept DEF ClientOK

LEMMA AppliedOwn ==
  ASSUME TypeOK, CacheOK, NEW b \in Bodies
  PROVE  /\ Applied(b).pkg = b.pkg /\ Applied(b).rev = b.rev
         /\ Told(b.pkg, b) => Told(b.pkg, Applied(b))
<1>1. b.pkg \in Packages /\ b.rev \in Revs
  BY DEF Bodies
<1> QED
  BY <1>1, ValueAssumption, BodyType
  DEF Applied, CacheGet, CacheOK, OwnEntry, Told

(* What the rewriter makes of a gated package is what the gate serves.       *)
LEMMA StripOwn ==
  ASSUME TypeOK, NEW b \in Bodies, conf.policy = "strip", ~Allowed(b.pkg)
  PROVE  OwnEntry(b.pkg, b.rev, Strip(b))
<1>0. b.pkg \in Packages
  BY DEF Bodies
<1>1. CASE Trait[b.pkg] \in {"scripted", "hollow"}
  BY <1>0, <1>1 DEF Strip, OwnEntry, Body, Maker, NoHollow
<1>2. CASE Trait[b.pkg] \notin {"scripted", "hollow"}
  <2>1. Strip(b) \in {NoStripNeeded, Failed}
    BY <1>2 DEF Strip
  <2> QED
    BY <2>1, ValueAssumption, BodyType DEF OwnEntry
<1> QED
  BY <1>1, <1>2

LEMMA InsertKept ==
  ASSUME TypeOK, CacheOK, conf' = conf, NEW k, NEW e, Insertable(k, e), Insert(k, e)
  PROVE  CacheOK'
<1>1. k \in Bodies /\ e \in Entries /\ OwnEntry(k.pkg, k.rev, e)
  BY DEF Insertable
<1>2. \A p \in Packages, r \in Revs :
        /\ mem'[p][r] = mem[p][r] \/ (p = k.pkg /\ r = k.rev /\ mem'[p][r] = e)
        /\ disk'[p][r] = disk[p][r] \/ (p = k.pkg /\ r = k.rev /\ disk'[p][r] = e)
  BY <1>1, InsertType
<1> QED
  BY <1>1, <1>2, ConfKept DEF CacheOK

-----------------------------------------------------------------------------
(* The initial states and the steps *)

LEMMA InvInit == Init => IInv
<1> SUFFICES ASSUME Init PROVE IInv
  OBVIOUS
<1>1. TypeOK
  BY BoundAssumption DEF Init, TypeOK, Entries, Stages
<1>2. CacheOK
  BY ValueAssumption, BodyType DEF Init, CacheOK, OwnEntry
<1> QED
  BY <1>1, <1>2 DEF Init, IInv, LateOK, ClientOK, PreStrip, Advised, InProxy

LEMMA InvRequest ==
  ASSUME IInv, NEW c \in Clients, NEW p \in Packages, RequestPackument(c, p)
  PROVE  IInv'
<1>0. missed' \in [Clients -> 0 .. MaxMissed]
  <2>1. 0 \in 0 .. MaxMissed /\ missed \in [Clients -> 0 .. MaxMissed]
    BY BoundAssumption DEF IInv, TypeOK
  <2> QED
    BY <2>1 DEF RequestPackument
<1>1. TypeOK'
  BY <1>0 DEF RequestPackument, IInv, TypeOK, Stages, cacheVars, worldVars
<1>2. CacheOK' /\ LateOK'
  BY CacheKept, LateKept DEF RequestPackument, IInv, cacheVars, worldVars
<1>3. ClientOK(c)'
  BY ConfKept
  DEF RequestPackument, IInv, TypeOK, ClientOK, worldVars, PreStrip, Advised, InProxy
<1>4. \A x \in Clients \ {c} : ClientOK(x)'
  BY ClientKept DEF RequestPackument, IInv, TypeOK, worldVars
<1> QED
  BY <1>1, <1>2, <1>3, <1>4 DEF IInv

LEMMA InvNotModified ==
  ASSUME IInv, NEW c \in Clients, PackumentNotModified(c)
  PROVE  IInv'
<1>0. /\ TypeOK /\ CacheOK /\ LateOK /\ ClientOK(c)
      /\ pkg[c] \in Packages
  BY DEF IInv, TypeOK
<1>a. /\ held[c][pkg[c]] # None /\ held[c][pkg[c]] \in Bodies
      /\ Told(pkg[c], held[c][pkg[c]])
  BY <1>0 DEF PackumentNotModified, NotModified, TypeOK, ClientOK
<1>1. TypeOK'
  BY <1>0, <1>a DEF PackumentNotModified, TypeOK, Stages, cacheVars, worldVars
<1>2. CacheOK' /\ LateOK'
  BY CacheKept, LateKept DEF PackumentNotModified, IInv, cacheVars, worldVars
<1>3. ClientOK(c)'
  BY <1>0, <1>a, ConfKept
  DEF PackumentNotModified, TypeOK, ClientOK, worldVars, cacheVars, PreStrip, Advised, InProxy
<1>4. \A x \in Clients \ {c} : ClientOK(x)'
  BY <1>0, ClientKept DEF PackumentNotModified, IInv, TypeOK, worldVars
<1> QED
  BY <1>1, <1>2, <1>3, <1>4 DEF IInv

LEMMA InvRewritten ==
  ASSUME IInv, NEW c \in Clients, PackumentRewritten(c)
  PROVE  IInv'
<1>0. /\ TypeOK /\ CacheOK /\ LateOK /\ ClientOK(c)
      /\ pkg[c] \in Packages
  BY DEF IInv, TypeOK
<1>a. LET a == Applied(Upstream(pkg[c])) IN a \in Bodies /\ Told(pkg[c], a)
  BY <1>0, UpstreamType, CacheType, AppliedOwn DEF Upstream, Body, Told
<1>b. /\ \/ held' = held
         \/ held' = [held EXCEPT ![c][pkg[c]] = Applied(Upstream(pkg[c]))]
      /\ \/ pc' = [pc EXCEPT ![c] = "lookup"]
         \/ pc' = [pc EXCEPT ![c] = "told"]
  BY DEF PackumentRewritten
<1>c. held' \in [Clients -> [Packages -> Bodies \cup {None}]]
  <2>1. CASE held' = held
    BY <1>0, <2>1 DEF TypeOK
  <2>2. CASE held' = [held EXCEPT ![c][pkg[c]] = Applied(Upstream(pkg[c]))]
    BY <1>0, <1>a, <2>2 DEF TypeOK
  <2> QED
    BY <1>b, <2>1, <2>2
<1>1. TypeOK'
  BY <1>0, <1>a, <1>b, <1>c
  DEF PackumentRewritten, TypeOK, Stages, cacheVars, worldVars
<1>2. CacheOK' /\ LateOK'
  BY CacheKept, LateKept DEF PackumentRewritten, IInv, cacheVars, worldVars
<1>3. ClientOK(c)'
  <2>1. CASE conf.policy = "strip" /\ ~Allowed(pkg[c]) /\ pkg[c] \in Tagged
    BY <1>0, <1>a, <2>1, ConfKept
    DEF PackumentRewritten, TypeOK, ClientOK, worldVars, cacheVars, PreStrip, Advised, InProxy
  <2>2. CASE ~(conf.policy = "strip" /\ ~Allowed(pkg[c]) /\ pkg[c] \in Tagged)
    <3>1. /\ pc' = [pc EXCEPT ![c] = "told"]
          /\ adv' = [adv EXCEPT ![c] = Applied(Upstream(pkg[c]))]
          /\ held' = [held EXCEPT ![c][pkg[c]] = Applied(Upstream(pkg[c]))]
          /\ UNCHANGED <<conf, pkg, got, pinned, lock>> /\ pc[c] = "asked"
      BY <2>2 DEF PackumentRewritten, worldVars
    <3>2. \A p \in Packages :
            held'[c][p] = held[c][p] \/ (p = pkg[c] /\ held'[c][p] = adv'[c])
      BY <1>0, <3>1 DEF TypeOK
    <3> QED
      BY <1>0, <1>a, <3>1, <3>2, ConfKept
      DEF TypeOK, ClientOK, PreStrip, Advised, InProxy
  <2> QED
    BY <2>1, <2>2
<1>4. \A x \in Clients \ {c} : ClientOK(x)'
  BY <1>0, ClientKept DEF PackumentRewritten, IInv, TypeOK, worldVars
<1> QED
  BY <1>1, <1>2, <1>3, <1>4 DEF IInv

LEMMA InvLookup ==
  ASSUME IInv, NEW c \in Clients, PreStripLookup(c)
  PROVE  IInv'
<1>0. /\ TypeOK /\ CacheOK /\ LateOK /\ ClientOK(c)
      /\ pkg[c] \in Packages
  BY DEF IInv, TypeOK
<1>1. TypeOK'
  BY <1>0 DEF PreStripLookup, TypeOK, Stages, cacheVars, worldVars
<1>2. CacheOK' /\ LateOK'
  BY CacheKept, LateKept DEF PreStripLookup, IInv, cacheVars, worldVars
<1>3. ClientOK(c)'
  BY <1>0, ConfKept
  DEF PreStripLookup, TypeOK, ClientOK, worldVars, cacheVars, PreStrip, Advised, InProxy
<1>4. \A x \in Clients \ {c} : ClientOK(x)'
  BY <1>0, ClientKept DEF PreStripLookup, IInv, TypeOK, worldVars
<1> QED
  BY <1>1, <1>2, <1>3, <1>4 DEF IInv

LEMMA InvFetched ==
  ASSUME IInv, NEW c \in Clients, PreStripFetched(c)
  PROVE  IInv'
<1>0. /\ TypeOK /\ CacheOK /\ LateOK /\ ClientOK(c)
      /\ pkg[c] \in Packages
  BY DEF IInv, TypeOK
<1>a. Upstream(pkg[c]) \in Bodies
  BY <1>0, UpstreamType
<1>1. TypeOK'
  BY <1>0, <1>a DEF PreStripFetched, TypeOK, Stages, cacheVars, worldVars
<1>2. CacheOK' /\ LateOK'
  BY CacheKept, LateKept DEF PreStripFetched, IInv, cacheVars, worldVars
<1>3. ClientOK(c)'
  <2>1. CASE Upstream(pkg[c]) = adv[c] /\ Strip(adv[c]) # Failed
    <3>1. Insertable(adv[c], Strip(adv[c]))
      BY <1>0, <1>a, <2>1, StripType, StripOwn
      DEF PreStripFetched, Insertable, Upstream, Body, ClientOK, PreStrip
    <3>2. got'[c] = adv[c] /\ adv'[c] = adv[c] /\ pc'[c] = "inserting"
      BY <1>0, <2>1 DEF PreStripFetched, TypeOK
    <3>3. Insertable(adv[c], Strip(got[c]))'
      BY <3>1, <3>2, ConfKept DEF PreStripFetched, worldVars
    <3> QED
      BY <1>0, <3>2, <3>3, ConfKept
      DEF PreStripFetched, TypeOK, ClientOK, worldVars, cacheVars, PreStrip, Advised, InProxy
  <2>2. CASE ~(Upstream(pkg[c]) = adv[c] /\ Strip(adv[c]) # Failed)
    BY <1>0, <2>2, ConfKept
    DEF PreStripFetched, TypeOK, ClientOK, worldVars, cacheVars, PreStrip, Advised, InProxy
  <2> QED
    BY <2>1, <2>2
<1>4. \A x \in Clients \ {c} : ClientOK(x)'
  BY <1>0, ClientKept DEF PreStripFetched, IInv, TypeOK, worldVars
<1> QED
  BY <1>1, <1>2, <1>3, <1>4 DEF IInv

LEMMA InvFetchFails ==
  ASSUME IInv, NEW c \in Clients, PreStripFetchFails(c)
  PROVE  IInv'
<1>0. /\ TypeOK /\ CacheOK /\ LateOK /\ ClientOK(c)
      /\ pkg[c] \in Packages
  BY DEF IInv, TypeOK
<1>1. TypeOK'
  BY <1>0 DEF PreStripFetchFails, TypeOK, Stages, cacheVars, worldVars
<1>2. CacheOK' /\ LateOK'
  BY CacheKept, LateKept DEF PreStripFetchFails, IInv, cacheVars, worldVars
<1>3. ClientOK(c)'
  BY <1>0, ConfKept
  DEF PreStripFetchFails, TypeOK, ClientOK, worldVars, cacheVars, PreStrip, Advised, InProxy
<1>4. \A x \in Clients \ {c} : ClientOK(x)'
  BY <1>0, ClientKept DEF PreStripFetchFails, IInv, TypeOK, worldVars
<1> QED
  BY <1>1, <1>2, <1>3, <1>4 DEF IInv

LEMMA InvPreStripInsert ==
  ASSUME IInv, NEW c \in Clients, PreStripInsert(c)
  PROVE  IInv'
<1>0. /\ TypeOK /\ CacheOK /\ LateOK /\ ClientOK(c)
      /\ pkg[c] \in Packages
  BY DEF IInv, TypeOK
<1>a. Insertable(adv[c], Strip(got[c])) /\ Insert(adv[c], Strip(got[c]))
  BY <1>0 DEF PreStripInsert, ClientOK
<1>b. /\ mem' \in [Packages -> [Revs -> Entries]]
      /\ disk' \in [Packages -> [Revs -> Entries]]
  BY <1>0, <1>a, InsertType DEF Insertable
<1>1. TypeOK'
  BY <1>0, <1>b DEF PreStripInsert, TypeOK, Stages, cacheVars, worldVars
<1>2. CacheOK' /\ LateOK'
  BY <1>0, <1>a, InsertKept, LateKept DEF PreStripInsert, worldVars
<1>3. ClientOK(c)'
  BY <1>0, ConfKept
  DEF PreStripInsert, TypeOK, ClientOK, worldVars, cacheVars, PreStrip, Advised, InProxy
<1>4. \A x \in Clients \ {c} : ClientOK(x)'
  BY <1>0, ClientKept DEF PreStripInsert, IInv, TypeOK, worldVars
<1> QED
  BY <1>1, <1>2, <1>3, <1>4 DEF IInv

LEMMA InvBudget ==
  ASSUME IInv, NEW c \in Clients, BudgetExhausted(c)
  PROVE  IInv'
<1>0. /\ TypeOK /\ CacheOK /\ LateOK /\ ClientOK(c)
      /\ pkg[c] \in Packages
  BY DEF IInv, TypeOK
<1>a. pc[c] = "inserting" => Insertable(adv[c], Strip(got[c]))
  BY <1>0 DEF ClientOK
<1>b. \A x \in late' : x \in late \/ (x = <<adv[c], Strip(got[c])>> /\ pc[c] = "inserting")
  <2>1. CASE pc[c] = "inserting"
    BY <2>1 DEF BudgetExhausted
  <2>2. CASE pc[c] # "inserting"
    BY <2>2 DEF BudgetExhausted
  <2> QED
    BY <2>1, <2>2
<1>c. late' \subseteq Bodies \X Entries
  BY <1>0, <1>a, <1>b DEF Insertable, TypeOK
<1>1. TypeOK'
  BY <1>0, <1>c DEF BudgetExhausted, TypeOK, Stages, cacheVars, worldVars
<1>2. CacheOK' /\ LateOK'
  <2>1. CacheOK'
    BY <1>0, CacheKept DEF BudgetExhausted, worldVars
  <2>2. \A x \in late' : Insertable(x[1], x[2])
    BY <1>0, <1>a, <1>b DEF LateOK
  <2> QED
    BY <2>1, <2>2, ConfKept DEF BudgetExhausted, LateOK, worldVars
<1>3. ClientOK(c)'
  BY <1>0, ConfKept
  DEF BudgetExhausted, TypeOK, ClientOK, worldVars, cacheVars, PreStrip, Advised, InProxy
<1>4. \A x \in Clients \ {c} : ClientOK(x)'
  BY <1>0, ClientKept DEF BudgetExhausted, IInv, TypeOK, worldVars
<1> QED
  BY <1>1, <1>2, <1>3, <1>4 DEF IInv

LEMMA InvLate ==
  ASSUME IInv, LateInsert
  PROVE  IInv'
<1>0. TypeOK /\ CacheOK /\ LateOK
  BY DEF IInv
<1>1. PICK x \in late : Insert(x[1], x[2]) /\ late' = late \ {x}
  BY DEF LateInsert
<1>2. Insertable(x[1], x[2])
  BY <1>0 DEF LateOK
<1>3. /\ mem' \in [Packages -> [Revs -> Entries]]
      /\ disk' \in [Packages -> [Revs -> Entries]]
  BY <1>0, <1>1, <1>2, InsertType DEF Insertable
<1>4. TypeOK'
  BY <1>0, <1>1, <1>3 DEF LateInsert, TypeOK, clientVars, worldVars
<1>5. CacheOK' /\ LateOK'
  BY <1>0, <1>1, <1>2, InsertKept, LateKept DEF LateInsert, worldVars
<1>6. \A c \in Clients : ClientOK(c)'
  BY ClientKept DEF LateInsert, IInv, clientVars, worldVars
<1> QED
  BY <1>4, <1>5, <1>6 DEF IInv

LEMMA InvApplyAgain ==
  ASSUME IInv, NEW c \in Clients, ApplyAgain(c)
  PROVE  IInv'
<1>0. /\ TypeOK /\ CacheOK /\ LateOK /\ ClientOK(c)
      /\ pkg[c] \in Packages
  BY DEF IInv, TypeOK
<1>a. Applied(adv[c]) \in Bodies /\ Told(pkg[c], Applied(adv[c]))
  <2>1. adv[c] \in Bodies /\ Told(pkg[c], adv[c])
    BY <1>0 DEF ApplyAgain, ClientOK, Advised
  <2> QED
    BY <1>0, <2>1, CacheType, AppliedOwn DEF Told
<1>b. /\ adv' = [adv EXCEPT ![c] = Applied(adv[c])]
      /\ held' = [held EXCEPT ![c][pkg[c]] = Applied(adv[c])]
  BY <1>0 DEF ApplyAgain, TypeOK
<1>1. TypeOK'
  BY <1>0, <1>a, <1>b DEF ApplyAgain, TypeOK, Stages, cacheVars, worldVars
<1>2. CacheOK' /\ LateOK'
  BY CacheKept, LateKept DEF ApplyAgain, IInv, cacheVars, worldVars
<1>3. ClientOK(c)'
  BY <1>0, <1>a, <1>b, ConfKept
  DEF ApplyAgain, TypeOK, ClientOK, worldVars, cacheVars, PreStrip, Advised, InProxy
<1>4. \A x \in Clients \ {c} : ClientOK(x)'
  BY <1>0, ClientKept DEF ApplyAgain, IInv, TypeOK, worldVars
<1> QED
  BY <1>1, <1>2, <1>3, <1>4 DEF IInv

LEMMA InvFromLock ==
  ASSUME IInv, NEW c \in Clients, NEW p \in Packages, InstallFromLock(c, p)
  PROVE  IInv'
<1>0. /\ TypeOK /\ CacheOK /\ LateOK /\ ClientOK(c)
      /\ pkg[c] \in Packages
  BY DEF IInv, TypeOK
<1>a. /\ lock[c][p] \in Bodies
      /\ Told(p, lock[c][p]) /\ lock[c][p].by = Maker(p)
  BY <1>0 DEF InstallFromLock, TypeOK, ClientOK
<1>b. missed' \in [Clients -> 0 .. MaxMissed]
  <2>1. 0 \in 0 .. MaxMissed /\ missed \in [Clients -> 0 .. MaxMissed]
    BY <1>0, BoundAssumption DEF TypeOK
  <2> QED
    BY <2>1 DEF InstallFromLock
<1>1. TypeOK'
  BY <1>0, <1>a, <1>b DEF InstallFromLock, TypeOK, Stages, cacheVars, worldVars
<1>2. CacheOK' /\ LateOK'
  BY CacheKept, LateKept DEF InstallFromLock, IInv, cacheVars, worldVars
<1>3. ClientOK(c)'
  BY <1>0, <1>a, ConfKept
  DEF InstallFromLock, TypeOK, ClientOK, worldVars, cacheVars, PreStrip, Advised, InProxy
<1>4. \A x \in Clients \ {c} : ClientOK(x)'
  BY <1>0, ClientKept DEF InstallFromLock, IInv, TypeOK, worldVars
<1> QED
  BY <1>1, <1>2, <1>3, <1>4 DEF IInv
(* What reaches the client is what the gate makes of the upload.             *)
LEMMA TarballServed ==
  ASSUME TypeOK, NEW c \in Clients, TarballArrives(c)
  PROVE  /\ \/ pc' = [pc EXCEPT ![c] = "denied"] /\ got' = got
            \/ /\ pc' = [pc EXCEPT ![c] = "served"]
               /\ \E b \in Bodies :
                    /\ got' = [got EXCEPT ![c] = b]
                    /\ b.pkg = pkg[c] /\ b.by = Maker(pkg[c])
         /\ \/ UNCHANGED <<mem, disk>>
            \/ /\ Insertable(Upstream(pkg[c]), Strip(Upstream(pkg[c])))
               /\ Insert(Upstream(pkg[c]), Strip(Upstream(pkg[c])))
<1> DEFINE b == Upstream(pkg[c])
           clean == ~Gated(c) \/ ~HasScripts(b) \/ conf.policy = "audit"
<1>0. pkg[c] \in Packages /\ Trait[pkg[c]] \in Traits /\ conf \in Configs
  BY PackageAssumption DEF TypeOK
<1>1. b \in Bodies /\ b.pkg = pkg[c] /\ b.by = Registry /\ b.rev = upstream[pkg[c]]
  BY <1>0, UpstreamType DEF Upstream, Body
<1>2. CASE clean /\ Serve(c, b) /\ UNCHANGED <<mem, disk>>
  <2>1. Maker(pkg[c]) = Registry
    BY <1>1, <1>2 DEF Maker, Gated, HasScripts
  <2> QED
    BY <1>1, <1>2, <2>1 DEF Serve
<1>3. CASE ~clean /\ conf.policy = "block" /\ Deny(c) /\ UNCHANGED <<mem, disk>>
  BY <1>3 DEF Deny
<1>4. CASE ~clean /\ conf.policy = "strip" /\ Strip(b) # Failed /\ ServeStripped(c)
  <2>1. Trait[pkg[c]] = "scripted"
    BY <1>1, <1>4 DEF HasScripts, Strip
  <2>2. Strip(b) = Body(pkg[c], upstream[pkg[c]], conf.build)
    BY <1>1, <2>1 DEF Strip
  <2>3. Strip(b) \in Bodies /\ Strip(b).pkg = pkg[c] /\ Strip(b).by = Maker(pkg[c])
    <3>1. Strip(b) \in Bodies
      BY <1>0, <2>2, BodyType, BuildType DEF TypeOK
    <3> QED
      BY <1>4, <2>1, <2>2, <3>1 DEF Maker, Body, Gated
  <2>4. Insertable(b, Strip(b))
    BY <1>1, <1>4, StripType, StripOwn DEF Insertable, Gated
  <2> QED
    BY <1>4, <2>3, <2>4 DEF ServeStripped, Serve
<1>5. CASE /\ ~clean /\ conf.policy = "strip" /\ Strip(b) = Failed
           /\ IF conf.onFailure = "block" THEN Deny(c) ELSE Serve(c, b)
           /\ UNCHANGED <<mem, disk>>
  <2>1. Trait[pkg[c]] # "scripted"
    <3>1. SUFFICES ASSUME Trait[pkg[c]] = "scripted" PROVE FALSE
      OBVIOUS
    <3>2. Strip(b) \in Bodies
      BY <1>0, <1>1, <3>1, BodyType, BuildType DEF Strip, TypeOK
    <3> QED
      BY <1>5, <3>2, ValueAssumption
  <2>2. Maker(pkg[c]) = Registry
    BY <2>1 DEF Maker
  <2> QED
    BY <1>1, <1>5, <2>2 DEF Serve, Deny
<1> QED
  BY <1>2, <1>3, <1>4, <1>5 DEF TarballArrives

LEMMA InvTarball ==
  ASSUME IInv, NEW c \in Clients, TarballArrives(c)
  PROVE  IInv'
<1>0. /\ TypeOK /\ CacheOK /\ LateOK /\ ClientOK(c)
      /\ pkg[c] \in Packages
  BY DEF IInv, TypeOK
<1>a. /\ pc[c] = "told"
      /\ UNCHANGED <<late, conf, upstream, restarts, republished,
                     pkg, adv, pinned, held, lock, missed>>
  BY DEF TarballArrives, worldVars
<1>b. \/ pc' = [pc EXCEPT ![c] = "denied"] /\ got' = got
      \/ /\ pc' = [pc EXCEPT ![c] = "served"]
         /\ \E b \in Bodies :
              /\ got' = [got EXCEPT ![c] = b]
              /\ b.pkg = pkg[c] /\ b.by = Maker(pkg[c])
  BY <1>0, TarballServed
<1>c. \/ UNCHANGED <<mem, disk>>
      \/ /\ Insertable(Upstream(pkg[c]), Strip(Upstream(pkg[c])))
         /\ Insert(Upstream(pkg[c]), Strip(Upstream(pkg[c])))
  BY <1>0, TarballServed
<1>d. /\ mem' \in [Packages -> [Revs -> Entries]]
      /\ disk' \in [Packages -> [Revs -> Entries]]
  BY <1>0, <1>c, InsertType DEF Insertable, TypeOK
<1>1. TypeOK'
  BY <1>0, <1>a, <1>b, <1>d, ZenonT(60) DEF TypeOK, Stages
<1>2. CacheOK' /\ LateOK'
  BY <1>0, <1>a, <1>c, InsertKept, CacheKept, LateKept
<1>3. ClientOK(c)'
  BY <1>0, <1>a, <1>b, ConfKept
  DEF TypeOK, ClientOK, PreStrip, Advised, InProxy
<1>4. \A x \in Clients \ {c} : ClientOK(x)'
  BY <1>0, <1>a, <1>b, ClientKept DEF IInv, TypeOK
<1> QED
  BY <1>1, <1>2, <1>3, <1>4 DEF IInv

LEMMA InvVerify ==
  ASSUME IInv, NEW c \in Clients, Verify(c)
  PROVE  IInv'
<1>0. /\ TypeOK /\ CacheOK /\ LateOK /\ ClientOK(c)
      /\ pkg[c] \in Packages
  BY DEF IInv, TypeOK
<1>a. adv[c] \in Bodies
  BY <1>0 DEF Verify, ClientOK, Advised
<1>b. /\ \/ lock' = lock
         \/ lock' = [lock EXCEPT ![c][pkg[c]] = adv[c]]
      /\ \/ missed' = missed
         \/ missed' = [missed EXCEPT ![c] = IF @ < MaxMissed THEN @ + 1 ELSE @]
      /\ pc' = [pc EXCEPT ![c] = "installed"] \/ pc' = [pc EXCEPT ![c] = "mismatch"]
  BY DEF Verify
<1>c. lock' \in [Clients -> [Packages -> Bodies \cup {None}]]
  <2>1. CASE lock' = lock
    BY <1>0, <2>1 DEF TypeOK
  <2>2. CASE lock' = [lock EXCEPT ![c][pkg[c]] = adv[c]]
    BY <1>0, <1>a, <2>2 DEF TypeOK
  <2> QED
    BY <1>b, <2>1, <2>2
<1>d. missed' \in [Clients -> 0 .. MaxMissed]
  <2>1. missed \in [Clients -> 0 .. MaxMissed] /\ MaxMissed \in Nat
    BY <1>0, BoundAssumption DEF TypeOK
  <2>2. (IF missed[c] < MaxMissed THEN missed[c] + 1 ELSE missed[c]) \in 0 .. MaxMissed
    BY <2>1
  <2> QED
    BY <1>b, <2>1, <2>2
<1>1. TypeOK'
  BY <1>0, <1>b, <1>c, <1>d DEF Verify, TypeOK, Stages, cacheVars, worldVars
<1>2. CacheOK' /\ LateOK'
  BY CacheKept, LateKept DEF Verify, IInv, cacheVars, worldVars
<1>3. ClientOK(c)'
  <2>1. CASE got[c] = adv[c]
    <3>1. /\ pc' = [pc EXCEPT ![c] = "installed"]
          /\ lock' = [lock EXCEPT ![c][pkg[c]] = adv[c]]
          /\ UNCHANGED <<conf, pkg, adv, got, pinned, held>> /\ pc[c] = "served"
      BY <2>1 DEF Verify, worldVars
    <3>2. \A p \in Packages :
            lock'[c][p] = lock[c][p] \/ (p = pkg[c] /\ lock'[c][p] = adv[c])
      BY <1>0, <3>1 DEF TypeOK
    <3>3. Told(pkg[c], adv[c]) /\ adv[c].by = Maker(pkg[c])
      BY <1>0, <2>1, <3>1 DEF ClientOK, Advised
    <3> QED
      BY <1>0, <3>1, <3>2, <3>3, ConfKept
      DEF TypeOK, ClientOK, PreStrip, Advised, InProxy
  <2>2. CASE got[c] # adv[c]
    BY <1>0, <2>2, ConfKept
    DEF Verify, TypeOK, ClientOK, worldVars, PreStrip, Advised, InProxy
  <2> QED
    BY <2>1, <2>2
<1>4. \A x \in Clients \ {c} : ClientOK(x)'
  BY <1>0, <1>b, <1>c, <1>d, ClientKept DEF Verify, IInv, TypeOK, worldVars
<1> QED
  BY <1>1, <1>2, <1>3, <1>4 DEF IInv

LEMMA InvRepublish ==
  ASSUME IInv, NEW p \in Packages, Republish(p)
  PROVE  IInv'
<1>1. TypeOK'
  BY BoundAssumption DEF Republish, IInv, TypeOK, cacheVars, clientVars
<1>2. CacheOK' /\ LateOK'
  BY CacheKept, LateKept DEF Republish, IInv, cacheVars
<1>3. \A c \in Clients : ClientOK(c)'
  BY ClientKept DEF Republish, IInv, clientVars
<1> QED
  BY <1>1, <1>2, <1>3 DEF IInv

(* Memory is what the directory holds; the requests in the proxy start over. *)
LEMMA InvRestart ==
  ASSUME IInv, Restart
  PROVE  IInv'
<1>0. TypeOK /\ CacheOK /\ StartAs(conf) /\ conf' = conf
  BY DEF IInv, Restart, StartAs
<1>1. mem' = disk \/ mem' = [p \in Packages |-> [r \in Revs |-> None]]
  BY <1>0 DEF StartAs
<1>2. mem' \in [Packages -> [Revs -> Entries]]
  BY <1>0, <1>1 DEF TypeOK, Entries
<1>3. TypeOK'
  BY <1>0, <1>2, BoundAssumption DEF StartAs, TypeOK, Stages
<1>4. CacheOK'
  <2>1. \A p \in Packages, r \in Revs : OwnEntry(p, r, None)
    BY ValueAssumption, BodyType DEF OwnEntry
  <2>2. \A p \in Packages, r \in Revs : mem'[p][r] = disk[p][r] \/ mem'[p][r] = None
    BY <1>1
  <2>3. disk' = disk
    BY <1>0 DEF StartAs
  <2> QED
    BY <1>0, <2>1, <2>2, <2>3, ConfKept DEF CacheOK
<1>5. LateOK'
  BY <1>0 DEF StartAs, LateOK
<1>6. ASSUME NEW c \in Clients
      PROVE  ClientOK(c)'
  <2>1. ClientOK(c) /\ UNCHANGED <<pkg, adv, got, pinned, held, lock>>
    BY <1>0 DEF IInv, StartAs
  <2>2. pc'[c] = IF pc[c] \in InProxy THEN "asked" ELSE pc[c]
    BY <1>0 DEF StartAs
  <2>3. CASE pc[c] \in InProxy
    BY <1>0, <2>1, <2>2, <2>3, ConfKept DEF ClientOK, PreStrip, Advised, InProxy
  <2>4. CASE pc[c] \notin InProxy
    BY <1>0, <2>1, <2>2, <2>4, ClientKept
  <2> QED
    BY <2>3, <2>4
<1> QED
  BY <1>3, <1>4, <1>5, <1>6 DEF IInv

LEMMA InvStutter ==
  ASSUME IInv, UNCHANGED vars
  PROVE  IInv'
<1>1. TypeOK'
  BY DEF vars, IInv, TypeOK
<1>2. CacheOK' /\ LateOK'
  BY CacheKept, LateKept DEF vars, IInv
<1>3. \A c \in Clients : ClientOK(c)'
  BY ClientKept DEF vars, IInv
<1> QED
  BY <1>1, <1>2, <1>3 DEF IInv

LEMMA InvNext == IInv /\ [Next]_vars => IInv'
<1> SUFFICES ASSUME IInv, [Next]_vars PROVE IInv'
  OBVIOUS
<1>1. ASSUME NEW c \in Clients, PackumentStep(c)
      PROVE  IInv'
  BY <1>1, InvNotModified, InvRewritten, InvLookup, InvFetched, InvFetchFails,
     InvPreStripInsert, InvBudget, InvApplyAgain DEF PackumentStep
<1>2. ASSUME NEW c \in Clients, TarballStep(c)
      PROVE  IInv'
  BY <1>2, InvTarball, InvVerify DEF TarballStep
<1>3. ASSUME NEW c \in Clients, NEW p \in Packages,
             RequestPackument(c, p) \/ InstallFromLock(c, p)
      PROVE  IInv'
  BY <1>3, InvRequest, InvFromLock
<1>4. ASSUME NEW p \in Packages, Republish(p)
      PROVE  IInv'
  BY <1>4, InvRepublish
<1> QED
  BY <1>1, <1>2, <1>3, <1>4, InvLate, InvRestart, InvStutter DEF Next

-----------------------------------------------------------------------------
(* The theorems *)

LEMMA Invariance == Spec => []IInv
BY InvInit, InvNext, PTL DEF Spec

(* Every variable keeps its type (proxy.rs, lifecycle.rs, strip_cache.rs).   *)
THEOREM TypeCorrect == Spec => []TypeOK
<1>1. IInv => TypeOK
  BY DEF IInv
<1> QED
  BY <1>1, Invariance, PTL

(* The cache never files bytes under the key of another upload: the pre-     *)
(* strip compares what it fetched with what was advertised, however late.    *)
THEOREM EntriesOwn == Spec => []NoStaleEntry
<1>1. IInv => NoStaleEntry
  BY DEF IInv, CacheOK, OwnEntry, NoStaleEntry
<1> QED
  BY <1>1, Invariance, PTL

(* A tarball is the one its package, upload and maker say it is.             *)
LEMMA SameBody ==
  ASSUME NEW x \in Bodies, NEW y \in Bodies,
         x.pkg = y.pkg, x.rev = y.rev, x.by = y.by
  PROVE  x = y
BY DEF Bodies

(* Under one configuration a lockfile written through the proxy installs     *)
(* through the proxy, whatever it restarts, republishes or caches.           *)
THEOREM LockfilesHonoured == Spec => []PinnedHonoured
<1>1. IInv => PinnedHonoured
  <2> SUFFICES ASSUME IInv, NEW c \in Clients, pc[c] = "served", pinned[c],
                      got[c].rev = adv[c].rev
               PROVE  got[c] = adv[c]
    BY DEF PinnedHonoured
  <2>1. /\ got[c] \in Bodies /\ got[c].pkg = pkg[c] /\ got[c].by = Maker(pkg[c])
        /\ adv[c] \in Bodies /\ adv[c].pkg = pkg[c] /\ adv[c].by = Maker(pkg[c])
    BY DEF IInv, ClientOK, Advised, Told
  <2> QED
    BY <2>1, SameBody
<1> QED
  BY <1>1, Invariance, PTL

(* When no package has a script key with an empty value, the rewritten       *)
(* metadata and the tarball gate agree: whoever was told a rewritten         *)
(* integrity gets those bytes.  The assumption is needed: see NoHollow.      *)
THEOREM MetadataHonoured == ASSUME NoHollow PROVE Spec => []AdvertisedHonoured
<1>1. IInv => AdvertisedHonoured
  <2> SUFFICES ASSUME IInv, NEW c \in Clients, pc[c] = "served",
                      adv[c].by # Registry, got[c].rev = adv[c].rev
               PROVE  got[c] = adv[c]
    BY DEF AdvertisedHonoured
  <2>1. /\ got[c] \in Bodies /\ got[c].pkg = pkg[c] /\ got[c].by = Maker(pkg[c])
        /\ adv[c] \in Bodies /\ adv[c].pkg = pkg[c] /\ adv[c].by = Maker(pkg[c])
    BY NoHollow DEF IInv, ClientOK, Advised, Told
  <2> QED
    BY <2>1, SameBody
<1> QED
  BY <1>1, Invariance, PTL

(* Without such packages the proxy serves what it has said, to clients with  *)
(* a lockfile and to the others.                                             *)
THEOREM WordIsKept == ASSUME NoHollow PROVE Spec => []WordKept
<1> QED
  BY MetadataHonoured, LockfilesHonoured, PTL DEF WordKept
-----------------------------------------------------------------------------
(* One mismatch at most: while the proxy and the registry stay as they were, *)
(* the entry that the tarball handler files before it serves stripped bytes  *)
(* is never lost, so whoever asks again is told what Maker makes.            *)

Undisturbed == restarts = 0 /\ republished = 0

Settled(p) == Maker(p) # Registry => mem[p][upstream[p]] \in StrippedBodies

(* An entry that never turns a stripped package back into an unstripped one. *)
Lasting(b, e) == Trait[b.pkg] = "scripted" => e \in StrippedBodies

Underway == Advised \cup {"asked", "mismatch"}

OnceOK(c) ==
  /\ pc[c] = "inserting" => got[c] = adv[c]
  /\ pc[c] \in Advised => adv[c].rev = upstream[pkg[c]]
  /\ pc[c] = "served" => got[c].rev = upstream[pkg[c]]
  /\ \A p \in Packages : lock[c][p] # None => lock[c][p].rev = upstream[p]
  /\ pc[c] \in {"served", "mismatch"} => Settled(pkg[c])
  /\ missed[c] > 0 /\ pc[c] \in Underway => Settled(pkg[c])
  /\ missed[c] > 0 /\ pc[c] \in Advised => adv[c].by = Maker(pkg[c])
  /\ missed[c] <= 1

LateLasts == \A x \in late : Lasting(x[1], x[2])

OnceInv == Undisturbed => LateLasts /\ \A c \in Clients : OnceOK(c)

LEMMA MakerTraits ==
  ASSUME TypeOK, NEW p \in Packages, Maker(p) # Registry
  PROVE  /\ conf.policy = "strip" /\ ~Allowed(p) /\ Trait[p] = "scripted"
         /\ Maker(p) = conf.build
BY DEF Maker

(* The rewriter keeps no script of a scripted package.                       *)
LEMMA StripLasts ==
  ASSUME TypeOK, NEW b \in Bodies
  PROVE  Lasting(b, Strip(b))
<1> SUFFICES ASSUME Trait[b.pkg] = "scripted" PROVE Strip(b) \in StrippedBodies
  BY DEF Lasting
<1>1. Strip(b) = Body(b.pkg, b.rev, conf.build)
  BY DEF Strip
<1>2. b.pkg \in Packages /\ b.rev \in Revs
  BY DEF Bodies
<1> QED
  BY <1>1, <1>2, BodyType, BuildType

LEMMA InsertSettles ==
  ASSUME TypeOK, conf' = conf, upstream' = upstream,
         NEW k, NEW e, Insertable(k, e), Lasting(k, e), Insert(k, e)
  PROVE  /\ \A p \in Packages : Settled(p) => Settled(p)'
         /\ k.rev = upstream[k.pkg] => Settled(k.pkg)'
<1>1. k \in Bodies /\ e \in Entries /\ k.pkg \in Packages /\ k.rev \in Revs
  BY DEF Insertable, Bodies
<1>2. \A p \in Packages, r \in Revs :
        mem'[p][r] = mem[p][r] \/ (p = k.pkg /\ r = k.rev /\ mem'[p][r] = e)
  BY <1>1, InsertType
<1>3. \A p \in Packages : upstream[p] \in Revs /\ Maker(p)' = Maker(p)
  BY ConfKept DEF TypeOK
<1>4. \A p \in Packages : Maker(p) # Registry => Trait[p] = "scripted"
  BY DEF Maker
<1>5. ASSUME NEW p \in Packages, Settled(p)
      PROVE  Settled(p)'
  BY <1>2, <1>3, <1>4, <1>5 DEF Settled, Lasting
<1>6. mem'[k.pkg][k.rev] = e
  BY <1>1 DEF Insert, TypeOK
<1>7. k.rev = upstream[k.pkg] => Settled(k.pkg)'
  BY <1>1, <1>3, <1>4, <1>6 DEF Settled, Lasting
<1> QED
  BY <1>5, <1>7

LEMMA SettledStays ==
  ASSUME conf' = conf, upstream' = upstream, mem' = mem
  PROVE  \A p : Settled(p) => Settled(p)'
BY ConfKept DEF Settled

(* A client no step touches, while what is settled stays settled.            *)
LEMMA OnceKept ==
  ASSUME conf' = conf, upstream' = upstream,
         \A p \in Packages : Settled(p) => Settled(p)',
         NEW c, OnceOK(c), pkg[c] \in Packages,
         pc'[c] = pc[c], pkg'[c] = pkg[c], adv'[c] = adv[c], got'[c] = got[c],
         lock'[c] = lock[c], missed'[c] = missed[c]
  PROVE  OnceOK(c)'
BY ConfKept DEF OnceOK

(* Without hollow packages the cache holds nothing but what Maker makes.     *)
LEMMA AppliedBy ==
  ASSUME NoHollow, TypeOK, CacheOK, NEW b \in Bodies
  PROVE  /\ b.by = Maker(b.pkg) => Applied(b).by = Maker(b.pkg)
         /\ /\ Settled(b.pkg) /\ b.rev = upstream[b.pkg] /\ b.by = Registry
            => Applied(b).by = Maker(b.pkg)
<1>1. b.pkg \in Packages /\ b.rev \in Revs
  BY DEF Bodies
<1>2. mem[b.pkg][b.rev] \in StrippedBodies => mem[b.pkg][b.rev].by = Maker(b.pkg)
  BY <1>1 DEF CacheOK, OwnEntry
<1>3. None \notin StrippedBodies
  BY ValueAssumption, BodyType
<1>4. \A x \in StrippedBodies : x.by # Registry
  BY ValueAssumption DEF StrippedBodies
<1>5. b.by = Maker(b.pkg) => Applied(b).by = Maker(b.pkg)
  BY <1>2, <1>3, <1>4 DEF Applied, CacheGet
<1>6. ASSUME Settled(b.pkg), b.rev = upstream[b.pkg], b.by = Registry
      PROVE  Applied(b).by = Maker(b.pkg)
  <2>1. CASE Maker(b.pkg) = Registry
    BY <1>5, <1>6, <2>1
  <2>2. CASE Maker(b.pkg) # Registry
    <3>1. CacheGet(b) = mem[b.pkg][b.rev] /\ mem[b.pkg][b.rev] \in StrippedBodies
      BY <1>6, <2>2 DEF Settled, CacheGet
    <3> QED
      BY <1>2, <3>1 DEF Applied
  <2> QED
    BY <2>1, <2>2
<1> QED
  BY <1>5, <1>6

-----------------------------------------------------------------------------
(* The steps *)

LEMMA OnceInit == Init => OnceInv
<1> SUFFICES ASSUME Init PROVE OnceInv
  OBVIOUS
<1>1. LateLasts
  BY DEF Init, LateLasts
<1>2. ASSUME NEW c \in Clients
      PROVE  OnceOK(c)
  <2>1. pc[c] = "idle" /\ missed[c] = 0 /\ \A p \in Packages : lock[c][p] = None
    BY DEF Init
  <2> QED
    BY <2>1 DEF OnceOK, Advised, PreStrip, Underway
<1> QED
  BY <1>1, <1>2 DEF OnceInv

LEMMA OnceRequest ==
  ASSUME IInv, OnceInv, NEW c \in Clients, NEW p \in Packages, RequestPackument(c, p)
  PROVE  OnceInv'
<1> SUFFICES ASSUME Undisturbed' PROVE LateLasts' /\ \A x \in Clients : OnceOK(x)'
  BY DEF OnceInv
<1>0. /\ TypeOK /\ LateLasts /\ \A x \in Clients : OnceOK(x) /\ pkg[x] \in Packages
      /\ UNCHANGED <<mem, disk, late, conf, upstream, adv, got, lock>>
  BY DEF RequestPackument, cacheVars, worldVars, Undisturbed, OnceInv, IInv, TypeOK
<1>1. \A q \in Packages : Settled(q) => Settled(q)'
  BY <1>0, SettledStays
<1>2. LateLasts'
  BY <1>0 DEF LateLasts, Lasting
<1>3. OnceOK(c)'
  <2>1. pc'[c] = "asked" /\ pkg'[c] = p
    BY <1>0 DEF RequestPackument, TypeOK
  <2>2. CASE pc[c] = "mismatch" /\ p = pkg[c] /\ UNCHANGED missed
    BY <1>0, <1>1, <2>1, <2>2, ConfKept DEF OnceOK, Advised, PreStrip, Underway
  <2>3. CASE missed' = [missed EXCEPT ![c] = 0]
    <3>1. missed'[c] = 0
      BY <1>0, <2>3 DEF TypeOK
    <3> QED
      BY <1>0, <2>1, <3>1 DEF OnceOK, Advised, PreStrip
  <2> QED
    BY <2>2, <2>3 DEF RequestPackument
<1>4. \A x \in Clients \ {c} : OnceOK(x)'
  BY <1>0, <1>1, OnceKept DEF RequestPackument, TypeOK
<1> QED
  BY <1>2, <1>3, <1>4

(* What it is told is what Maker makes, once that is settled.                *)
LEMMA OnceRewritten ==
  ASSUME NoHollow, IInv, OnceInv, NEW c \in Clients, PackumentRewritten(c)
  PROVE  OnceInv'
<1> SUFFICES ASSUME Undisturbed' PROVE LateLasts' /\ \A x \in Clients : OnceOK(x)'
  BY DEF OnceInv
<1>0. /\ TypeOK /\ CacheOK /\ LateLasts
      /\ \A x \in Clients : OnceOK(x) /\ pkg[x] \in Packages
      /\ UNCHANGED <<mem, disk, late, conf, upstream, pkg, got, lock, missed>>
      /\ pc[c] = "asked"
      /\ adv' = [adv EXCEPT ![c] = Applied(Upstream(pkg[c]))]
      /\ pc' = [pc EXCEPT ![c] = "lookup"] \/ pc' = [pc EXCEPT ![c] = "told"]
  BY DEF PackumentRewritten, cacheVars, worldVars, Undisturbed, OnceInv, IInv, TypeOK
<1>a. LET u == Upstream(pkg[c])
      IN  u \in Bodies /\ u.pkg = pkg[c] /\ u.rev = upstream[pkg[c]] /\ u.by = Registry
  BY <1>0, UpstreamType DEF Upstream, Body
<1>b. /\ Applied(Upstream(pkg[c])).rev = upstream[pkg[c]]
      /\ Settled(pkg[c]) => Applied(Upstream(pkg[c])).by = Maker(pkg[c])
  BY <1>0, <1>a, AppliedOwn, AppliedBy
<1>1. \A q \in Packages : Settled(q) => Settled(q)'
  BY <1>0, SettledStays
<1>2. LateLasts'
  BY <1>0 DEF LateLasts, Lasting
<1>3. OnceOK(c)'
  <2>1. adv'[c] = Applied(Upstream(pkg[c])) /\ pc'[c] \in {"lookup", "told"}
    BY <1>0 DEF TypeOK
  <2> QED
    BY <1>0, <1>b, <1>1, <2>1, ConfKept DEF OnceOK, Underway
<1>4. \A x \in Clients \ {c} : OnceOK(x)'
  BY <1>0, <1>1, OnceKept DEF TypeOK
<1> QED
  BY <1>2, <1>3, <1>4

(* The steps of the pre-strip that only move on.                             *)
LEMMA OnceLookup ==
  ASSUME IInv, OnceInv, NEW c \in Clients,
         PreStripLookup(c) \/ PreStripFetched(c) \/ PreStripFetchFails(c)
  PROVE  OnceInv'
<1> SUFFICES ASSUME Undisturbed' PROVE LateLasts' /\ \A x \in Clients : OnceOK(x)'
  BY DEF OnceInv
<1>0. /\ TypeOK /\ LateLasts
      /\ \A x \in Clients : OnceOK(x) /\ pkg[x] \in Packages
      /\ UNCHANGED <<mem, disk, late, conf, upstream, pkg, adv, lock, missed>>
      /\ pc[c] \in PreStrip
  BY DEF PreStripLookup, PreStripFetched, PreStripFetchFails, PreStrip,
         cacheVars, worldVars, Undisturbed, OnceInv, IInv, TypeOK
<1>1. \A q \in Packages : Settled(q) => Settled(q)'
  BY <1>0, SettledStays
<1>2. LateLasts'
  BY <1>0 DEF LateLasts, Lasting
<1>3. /\ pc'[c] \in {"fetching", "inserting", "apply"}
      /\ pc'[c] = "inserting" => got'[c] = adv[c]
  <2>1. CASE PreStripLookup(c)
    BY <1>0, <2>1 DEF PreStripLookup, TypeOK
  <2>2. CASE PreStripFetched(c)
    BY <1>0, <2>2 DEF PreStripFetched, TypeOK
  <2>3. CASE PreStripFetchFails(c)
    BY <1>0, <2>3 DEF PreStripFetchFails, TypeOK
  <2> QED
    BY <2>1, <2>2, <2>3
<1>4. OnceOK(c)'
  BY <1>0, <1>1, <1>3, ConfKept DEF OnceOK, Advised, PreStrip, Underway
<1>5. \A x \in Clients \ {c} : pc'[x] = pc[x] /\ got'[x] = got[x]
  BY <1>0 DEF PreStripLookup, PreStripFetched, PreStripFetchFails, TypeOK
<1>6. \A x \in Clients \ {c} : OnceOK(x)'
  BY <1>0, <1>1, <1>5, OnceKept
<1> QED
  BY <1>2, <1>4, <1>6

LEMMA OnceInsert ==
  ASSUME IInv, OnceInv, NEW c \in Clients, PreStripInsert(c)
  PROVE  OnceInv'
<1> SUFFICES ASSUME Undisturbed' PROVE LateLasts' /\ \A x \in Clients : OnceOK(x)'
  BY DEF OnceInv
<1>0. /\ TypeOK /\ LateLasts /\ ClientOK(c)
      /\ \A x \in Clients : OnceOK(x) /\ pkg[x] \in Packages
      /\ UNCHANGED <<late, conf, upstream, pkg, adv, got, lock, missed>>
      /\ pc[c] = "inserting" /\ pc' = [pc EXCEPT ![c] = "apply"]
  BY DEF PreStripInsert, worldVars, Undisturbed, OnceInv, IInv, TypeOK
<1>a. Insertable(adv[c], Strip(got[c])) /\ Lasting(adv[c], Strip(got[c]))
  BY <1>0, StripLasts DEF ClientOK, Insertable, OnceOK
<1>1. \A q \in Packages : Settled(q) => Settled(q)'
  BY <1>0, <1>a, InsertSettles DEF PreStripInsert
<1>2. LateLasts'
  BY <1>0 DEF LateLasts, Lasting
<1>3. OnceOK(c)'
  BY <1>0, <1>1, ConfKept DEF OnceOK, Advised, PreStrip, Underway, TypeOK
<1>4. \A x \in Clients \ {c} : OnceOK(x)'
  BY <1>0, <1>1, OnceKept DEF TypeOK
<1> QED
  BY <1>2, <1>3, <1>4

LEMMA OnceBudget ==
  ASSUME IInv, OnceInv, NEW c \in Clients, BudgetExhausted(c)
  PROVE  OnceInv'
<1> SUFFICES ASSUME Undisturbed' PROVE LateLasts' /\ \A x \in Clients : OnceOK(x)'
  BY DEF OnceInv
<1>0. /\ TypeOK /\ LateLasts /\ ClientOK(c)
      /\ \A x \in Clients : OnceOK(x) /\ pkg[x] \in Packages
      /\ UNCHANGED <<mem, disk, conf, upstream, pkg, adv, got, lock, missed>>
      /\ pc[c] \in PreStrip /\ pc' = [pc EXCEPT ![c] = "apply"]
  BY DEF BudgetExhausted, PreStrip, worldVars, Undisturbed, OnceInv, IInv, TypeOK
<1>a. pc[c] = "inserting" => Lasting(adv[c], Strip(got[c]))
  BY <1>0, StripLasts DEF ClientOK, Insertable, OnceOK
<1>b. \A x \in late' : x \in late \/ (x = <<adv[c], Strip(got[c])>> /\ pc[c] = "inserting")
  <2>1. CASE pc[c] = "inserting"
    BY <2>1 DEF BudgetExhausted
  <2>2. CASE pc[c] # "inserting"
    BY <2>2 DEF BudgetExhausted
  <2> QED
    BY <2>1, <2>2
<1>1. \A q \in Packages : Settled(q) => Settled(q)'
  BY <1>0, SettledStays
<1>2. LateLasts'
  <2>1. \A x \in late' : Lasting(x[1], x[2])
    BY <1>0, <1>a, <1>b DEF LateLasts
  <2> QED
    BY <2>1 DEF LateLasts, Lasting
<1>3. OnceOK(c)'
  BY <1>0, <1>1, ConfKept DEF OnceOK, Advised, PreStrip, Underway, TypeOK
<1>4. \A x \in Clients \ {c} : OnceOK(x)'
  BY <1>0, <1>1, OnceKept DEF TypeOK
<1> QED
  BY <1>2, <1>3, <1>4

LEMMA OnceLate ==
  ASSUME IInv, OnceInv, LateInsert
  PROVE  OnceInv'
<1> SUFFICES ASSUME Undisturbed' PROVE LateLasts' /\ \A x \in Clients : OnceOK(x)'
  BY DEF OnceInv
<1>0. /\ TypeOK /\ LateOK /\ LateLasts
      /\ \A x \in Clients : OnceOK(x) /\ pkg[x] \in Packages
      /\ UNCHANGED <<conf, upstream, pc, pkg, adv, got, lock, missed>>
  BY DEF LateInsert, worldVars, clientVars, Undisturbed, OnceInv, IInv, TypeOK
<1>1. PICK x \in late : Insert(x[1], x[2]) /\ late' = late \ {x}
  BY DEF LateInsert
<1>2. Insertable(x[1], x[2]) /\ Lasting(x[1], x[2])
  BY <1>0 DEF LateOK, LateLasts
<1>3. \A q \in Packages : Settled(q) => Settled(q)'
  BY <1>0, <1>1, <1>2, InsertSettles
<1>4. LateLasts'
  BY <1>0, <1>1 DEF LateLasts, Lasting
<1>5. \A y \in Clients : OnceOK(y)'
  BY <1>0, <1>3, OnceKept
<1> QED
  BY <1>4, <1>5

LEMMA OnceApply ==
  ASSUME NoHollow, IInv, OnceInv, NEW c \in Clients, ApplyAgain(c)
  PROVE  OnceInv'
<1> SUFFICES ASSUME Undisturbed' PROVE LateLasts' /\ \A x \in Clients : OnceOK(x)'
  BY DEF OnceInv
<1>0. /\ TypeOK /\ CacheOK /\ LateLasts /\ ClientOK(c)
      /\ \A x \in Clients : OnceOK(x) /\ pkg[x] \in Packages
      /\ UNCHANGED <<mem, disk, late, conf, upstream, pkg, got, lock, missed>>
      /\ pc[c] = "apply" /\ pc' = [pc EXCEPT ![c] = "told"]
      /\ adv' = [adv EXCEPT ![c] = Applied(adv[c])]
  BY DEF ApplyAgain, cacheVars, worldVars, Undisturbed, OnceInv, IInv, TypeOK
<1>a. adv[c] \in Bodies /\ adv[c].pkg = pkg[c] /\ adv[c].rev = upstream[pkg[c]]
  BY <1>0 DEF ClientOK, OnceOK, Advised, Told
<1>b. /\ Applied(adv[c]).rev = upstream[pkg[c]]
      /\ adv[c].by = Maker(pkg[c]) => Applied(adv[c]).by = Maker(pkg[c])
  BY <1>0, <1>a, AppliedOwn, AppliedBy
<1>1. \A q \in Packages : Settled(q) => Settled(q)'
  BY <1>0, SettledStays
<1>2. LateLasts'
  BY <1>0 DEF LateLasts, Lasting
<1>3. OnceOK(c)'
  <2>1. adv'[c] = Applied(adv[c]) /\ pc'[c] = "told"
    BY <1>0 DEF TypeOK
  <2> QED
    BY <1>0, <1>b, <1>1, <2>1, ConfKept DEF OnceOK, Advised, PreStrip, Underway
<1>4. \A x \in Clients \ {c} : OnceOK(x)'
  BY <1>0, <1>1, OnceKept DEF TypeOK
<1> QED
  BY <1>2, <1>3, <1>4

LEMMA OnceFromLock ==
  ASSUME IInv, OnceInv, NEW c \in Clients, NEW p \in Packages, InstallFromLock(c, p)
  PROVE  OnceInv'
<1> SUFFICES ASSUME Undisturbed' PROVE LateLasts' /\ \A x \in Clients : OnceOK(x)'
  BY DEF OnceInv
<1>0. /\ TypeOK /\ LateLasts
      /\ \A x \in Clients : OnceOK(x) /\ pkg[x] \in Packages
      /\ UNCHANGED <<mem, disk, late, conf, upstream, got, lock>>
      /\ lock[c][p] # None
  BY DEF InstallFromLock, cacheVars, worldVars, Undisturbed, OnceInv, IInv, TypeOK
<1>1. \A q \in Packages : Settled(q) => Settled(q)'
  BY <1>0, SettledStays
<1>2. LateLasts'
  BY <1>0 DEF LateLasts, Lasting
<1>3. OnceOK(c)'
  <2>1. pc'[c] = "told" /\ pkg'[c] = p /\ adv'[c] = lock[c][p] /\ missed'[c] = 0
    BY <1>0 DEF InstallFromLock, TypeOK
  <2> QED
    BY <1>0, <2>1 DEF OnceOK
<1>4. \A x \in Clients \ {c} : OnceOK(x)'
  BY <1>0, <1>1, OnceKept DEF InstallFromLock, TypeOK
<1> QED
  BY <1>2, <1>3, <1>4

(* Whoever is served has what Maker makes of the upload, and it is filed.    *)
LEMMA TarballSettles ==
  ASSUME TypeOK, NEW c \in Clients, TarballArrives(c)
  PROVE  /\ pc'[c] = "served" =>
              got'[c].rev = upstream[pkg[c]] /\ Settled(pkg[c])'
         /\ \A p \in Packages : Settled(p) => Settled(p)'
<1> DEFINE b == Upstream(pkg[c])
           clean == ~Gated(c) \/ ~HasScripts(b) \/ conf.policy = "audit"
<1>0. /\ pkg[c] \in Packages /\ conf' = conf /\ upstream' = upstream /\ pkg' = pkg
      /\ b \in Bodies /\ b.pkg = pkg[c] /\ b.by = Registry /\ b.rev = upstream[pkg[c]]
      /\ \A p \in Packages : Maker(p)' = Maker(p)
  BY UpstreamType, ConfKept DEF TarballArrives, worldVars, TypeOK, Upstream, Body
<1>a. ASSUME UNCHANGED mem
      PROVE  \A p \in Packages : Settled(p) => Settled(p)'
  BY <1>0, <1>a, SettledStays
<1>b. ASSUME Maker(pkg[c]) = Registry
      PROVE  Settled(pkg[c])'
  BY <1>0, <1>b DEF Settled
<1>2. CASE clean /\ Serve(c, b) /\ UNCHANGED <<mem, disk>>
  <2>1. Maker(pkg[c]) = Registry
    BY <1>0, <1>2 DEF Maker, Gated, HasScripts
  <2>2. got'[c] = b
    BY <1>2 DEF Serve, TypeOK
  <2> QED
    BY <1>0, <1>2, <1>a, <1>b, <2>1, <2>2
<1>3. CASE Deny(c) /\ UNCHANGED <<mem, disk>>
  <2>1. pc'[c] = "denied"
    BY <1>3 DEF Deny, TypeOK
  <2> QED
    BY <1>3, <1>a, <2>1
<1>4. CASE ~clean /\ conf.policy = "strip" /\ Strip(b) # Failed /\ ServeStripped(c)
  <2>1. Insertable(b, Strip(b)) /\ Lasting(b, Strip(b))
    BY <1>0, <1>4, StripType, StripOwn, StripLasts DEF Insertable, Gated
  <2>2. Strip(b).rev = upstream[pkg[c]]
    BY <1>0, <1>4 DEF Strip, HasScripts, Body
  <2>3. got'[c] = Strip(b) /\ Insert(b, Strip(b))
    BY <1>4 DEF ServeStripped, Serve, TypeOK
  <2> QED
    BY <1>0, <2>1, <2>2, <2>3, InsertSettles
<1>5. CASE conf.policy = "strip" /\ Strip(b) = Failed /\ Serve(c, b) /\ UNCHANGED <<mem, disk>>
  <2>1. Trait[pkg[c]] # "scripted"
    <3>1. Failed \notin StrippedBodies
      BY ValueAssumption, BodyType
    <3> QED
      BY <1>0, <1>5, <3>1, StripLasts DEF Lasting
  <2>2. Maker(pkg[c]) = Registry
    BY <2>1 DEF Maker
  <2>3. got'[c] = b
    BY <1>5 DEF Serve, TypeOK
  <2> QED
    BY <1>0, <1>5, <1>a, <1>b, <2>2, <2>3
<1> QED
  BY <1>2, <1>3, <1>4, <1>5 DEF TarballArrives

LEMMA OnceTarball ==
  ASSUME IInv, OnceInv, NEW c \in Clients, TarballArrives(c)
  PROVE  OnceInv'
<1> SUFFICES ASSUME Undisturbed' PROVE LateLasts' /\ \A x \in Clients : OnceOK(x)'
  BY DEF OnceInv
<1>0. /\ TypeOK /\ LateLasts
      /\ \A x \in Clients : OnceOK(x) /\ pkg[x] \in Packages
      /\ UNCHANGED <<late, conf, upstream, pkg, adv, lock, missed>>
      /\ pc[c] = "told"
  BY DEF TarballArrives, worldVars, Undisturbed, OnceInv, IInv, TypeOK
<1>1. /\ pc'[c] = "served" => got'[c].rev = upstream[pkg[c]] /\ Settled(pkg[c])'
      /\ \A q \in Packages : Settled(q) => Settled(q)'
  BY <1>0, TarballSettles
<1>2. LateLasts'
  BY <1>0 DEF LateLasts, Lasting
<1>3. /\ pc'[c] \in {"served", "denied"}
      /\ \A x \in Clients \ {c} : pc'[x] = pc[x] /\ got'[x] = got[x]
  <2>1. \/ pc' = [pc EXCEPT ![c] = "denied"] /\ got' = got
        \/ /\ pc' = [pc EXCEPT ![c] = "served"]
           /\ \E b \in Bodies : got' = [got EXCEPT ![c] = b]
    BY <1>0, TarballServed
  <2> QED
    BY <1>0, <2>1 DEF TypeOK
<1>4. OnceOK(c)'
  BY <1>0, <1>1, <1>3, ConfKept DEF OnceOK, Advised, PreStrip, Underway
<1>5. \A x \in Clients \ {c} : OnceOK(x)'
  BY <1>0, <1>1, <1>3, OnceKept
<1> QED
  BY <1>2, <1>4, <1>5

(* Whoever has failed once was told what Maker makes, and that is served.    *)
LEMMA OnceVerify ==
  ASSUME IInv, OnceInv, NEW c \in Clients, Verify(c)
  PROVE  OnceInv'
<1> SUFFICES ASSUME Undisturbed' PROVE LateLasts' /\ \A x \in Clients : OnceOK(x)'
  BY DEF OnceInv
<1>0. /\ TypeOK /\ LateLasts /\ ClientOK(c)
      /\ \A x \in Clients : OnceOK(x) /\ pkg[x] \in Packages
      /\ UNCHANGED <<mem, disk, late, conf, upstream, pkg, adv, got>>
      /\ pc[c] = "served"
  BY DEF Verify, cacheVars, worldVars, Undisturbed, OnceInv, IInv, TypeOK
<1>a. /\ got[c] \in Bodies /\ got[c].pkg = pkg[c] /\ got[c].by = Maker(pkg[c])
      /\ got[c].rev = upstream[pkg[c]]
      /\ adv[c] \in Bodies /\ adv[c].pkg = pkg[c] /\ adv[c].rev = upstream[pkg[c]]
  BY <1>0 DEF ClientOK, OnceOK, Advised, Told
<1>1. \A q \in Packages : Settled(q) => Settled(q)'
  BY <1>0, SettledStays
<1>2. LateLasts'
  BY <1>0 DEF LateLasts, Lasting
<1>3. OnceOK(c)'
  <2>1. CASE got[c] = adv[c]
    <3>1. /\ pc'[c] = "installed" /\ UNCHANGED missed
          /\ lock' = [lock EXCEPT ![c][pkg[c]] = adv[c]]
      BY <1>0, <2>1 DEF Verify, TypeOK
    <3>2. \A p \in Packages :
            lock'[c][p] = lock[c][p] \/ (p = pkg[c] /\ lock'[c][p] = adv[c])
      BY <1>0, <3>1 DEF TypeOK
    <3> QED
      BY <1>0, <1>a, <3>1, <3>2 DEF OnceOK, Advised, PreStrip, Underway
  <2>2. CASE got[c] # adv[c]
    <3>1. missed[c] = 0
      <4>1. adv[c].by # Maker(pkg[c])
        BY <1>a, <2>2, SameBody
      <4>2. missed[c] \in Nat
        BY <1>0, BoundAssumption DEF TypeOK
      <4> QED
        BY <1>0, <4>1, <4>2 DEF OnceOK, Advised
    <3>2. /\ pc'[c] = "mismatch" /\ UNCHANGED lock
          /\ missed'[c] = IF missed[c] < MaxMissed THEN missed[c] + 1 ELSE missed[c]
      BY <1>0, <2>2 DEF Verify, TypeOK
    <3>3. missed'[c] <= 1
      BY <3>1, <3>2
    <3> QED
      BY <1>0, <1>1, <3>2, <3>3 DEF OnceOK, Advised, PreStrip, Underway
  <2> QED
    BY <2>1, <2>2
<1>4. \A x \in Clients \ {c} : pc'[x] = pc[x] /\ lock'[x] = lock[x] /\ missed'[x] = missed[x]
  BY <1>0 DEF Verify, TypeOK
<1>5. \A x \in Clients \ {c} : OnceOK(x)'
  BY <1>0, <1>1, <1>4, OnceKept
<1> QED
  BY <1>2, <1>3, <1>5

LEMMA OnceStutter ==
  ASSUME IInv, OnceInv, UNCHANGED vars
  PROVE  OnceInv'
<1> SUFFICES ASSUME Undisturbed' PROVE LateLasts' /\ \A x \in Clients : OnceOK(x)'
  BY DEF OnceInv
<1>0. /\ LateLasts /\ \A x \in Clients : OnceOK(x) /\ pkg[x] \in Packages
  BY DEF vars, Undisturbed, OnceInv, IInv, TypeOK
<1>1. \A q \in Packages : Settled(q) => Settled(q)'
  BY SettledStays DEF vars
<1>2. LateLasts'
  BY <1>0 DEF vars, LateLasts, Lasting
<1>3. \A x \in Clients : OnceOK(x)'
  BY <1>0, <1>1, OnceKept DEF vars
<1> QED
  BY <1>2, <1>3

LEMMA OnceNext ==
  ASSUME NoHollow, ~Conditional
  PROVE  IInv /\ OnceInv /\ [Next]_vars => OnceInv'
<1> SUFFICES ASSUME IInv, OnceInv, [Next]_vars PROVE OnceInv'
  OBVIOUS
<1>1. ASSUME NEW c \in Clients, PackumentStep(c)
      PROVE  OnceInv'
  <2>1. ~PackumentNotModified(c)
    BY DEF PackumentNotModified, NotModified
  <2> QED
    BY <1>1, <2>1, OnceRewritten, OnceLookup, OnceInsert, OnceBudget, OnceApply
    DEF PackumentStep
<1>2. ASSUME NEW c \in Clients, TarballStep(c)
      PROVE  OnceInv'
  BY <1>2, OnceTarball, OnceVerify DEF TarballStep
<1>3. ASSUME NEW c \in Clients, NEW p \in Packages,
             RequestPackument(c, p) \/ InstallFromLock(c, p)
      PROVE  OnceInv'
  BY <1>3, OnceRequest, OnceFromLock
<1>4. ASSUME NEW p \in Packages, Republish(p)
      PROVE  OnceInv'
  BY <1>4 DEF Republish, OnceInv, Undisturbed, IInv, TypeOK
<1>5. ASSUME Restart
      PROVE  OnceInv'
  BY <1>5 DEF Restart, StartAs, OnceInv, Undisturbed, IInv, TypeOK
<1> QED
  BY <1>1, <1>2, <1>3, <1>4, <1>5, OnceLate, OnceStutter DEF Next

(* A failed pre-strip costs a client one EINTEGRITY, whatever the other      *)
(* clients do and however late a pre-strip inserts: as long as the proxy and *)
(* the upload stay, the retry is told what the gate serves (proxy.rs).       *)
THEOREM OneMismatch ==
  ASSUME NoHollow, ~Conditional
  PROVE  Spec => []AtMostOneMismatch
<1>1. Spec => []OnceInv
  BY OnceInit, OnceNext, Invariance, PTL DEF Spec
<1>2. OnceInv => AtMostOneMismatch
  BY DEF OnceInv, OnceOK, Undisturbed, AtMostOneMismatch
<1> QED
  BY <1>1, <1>2, PTL

-----------------------------------------------------------------------------
(* Index documents.                                                          *)

(* A set of positions has a least one.                                       *)
LEMMA LeastOf ==
  ASSUME NEW T \in SUBSET Nat, T # {}
  PROVE  \E x \in T : \A y \in T : x <= y
<1>1. IsWellFoundedOn(OpToRel(<, Nat), Nat)
  BY NatLessThanWellFounded
<1>2. PICK x \in T : \A y \in T : ~ (<<y, x>> \in OpToRel(<, Nat))
  BY <1>1, WFMin
<1>3. \A y \in T : <<y, x>> \in OpToRel(<, Nat) <=> y < x
  BY DEF OpToRel
<1>4. \A y \in T : ~(y < x) /\ y \in Nat /\ x \in Nat
  BY <1>2, <1>3
<1>5. \A y \in T : x <= y
  BY <1>4
<1> QED BY <1>5

(* A finite set has a greatest element in any total order, or else a         *)
(* smallest set without one would lose that by the loss of an element.       *)
LEMMA GreatestOfFinite ==
  ASSUME NEW U, NEW R, \A x, y \in U : x # y => <<x, y>> \in R \/ <<y, x>> \in R,
         \A x, y, z \in U : <<x, y>> \in R /\ <<y, z>> \in R => <<x, z>> \in R,
         NEW S \in SUBSET U, IsFiniteSet(S), S # {}
  PROVE  \E x \in S : \A y \in S \ {x} : <<x, y>> \in R
<1> DEFINE Bad(A) == A \in SUBSET U /\ IsFiniteSet(A) /\ A # {} /\ ~\E x \in A : \A y \in A \ {x} : <<x, y>> \in R
           T == {n \in Nat : \E A \in SUBSET U : Bad(A) /\ Cardinality(A) = n}
<1> SUFFICES ASSUME Bad(S)
             PROVE  FALSE
  OBVIOUS
<1>1. Cardinality(S) \in T
  BY FS_CardinalityType
<1>2. PICK n \in T : \A k \in T : n <= k
  <2>1. T \in SUBSET Nat /\ T # {}
    BY <1>1
  <2> HIDE DEF T
  <2> QED
    BY <2>1, LeastOf
<1>3. PICK A \in SUBSET U : Bad(A) /\ Cardinality(A) = n
  BY <1>2
<1>4. PICK a \in A : TRUE
  BY <1>3
<1>5. PICK B : B = A \ {a}
  OBVIOUS
<1>6. IsFiniteSet(B) /\ Cardinality(B) = n - 1 /\ n \in Nat /\ Cardinality(B) \in Nat
  <2>1. IsFiniteSet(A) /\ Cardinality(A) = n /\ n \in Nat
    BY <1>2, <1>3
  <2>2. IsFiniteSet(A \ {a}) /\ Cardinality(A \ {a}) = n - 1
    BY <1>4, <2>1, FS_RemoveElement
  <2> QED
    BY <1>5, <2>1, <2>2, FS_CardinalityType
<1>7. ~Bad(B)
  <2> SUFFICES ASSUME Bad(B)
               PROVE  FALSE
    OBVIOUS
  <2>1. Cardinality(B) \in T
    BY <1>6
  <2> HIDE DEF T
  <2>2. n <= Cardinality(B)
    BY <1>2, <2>1
  <2> QED
    BY <1>6, <2>2
<1>8. CASE B = {}
  BY <1>3, <1>4, <1>5, <1>8
<1>9. CASE B # {}
  <2>1. PICK b \in B : \A y \in B \ {b} : <<b, y>> \in R
    BY <1>3, <1>5, <1>6, <1>7, <1>9
  <2>2. CASE <<b, a>> \in R
    BY <1>3, <1>5, <2>1, <2>2
  <2>3. CASE <<a, b>> \in R
    <3>1. \A y \in A \ {a} : <<a, y>> \in R
      BY <1>3, <1>4, <1>5, <2>1, <2>3
    <3> QED
      BY <1>3, <1>4, <3>1
  <2> QED
    BY <1>3, <1>4, <1>5, <2>1, <2>2, <2>3
<1> QED
  BY <1>8, <1>9

(* The order of the versions of npm is total: of those that are left one is  *)
(* the newest.                                                               *)
LEMMA NewestIsLeft ==
  ASSUME NEW left \in SUBSET Versions, left # {}
  PROVE  Newest(left) \in left
<1>1. PICK R : R = {p \in Versions \X Versions : Above(p[1], p[2])}
  OBVIOUS
<1>2. \A v, w \in Versions : <<v, w>> \in R <=> Above(v, w)
  BY <1>1
<1>3. \A v, w \in Versions : v # w => Above(v, w) \/ Above(w, v)
  BY IndexAssumption DEF Above
<1>4. \A u, v, w \in Versions : Above(u, v) /\ Above(v, w) => Above(u, w)
  BY IndexAssumption DEF Above
<1>5. IsFiniteSet(left)
  BY IndexAssumption, FS_Subset
<1>6. \E x \in left : \A y \in left \ {x} : <<x, y>> \in R
  <2>1. \A x, y \in Versions : x # y => <<x, y>> \in R \/ <<y, x>> \in R
    BY <1>2, <1>3
  <2>2. \A x, y, z \in Versions : <<x, y>> \in R /\ <<y, z>> \in R => <<x, z>> \in R
    BY <1>2, <1>4
  <2> QED
    BY <1>5, <2>1, <2>2, GreatestOfFinite
<1> QED
  BY <1>2, <1>6 DEF Newest

(* Of dates one is the earliest: the greatest, as ages.                      *)
LEMMA OneIsEarliest ==
  ASSUME NEW D \in SUBSET Ages, D # {}
  PROVE  \E x \in D : \A y \in D : y <= x
<1>1. Ages \subseteq Int /\ IsFiniteSet(D)
  BY IndexAssumption, FS_Subset
<1>2. PICK R : R = {p \in Ages \X Ages : p[1] >= p[2]}
  OBVIOUS
<1>3. \A x, y \in Ages : <<x, y>> \in R <=> x >= y
  BY <1>2
<1>4. \A x, y \in Ages : x # y => <<x, y>> \in R \/ <<y, x>> \in R
  BY <1>1, <1>3
<1>5. \A x, y, z \in Ages : <<x, y>> \in R /\ <<y, z>> \in R => <<x, z>> \in R
  BY <1>1, <1>3
<1>6. PICK x \in D : \A y \in D \ {x} : <<x, y>> \in R
  BY <1>1, <1>4, <1>5, GreatestOfFinite
<1>7. ASSUME NEW y \in D
      PROVE  y <= x
  <2>1. x \in Int /\ y \in Int /\ x \in Ages /\ y \in Ages
    BY <1>1
  <2>2. y = x \/ x >= y
    BY <1>3, <1>6, <2>1
  <2> QED
    BY <2>1, <2>2
<1> QED
  BY <1>7

(* A release is as old as its oldest file: of its dates the earliest is one  *)
(* of theirs, and none is earlier.                                           *)
LEMMA EarliestIsOne ==
  ASSUME NEW files \in SUBSET Upload, NEW f \in files, f.date # NoDate
  PROVE  /\ Earliest(files) \in Ages /\ f.date <= Earliest(files)
         /\ \E g \in files : g.date = Earliest(files)
<1> DEFINE dates == {g.date : g \in files} \ {NoDate}
<1>1. dates \subseteq Ages /\ f.date \in dates
  BY DEF Upload, Dates
<1>2. Earliest(files) = CHOOSE d \in dates : \A e \in dates : e <= d
  BY <1>1 DEF Earliest
<1>3. Earliest(files) \in dates /\ \A e \in dates : e <= Earliest(files)
  <2> HIDE DEF dates
  <2>1. \E x \in dates : \A y \in dates : y <= x
    BY <1>1, OneIsEarliest
  <2>2. PICK e : e = Earliest(files)
    OBVIOUS
  <2>3. e = CHOOSE d \in dates : \A x \in dates : x <= d
    BY <1>2, <2>2
  <2>4. e \in dates /\ \A x \in dates : x <= e
    BY <2>1, <2>3
  <2> QED
    BY <2>2, <2>4
<1> QED
  BY <1>1, <1>3

LEMMA YoungOnce ==
  ASSUME NEW c \in Nat, NEW d
  PROVE  /\ ~Young(d, c) => ~Young(d, c + 1)
         /\ ~Young(NoDate, c)
<1>1. Ages \subseteq Int /\ MinAge \in Int /\ NoDate \notin Int
  BY IndexAssumption
<1>2. ~Young(NoDate, c)
  BY <1>1 DEF Young
<1>3. CASE d \in Ages
  <2>1. d \in Int
    BY <1>1, <1>3
  <2>2. ~(d + c < MinAge) => ~(d + (c + 1) < MinAge)
    BY <1>1, <2>1
  <2> QED
    BY <1>2, <1>3, <2>2 DEF Young
<1>4. CASE d \notin Ages
  BY <1>2, <1>4 DEF Young
<1> QED
  BY <1>3, <1>4

LEMMA AgedGrows ==
  ASSUME NEW c \in Nat, NEW S
  PROVE  Aged(S, c) \subseteq Aged(S, c + 1)
BY YoungOnce DEF Aged

(* A release whose earliest date is not young has a file that is not, if it  *)
(* has any; and the other way round, if that file has a date.                *)
LEMMA ReleaseAge ==
  ASSUME NEW c \in Nat, NEW files \in SUBSET Upload
  PROVE  /\ ~Young(Earliest(files), c) /\ files # {} => Aged(files, c) # {}
         /\ \A f \in Aged(files, c) : f.date # NoDate => ~Young(Earliest(files), c)
<1>1. ASSUME ~Young(Earliest(files), c), files # {}
      PROVE  Aged(files, c) # {}
  <2>1. PICK f \in files : TRUE
    BY <1>1
  <2>2. CASE f.date = NoDate
    BY <2>1, <2>2, YoungOnce DEF Aged
  <2>3. CASE f.date # NoDate
    <3>1. PICK g \in files : g.date = Earliest(files)
      BY <2>3, EarliestIsOne
    <3> QED
      BY <1>1, <3>1 DEF Aged
  <2> QED
    BY <2>2, <2>3
<1>2. ASSUME NEW f \in Aged(files, c), f.date # NoDate
      PROVE  ~Young(Earliest(files), c)
  <2>1. f \in files /\ ~Young(f.date, c)
    BY DEF Aged
  <2>2. PICK e : e = Earliest(files)
    OBVIOUS
  <2>3. e \in Ages /\ f.date <= e
    BY <1>2, <2>1, <2>2, EarliestIsOne
  <2>4. f.date \in Ages /\ Ages \subseteq Int /\ MinAge \in Int
    BY <1>2, <2>1, IndexAssumption DEF Upload, Dates
  <2>5. ~(f.date + c < MinAge)
    BY <2>1, <2>4 DEF Young
  <2>6. PICK d : d = f.date
    OBVIOUS
  <2>7. ~(e + c < MinAge)
    <3>1. d \in Int /\ e \in Int /\ d <= e /\ ~(d + c < MinAge) /\ MinAge \in Int
      BY <2>3, <2>4, <2>5, <2>6
    <3> QED
      BY <3>1
  <2>8. ~Young(e, c)
    BY <2>7 DEF Young
  <2> QED
    BY <2>2, <2>8
<1> QED
  BY <1>1, <1>2

-----------------------------------------------------------------------------
(* What the answers so far have in common: what they offered is still to be  *)
(* offered, by the same registry.                                            *)
RegistryOK ==
  \/ registry = NoRegistry
  \/ registry.eco = "pypi" /\ registry.doc \in Projects
  \/ registry.eco = "npm" /\ registry.doc \in Packuments /\ registry.strict \in BOOLEAN
  \/ registry.eco = "nuget" /\ registry.doc \in Indexes
  \/ registry.eco = "gallery" /\ registry.doc \in Extensions
  \/ registry.eco = "crates" /\ registry.doc \in CrateLines

Listed(v) == \E k \in DOMAIN registry.doc : v \in VersionsIn(registry.doc[k].leaves)

Held(form, v) ==
  /\ MayBeNamed(form, v, clock)
  /\ form \in {"api", "simple", "html"} => registry.eco = "pypi"
  /\ form = "packument" => registry.eco = "npm"
  /\ form \in {"index", "page", "flat"} => registry.eco = "nuget" /\ Listed(v)
  /\ form = "query" =>
       /\ registry.eco = "gallery"
       /\ \E x \in DOMAIN registry.doc : \E e \in Aged(registry.doc[x], clock) : v = <<x, e.version>>
  /\ form = "lines" =>
       registry.eco = "crates" /\ \E l \in registry.doc : l.version = v /\ LineKept(l, {}, registry.strict, clock)

AllHeld == \A form \in IndexForms : \A v \in offered[form] : Held(form, v)

IndexInv ==
  /\ RegistryOK /\ clock \in Nat /\ DOMAIN offered = IndexForms
  /\ registry = NoRegistry => given.form = "none" /\ \A form \in IndexForms : offered[form] = {}
  /\ AllHeld /\ AnswersAgree /\ ReferencesResolve

(* What a form's answer has to name of the versions offered.                 *)
Due(form, v) ==
  /\ form \in {"api", "simple", "html"} => v \in Readable
  /\ form = "packument" => v \in registry.doc.versions
  /\ form = "index" => v \in NamedBy("index", registry.doc)
  /\ form # "page"

\* What an answer adds to the versions offered.
OfferedBy(form, doc, dated) ==
  /\ DOMAIN offered' = IndexForms
  /\ \A f \in IndexForms : \A v :
       v \in offered'[f] <=> v \in offered[f] \/ (dated /\ f = form /\ v \in NamedBy(form, doc))

LEMMA GiveUndatedEffect ==
  ASSUME DOMAIN offered = IndexForms, NEW form \in IndexForms, NEW doc, NEW dated \in BOOLEAN, NEW unread,
         GiveUndated(form, doc, dated, unread)
  PROVE  /\ given'.form = form /\ given'.doc = doc /\ given'.unread = unread /\ UNCHANGED <<registry, clock>>
         /\ OfferedBy(form, doc, dated)
<1>1. PICK named : named = NamedBy(form, doc)
  OBVIOUS
<1>2. /\ given' = [form |-> form, doc |-> doc, unread |-> unread] /\ UNCHANGED <<registry, clock>>
      /\ offered' = IF dated THEN [offered EXCEPT ![form] = @ \cup named] ELSE offered
  BY <1>1 DEF GiveUndated
<1> QED
  BY <1>1, <1>2 DEF OfferedBy

LEMMA GiveEffect ==
  ASSUME DOMAIN offered = IndexForms, NEW form \in IndexForms, NEW doc, NEW dated \in BOOLEAN,
         Give(form, doc, dated)
  PROVE  given'.form = form /\ given'.doc = doc /\ UNCHANGED <<registry, clock>>
<1>1. GiveUndated(form, doc, dated, {})
  BY DEF Give
<1> QED
  BY <1>1, GiveUndatedEffect

(* An answer that only names what is to be offered, and all of it that is    *)
(* due, keeps what they have in common.                                      *)
LEMMA GiveUndatedKeeps ==
  ASSUME IndexInv, NEW form \in IndexForms, NEW doc, NEW dated \in BOOLEAN, NEW unread,
         GiveUndated(form, doc, dated, unread), registry # NoRegistry,
         dated => \A v \in NamedBy(form, doc) : Held(form, v),
         \A f \in IndexForms : \A v :
           Held(f, v) /\ Due(form, v) /\ ~(form = "lines" /\ registry.strict /\ v \in unread) =>
             v \in NamedBy(form, doc),
         ReferencesResolve'
  PROVE  IndexInv'
<1>0. DOMAIN offered = IndexForms
  BY DEF IndexInv
<1>e. /\ given'.form = form /\ given'.doc = doc /\ given'.unread = unread /\ UNCHANGED <<registry, clock>>
      /\ OfferedBy(form, doc, dated)
  BY <1>0, GiveUndatedEffect
<1>1. /\ given'.form = form /\ given'.doc = doc /\ given'.unread = unread /\ UNCHANGED <<registry, clock>>
      /\ DOMAIN offered' = IndexForms
      /\ \A f \in IndexForms : \A v :
            v \in offered'[f] <=> v \in offered[f] \/ (dated /\ f = form /\ v \in NamedBy(form, doc))
  BY <1>e DEF OfferedBy
<1>2. ASSUME NEW f \in IndexForms, NEW v \in offered'[f]
      PROVE  Held(f, v)
  BY <1>1 DEF IndexInv, AllHeld
<1>3. AllHeld'
  <2> SUFFICES ASSUME NEW f \in IndexForms, NEW v \in offered'[f]
               PROVE  Held(f, v)'
    BY DEF AllHeld
  <2>1. MayBeNamed(f, v, clock)' = MayBeNamed(f, v, clock)
    BY <1>1 DEF MayBeNamed, UploadsOf
  <2>2. Listed(v)' = Listed(v)
    BY <1>1 DEF Listed
  <2> QED
    BY <1>1, <1>2, <2>1, <2>2 DEF Held
<1>4. ASSUME NEW v \in UNION {offered'[f] : f \in IndexForms}, v \in Expected(given.form)'
      PROVE  v \in NamedBy(form, doc)
  <2>1. PICK f \in IndexForms : v \in offered'[f]
    OBVIOUS
  <2>2. Due(form, v)
    BY <1>1, <1>4 DEF Expected, Due, Readable, UploadsOf
  <2>3. ~(form = "lines" /\ registry.strict /\ v \in unread)
    BY <1>1, <1>4 DEF Expected
  <2> QED
    BY <1>2, <2>1, <2>2, <2>3
<1>5. NamedBy(given.form, given.doc)' = NamedBy(form, doc)
  BY <1>1
<1>6. AnswersAgree'
  <2>1. PICK offers : offers = UNION {offered'[f] : f \in IndexForms}
    OBVIOUS
  <2>2. offers \cap Expected(given.form)' \subseteq NamedBy(given.form, given.doc)'
    BY <1>4, <1>5, <2>1
  <2> QED
    BY <2>1, <2>2 DEF AnswersAgree
<1> QED
  BY <1>1, <1>3, <1>6 DEF IndexInv, RegistryOK

LEMMA GiveKeeps ==
  ASSUME IndexInv, NEW form \in IndexForms, NEW doc, NEW dated \in BOOLEAN, Give(form, doc, dated),
         registry # NoRegistry,
         dated => \A v \in NamedBy(form, doc) : Held(form, v),
         \A f \in IndexForms : \A v : Held(f, v) /\ Due(form, v) => v \in NamedBy(form, doc),
         ReferencesResolve'
  PROVE  IndexInv'
<1>1. GiveUndated(form, doc, dated, {})
  BY DEF Give
<1> QED
  BY <1>1, GiveUndatedKeeps

-----------------------------------------------------------------------------
LEMMA RegistryKinds ==
  ASSUME RegistryOK
  PROVE  /\ registry.eco \in {"pypi", "npm", "nuget", "gallery", "crates"} => registry # NoRegistry
         /\ registry.eco = "pypi" => registry.doc \in Projects
         /\ registry.eco = "npm" => registry.doc \in Packuments /\ registry.strict \in BOOLEAN
         /\ registry.eco = "nuget" => registry.doc \in Indexes
         /\ registry.eco = "gallery" => registry.doc \in Extensions
         /\ registry.eco = "crates" => registry.doc \in CrateLines
<1>1. NoRegistry.eco = "none"
  BY DEF NoRegistry
<1> QED
  BY <1>1 DEF RegistryOK

(* What each form's document names.                                          *)
LEMMA NamedByForms ==
  ASSUME NEW doc
  PROVE  /\ NamedBy("api", doc) = DOMAIN doc.releases \cup VersionsIn(doc.urls)
         /\ NamedBy("simple", doc) = doc.versions \cup VersionsIn(doc.files)
         /\ NamedBy("html", doc) = VersionsIn(doc) /\ NamedBy("lines", doc) = VersionsIn(doc)
         /\ NamedBy("packument", doc) = doc.versions \cup {doc.tags[t] : t \in DOMAIN doc.tags}
         /\ NamedBy("index", doc) = UNION {VersionsIn(doc[k].leaves) : k \in {j \in DOMAIN doc : doc[j].inline}}
         /\ NamedBy("page", doc) = VersionsIn(doc.leaves)
         /\ NamedBy("flat", doc) = doc
         /\ NamedBy("query", doc) = UNION {{<<x, e.version>> : e \in doc[x]} : x \in DOMAIN doc}
BY DEF NamedBy

(* PyPI: a version that a form has offered has a file that is not young, if  *)
(* it has any and they can all be read.                                      *)
LEMMA ReadableIsAged ==
  ASSUME RegistryOK, registry.eco = "pypi", NEW form \in IndexForms, NEW v, Held(form, v), v \in Readable
  PROVE  /\ Aged(UploadsOf(v), clock) # {}
         /\ v \in registry.doc.listed /\ UploadsOf(v) \in SUBSET Upload
<1>1. form \in {"api", "simple", "html"}
  BY DEF Held, IndexForms
<1>2. UploadsOf(v) # {} /\ \A f \in UploadsOf(v) : f.date # NoDate /\ f.reads = v
  BY DEF Readable
<1>3. registry.doc \in Projects
  BY RegistryKinds
<1>4. v \in registry.doc.listed /\ UploadsOf(v) \in SUBSET Upload
  BY <1>2, <1>3, IndexAssumption DEF UploadsOf
<1>5. v # NoVersion
  BY IndexAssumption DEF Readable
<1>6. Aged(UploadsOf(v), clock) # {}
  <2>1. CASE form = "html"
    <3>1. \E f \in UploadsOf(v) : ~Young(f.date, clock) \/ f.reads = NoVersion
      BY <2>1 DEF Held, MayBeNamed
    <3> QED
      BY <1>2, <1>5, <3>1 DEF Aged
  <2>2. CASE form \in {"api", "simple"}
    BY <1>2, <2>2 DEF Held, MayBeNamed
  <2> QED
    BY <1>1, <2>1, <2>2
<1> QED
  BY <1>4, <1>6

LEMMA ApiKeeps ==
  ASSUME IndexInv, AnswerApi
  PROVE  IndexInv'
<1> DEFINE p == registry.doc
           doc == RewrittenApi(ApiDoc(p), clock)
           c == clock
           urls == {f \in p.files : \A v \in p.listed : Rank[v] <= Rank[f.version]}
<1>1. /\ registry.eco = "pypi" /\ Give("api", doc, TRUE) /\ registry # NoRegistry
      /\ p \in Projects /\ c \in Nat
  <2>1. registry.eco = "pypi" /\ Give("api", doc, TRUE)
    BY DEF AnswerApi
  <2> HIDE DEF doc
  <2> QED
    BY <2>1, RegistryKinds DEF IndexInv
<1>2. /\ p.files \subseteq Upload /\ p.listed \subseteq Versions
      /\ \A f \in p.files : f.version \in p.listed
  BY <1>1, IndexAssumption
<1>3. \A v : UploadsOf(v) = {f \in p.files : f.version = v} /\ UploadsOf(v) \in SUBSET Upload
  BY <1>2 DEF UploadsOf
<1>4. /\ DOMAIN doc.releases = {v \in p.listed : ~Young(Earliest(UploadsOf(v)), c)}
      /\ \A v \in DOMAIN doc.releases : doc.releases[v] = UploadsOf(v)
      /\ doc.urls = Aged(urls, c)
  BY <1>3 DEF RewrittenApi, ApiDoc
<1> HIDE DEF doc
<1>5. ASSUME NEW f \in doc.urls
      PROVE  f \in UploadsOf(f.version) /\ f \in Aged(UploadsOf(f.version), c) /\ f.version \in p.listed
  BY <1>2, <1>3, <1>4 DEF Aged
<1>6. ASSUME NEW v \in NamedBy("api", doc)
      PROVE  Held("api", v)
  <2>1. v \in DOMAIN doc.releases \/ \E f \in doc.urls : f.version = v
    BY NamedByForms DEF VersionsIn
  <2>2. UploadsOf(v) = {} \/ Aged(UploadsOf(v), c) # {}
    BY <1>1, <1>3, <1>4, <1>5, <2>1, ReleaseAge
  <2> QED
    BY <1>1, <2>2 DEF Held, MayBeNamed
<1>7. ASSUME NEW form \in IndexForms, NEW v, Held(form, v), Due("api", v)
      PROVE  v \in NamedBy("api", doc)
  <2>1. v \in Readable
    BY <1>7 DEF Due
  <2>2. /\ Aged(UploadsOf(v), c) # {} /\ v \in p.listed
    BY <1>1, <1>7, <2>1, ReadableIsAged DEF IndexInv
  <2>3. PICK f \in Aged(UploadsOf(v), c) : TRUE
    BY <2>2
  <2>4. f.date # NoDate
    BY <2>1, <2>3 DEF Readable, Aged
  <2>5. ~Young(Earliest(UploadsOf(v)), c)
    BY <1>1, <1>3, <2>3, <2>4, ReleaseAge
  <2> QED
    BY <1>4, <2>2, <2>5, NamedByForms
<1>8. given'.form = "api" /\ given'.doc = doc /\ UNCHANGED registry
  BY <1>1, GiveEffect DEF IndexForms, IndexInv
<1>9. ASSUME NEW f \in doc.urls, f.date # NoDate
      PROVE  f.version \in DOMAIN doc.releases /\ f \in doc.releases[f.version]
  <2>1. ~Young(Earliest(UploadsOf(f.version)), c)
    BY <1>1, <1>3, <1>5, <1>9, ReleaseAge
  <2> QED
    BY <1>4, <1>5, <2>1
<1>10. ReferencesResolve'
  BY <1>8, <1>9 DEF ReferencesResolve, TagsResolve, CountsFit, FilesResolve
<1> QED
  BY <1>1, <1>6, <1>7, <1>10, GiveKeeps DEF IndexForms

LEMMA SimpleKeeps ==
  ASSUME IndexInv, AnswerSimple
  PROVE  IndexInv'
<1> DEFINE p == registry.doc
           doc == RewrittenSimple(SimpleDoc(p), clock)
           c == clock
<1>1. /\ registry.eco = "pypi" /\ Give("simple", doc, TRUE) /\ registry # NoRegistry
      /\ p \in Projects /\ c \in Nat
  <2>1. registry.eco = "pypi" /\ Give("simple", doc, TRUE)
    BY DEF AnswerSimple
  <2> HIDE DEF doc
  <2> QED
    BY <2>1, RegistryKinds DEF IndexInv
<1>2. /\ p.files \subseteq Upload /\ p.listed \subseteq Versions /\ NoVersion \notin Versions
      /\ \A f \in p.files : f.version \in p.listed /\ f.reads \in {f.version, NoVersion}
  BY <1>1, IndexAssumption
<1>3. \A v : UploadsOf(v) = {f \in p.files : f.version = v} /\ UploadsOf(v) \in SUBSET Upload
  BY <1>2 DEF UploadsOf
<1>4. /\ doc.files = Aged(p.files, c)
      /\ doc.versions = IF doc.files = p.files THEN p.listed ELSE p.listed \cap {f.reads : f \in doc.files}
  BY DEF RewrittenSimple, SimpleDoc
<1> HIDE DEF doc
<1>5. ASSUME NEW f \in doc.files
      PROVE  f \in Aged(UploadsOf(f.version), c)
  BY <1>3, <1>4 DEF Aged
<1>6. ASSUME NEW v \in doc.versions, doc.files # p.files
      PROVE  \E f \in doc.files : f.version = v
  BY <1>2, <1>4, <1>6 DEF Aged
<1>7. ASSUME NEW v \in NamedBy("simple", doc)
      PROVE  Held("simple", v)
  <2>1. v \in doc.versions \/ \E f \in doc.files : f.version = v
    BY NamedByForms DEF VersionsIn
  <2>2. UploadsOf(v) = {} \/ Aged(UploadsOf(v), c) # {}
    BY <1>3, <1>4, <1>5, <1>6, <2>1
  <2> QED
    BY <1>1, <2>2 DEF Held, MayBeNamed
<1>8. ASSUME NEW form \in IndexForms, NEW v, Held(form, v), Due("simple", v)
      PROVE  v \in NamedBy("simple", doc)
  <2>1. v \in Readable
    BY <1>8 DEF Due
  <2>2. Aged(UploadsOf(v), c) # {}
    BY <1>1, <1>8, <2>1, ReadableIsAged DEF IndexInv
  <2>3. PICK f \in doc.files : f.version = v
    BY <1>3, <1>4, <2>2 DEF Aged
  <2> QED
    BY <2>3, NamedByForms DEF VersionsIn
<1>9. given'.form = "simple" /\ given'.doc = doc /\ UNCHANGED registry
  BY <1>1, GiveEffect DEF IndexForms, IndexInv
<1>10. doc.versions = p.listed \/ \A v \in doc.versions : \E f \in doc.files : f.version = v
  BY <1>4, <1>6
<1>11. ReferencesResolve'
  BY <1>9, <1>10 DEF ReferencesResolve, TagsResolve, CountsFit, FilesResolve
<1> QED
  BY <1>1, <1>7, <1>8, <1>11, GiveKeeps DEF IndexForms

LEMMA HtmlKeeps ==
  ASSUME IndexInv, NEW found \in BOOLEAN, AnswerHtml(found)
  PROVE  IndexInv'
<1> DEFINE p == registry.doc
           dates == PypiDates(ApiDoc(p), found)
           doc == RewrittenHtml(p.files, dates, clock)
           c == clock
<1>1. /\ registry.eco = "pypi" /\ Give("html", doc, found) /\ registry # NoRegistry
      /\ p \in Projects /\ c \in Nat
  <2>1. registry.eco = "pypi" /\ Give("html", doc, found)
    BY DEF AnswerHtml
  <2> HIDE DEF doc
  <2> QED
    BY <2>1, RegistryKinds DEF IndexInv
<1>2. /\ p.files \subseteq Upload /\ p.listed \subseteq Versions /\ NoVersion \notin Versions
      /\ \A f \in p.files : f.version \in p.listed /\ f.reads \in {f.version, NoVersion}
  BY <1>1, IndexAssumption
<1>3. \A v : UploadsOf(v) = {f \in p.files : f.version = v} /\ UploadsOf(v) \in SUBSET Upload
  BY <1>2 DEF UploadsOf
<1>4. \A v \in p.listed : dates[v] = IF found THEN Earliest(UploadsOf(v)) ELSE NoDate
  BY <1>2, <1>3 DEF PypiDates, ApiDoc
<1> HIDE DEF dates
<1>5. \A f : f \in doc <=> f \in p.files /\ (f.reads = NoVersion \/ ~Young(dates[f.reads], c))
  BY DEF RewrittenHtml
<1> HIDE DEF doc
<1>6. ASSUME found, NEW v \in NamedBy("html", doc)
      PROVE  Held("html", v)
  <2>1. PICK f \in doc : f.version = v
    BY NamedByForms DEF VersionsIn
  <2>2. f \in UploadsOf(v) /\ v \in p.listed /\ f.reads \in {v, NoVersion}
    BY <1>2, <1>3, <1>5, <2>1
  <2>3. CASE f.reads = v /\ v # NoVersion
    <3>1. ~Young(Earliest(UploadsOf(v)), c)
      BY <1>4, <1>5, <1>6, <2>1, <2>2, <2>3
    <3>2. Aged(UploadsOf(v), c) # {}
      BY <1>1, <1>3, <2>2, <3>1, ReleaseAge
    <3>3. \E g \in UploadsOf(v) : ~Young(g.date, c)
      BY <3>2 DEF Aged
    <3> QED
      BY <1>1, <3>3 DEF Held, MayBeNamed
  <2>4. CASE f.reads = NoVersion
    BY <1>1, <2>2, <2>4 DEF Held, MayBeNamed
  <2> QED
    BY <2>2, <2>3, <2>4
<1>7. ASSUME NEW form \in IndexForms, NEW v, Held(form, v), Due("html", v)
      PROVE  v \in NamedBy("html", doc)
  <2>1. v \in Readable
    BY <1>7 DEF Due
  <2>2. Aged(UploadsOf(v), c) # {} /\ v \in p.listed
    BY <1>1, <1>7, <2>1, ReadableIsAged DEF IndexInv
  <2>3. PICK f \in Aged(UploadsOf(v), c) : TRUE
    BY <2>2
  <2>4. f \in UploadsOf(v) /\ f.date # NoDate /\ f.reads = v
    BY <2>1, <2>3 DEF Readable, Aged
  <2>5. ~Young(Earliest(UploadsOf(v)), c)
    BY <1>1, <1>3, <2>3, <2>4, ReleaseAge
  <2>6. ~Young(dates[v], c)
    BY <1>1, <1>4, <2>2, <2>5, YoungOnce
  <2>7. f \in doc /\ f.version = v
    BY <1>3, <1>5, <2>4, <2>6
  <2> QED
    BY <2>7, NamedByForms DEF VersionsIn
<1>8. given'.form = "html" /\ given'.doc = doc /\ UNCHANGED registry
  BY <1>1, GiveEffect DEF IndexForms, IndexInv
<1>9. ReferencesResolve'
  BY <1>8 DEF ReferencesResolve, TagsResolve, CountsFit, FilesResolve
<1> QED
  BY <1>1, <1>6, <1>7, <1>9, GiveKeeps DEF IndexForms

LEMMA DroppedIs ==
  ASSUME NEW doc, NEW require \in BOOLEAN, NEW c, NEW v
  PROVE  v \in Dropped(doc, require, c) <=> (v \in DOMAIN doc.time /\ Young(doc.time[v], c))
                                             \/ (require /\ v \in doc.versions /\ v \notin doc.proven)
<1>1. CASE require
  <2>1. Dropped(doc, require, c) = {w \in DOMAIN doc.time : Young(doc.time[w], c)} \cup (doc.versions \ doc.proven)
    BY <1>1 DEF Dropped
  <2> QED
    BY <1>1, <2>1
<1>2. CASE ~require
  <2>1. Dropped(doc, require, c) = {w \in DOMAIN doc.time : Young(doc.time[w], c)}
    BY <1>2 DEF Dropped
  <2> QED
    BY <1>2, <2>1
<1> QED
  BY <1>1, <1>2

LEMMA PackumentKeeps ==
  ASSUME IndexInv, AnswerPackument
  PROVE  IndexInv'
<1> DEFINE p == registry.doc
           doc == RewrittenPackument(p, registry.strict, clock)
           dropped == Dropped(p, registry.strict, clock)
           left == p.versions \ dropped
           c == clock
<1>1. /\ registry.eco = "npm" /\ Give("packument", doc, TRUE) /\ registry # NoRegistry
      /\ p \in Packuments /\ registry.strict \in BOOLEAN /\ c \in Nat
  <2>1. registry.eco = "npm" /\ Give("packument", doc, TRUE)
    BY DEF AnswerPackument
  <2> HIDE DEF doc
  <2> QED
    BY <2>1, RegistryKinds DEF IndexInv
<1>2. p.versions \subseteq Versions
  BY <1>1, IndexAssumption
<1>3. \A v : v \in dropped <=> (v \in DOMAIN p.time /\ Young(p.time[v], c))
                             \/ (registry.strict /\ v \in p.versions /\ v \notin p.proven)
  BY <1>1, DroppedIs
<1>4. left # {} => Newest(left) \in left
  BY <1>2, NewestIsLeft
<1>5. /\ doc.versions = left
      /\ DOMAIN doc.tags = {t \in DOMAIN p.tags : p.tags[t] \notin dropped \/ left # {}}
      /\ \A t \in DOMAIN doc.tags : doc.tags[t] = IF p.tags[t] \in dropped THEN Newest(left) ELSE p.tags[t]
  BY DEF RewrittenPackument, TagTo
<1> HIDE DEF doc, dropped
<1>6. \A t \in DOMAIN doc.tags : doc.tags[t] \in left \/ (doc.tags[t] = p.tags[t] /\ p.tags[t] \notin dropped)
  BY <1>4, <1>5
<1>7. ASSUME NEW v \in NamedBy("packument", doc)
      PROVE  Held("packument", v)
  <2>1. v \in left \/ \E t \in DOMAIN doc.tags : v = doc.tags[t]
    <3>1. v \in doc.versions \cup {doc.tags[t] : t \in DOMAIN doc.tags}
      BY NamedByForms
    <3> QED
      BY <1>5, <3>1
  <2>2. v \notin dropped
    BY <1>6, <2>1
  <2>3. /\ v \in DOMAIN p.time => ~Young(p.time[v], c)
        /\ registry.strict /\ v \in p.versions => v \in p.proven
    BY <1>3, <2>2
  <2>4. MayBeNamed("packument", v, c)
    BY <2>3 DEF MayBeNamed
  <2> QED
    BY <1>1, <2>4 DEF Held
<1>8. ASSUME NEW form \in IndexForms, NEW v, Held(form, v), Due("packument", v)
      PROVE  v \in NamedBy("packument", doc)
  <2>1. form = "packument" /\ v \in p.versions
    BY <1>1, <1>8 DEF Held, Due, IndexForms
  <2>2. v \notin dropped
    BY <1>3, <1>8, <2>1 DEF Held, MayBeNamed
  <2> QED
    BY <1>5, <2>1, <2>2, NamedByForms
<1>9. given'.form = "packument" /\ given'.doc = doc /\ UNCHANGED registry
  BY <1>1, GiveEffect DEF IndexForms, IndexInv
<1>10. /\ (\A t \in DOMAIN p.tags : p.tags[t] \in p.versions) => \A t \in DOMAIN doc.tags : doc.tags[t] \in doc.versions
       /\ DOMAIN doc.tags = DOMAIN p.tags \/ doc.versions = {}
  BY <1>5, <1>6
<1>11. ReferencesResolve'
  BY <1>9, <1>10 DEF ReferencesResolve, TagsResolve, CountsFit, FilesResolve
<1> QED
  BY <1>1, <1>7, <1>8, <1>11, GiveKeeps DEF IndexForms

(* NuGet: a version has one leaf, in one page.                               *)
LEMMA PagesAre ==
  ASSUME RegistryOK, registry.eco = "nuget"
  PROVE  \A j, k \in DOMAIN registry.doc : \A d \in registry.doc[j].leaves, e \in registry.doc[k].leaves :
           d.version = e.version => j = k /\ d = e
BY RegistryKinds, IndexAssumption

LEMMA LeafIsAged ==
  ASSUME RegistryOK, registry.eco = "nuget", NEW form \in IndexForms, NEW v, Held(form, v),
         NEW k \in DOMAIN registry.doc, NEW e \in registry.doc[k].leaves, e.version = v,
         form = "flat" => e \in LeavesRead(registry.doc, Followed(registry.doc))
  PROVE  ~Young(e.date, clock)
<1>1. form \in {"index", "page", "flat"}
  BY DEF Held, IndexForms
<1>2. CASE form \in {"index", "page"}
  <2>1. PICK j \in DOMAIN registry.doc : \E d \in Aged(registry.doc[j].leaves, clock) : d.version = v
    BY <1>2 DEF Held, MayBeNamed
  <2>2. PICK d \in registry.doc[j].leaves : d.version = v /\ ~Young(d.date, clock)
    BY <2>1 DEF Aged
  <2>3. d = e
    BY <2>2, PagesAre
  <2> QED
    BY <2>2, <2>3
<1>3. CASE form = "flat"
  BY <1>3 DEF Held, MayBeNamed
<1> QED
  BY <1>1, <1>2, <1>3

LEMMA PageIs ==
  ASSUME NEW page, NEW c
  PROVE  /\ RewrittenLeaves(Counted(page), c).inline = page.inline
         /\ RewrittenLeaves(Counted(page), c).leaves = Aged(page.leaves, c)
         /\ RewrittenLeaves(Counted(page), c).count = Cardinality(Aged(page.leaves, c))
<1>1. PICK left : left = Aged(page.leaves, c)
  OBVIOUS
<1>2. PICK n : n = Cardinality(left)
  OBVIOUS
<1>3. PICK w : w = Counted(page)
  OBVIOUS
<1>4. w = [inline |-> page.inline, leaves |-> page.leaves, count |-> Cardinality(page.leaves)]
  BY <1>3 DEF Counted
<1>5. PICK u : u = [w EXCEPT !.leaves = left]
  OBVIOUS
<1>6. u = [inline |-> page.inline, leaves |-> left, count |-> Cardinality(page.leaves)]
  BY <1>4, <1>5
<1>7. [u EXCEPT !.count = n] = [inline |-> page.inline, leaves |-> left, count |-> n]
  BY <1>6
<1>8. RewrittenLeaves(Counted(page), c) = [w EXCEPT !.leaves = left, !.count = n]
  <2>1. w.leaves = page.leaves
    BY <1>4
  <2> QED
    BY <1>1, <1>2, <1>3, <2>1 DEF RewrittenLeaves
<1>9. RewrittenLeaves(Counted(page), c) = [inline |-> page.inline, leaves |-> left, count |-> n]
  BY <1>5, <1>7, <1>8, Zenon
<1> QED
  BY <1>1, <1>2, <1>9

LEMMA IndexKeeps ==
  ASSUME IndexInv, AnswerIndex
  PROVE  IndexInv'
<1> DEFINE p == registry.doc
           doc == RewrittenIndex([k \in DOMAIN p |-> Counted(p[k])], clock)
           c == clock
<1>1. /\ registry.eco = "nuget" /\ Give("index", doc, TRUE) /\ registry # NoRegistry
      /\ RegistryOK /\ c \in Nat
  <2>1. registry.eco = "nuget" /\ Give("index", doc, TRUE)
    BY DEF AnswerIndex
  <2> HIDE DEF doc
  <2> QED
    BY <2>1, RegistryKinds DEF IndexInv
<1>2. DOMAIN doc = DOMAIN p
  BY DEF RewrittenIndex
<1>3. ASSUME NEW k \in DOMAIN p
      PROVE  /\ doc[k].inline = p[k].inline /\ doc[k].count = Cardinality(doc[k].leaves)
             /\ p[k].inline => doc[k].leaves = Aged(p[k].leaves, c)
  <2>1. PICK w : w = Counted(p[k])
    OBVIOUS
  <2>2. w.inline = p[k].inline /\ w.leaves = p[k].leaves /\ w.count = Cardinality(w.leaves)
    BY <2>1 DEF Counted
  <2>3. doc[k] = IF w.inline THEN RewrittenLeaves(w, c) ELSE w
    BY <2>1 DEF RewrittenIndex
  <2>4. CASE p[k].inline
    <3>1. doc[k] = RewrittenLeaves(Counted(p[k]), c)
      BY <2>1, <2>2, <2>3, <2>4
    <3>2. PICK r : r = RewrittenLeaves(Counted(p[k]), c)
      OBVIOUS
    <3>3. r.inline = p[k].inline /\ r.leaves = Aged(p[k].leaves, c) /\ r.count = Cardinality(r.leaves)
      BY <3>2, PageIs
    <3> HIDE DEF doc
    <3> QED
      BY <2>4, <3>1, <3>2, <3>3
  <2>5. CASE ~p[k].inline
    <3>1. doc[k] = w
      BY <2>2, <2>3, <2>5
    <3> HIDE DEF doc
    <3> QED
      BY <2>2, <2>5, <3>1
  <2> QED
    BY <2>4, <2>5
<1> HIDE DEF doc
<1>4. \A v : v \in NamedBy("index", doc) <=>
              \E k \in DOMAIN p : p[k].inline /\ \E e \in Aged(p[k].leaves, c) : e.version = v
  <2>1. \A v : v \in NamedBy("index", doc) <=>
               \E k \in DOMAIN doc : doc[k].inline /\ \E e \in doc[k].leaves : e.version = v
    BY NamedByForms DEF VersionsIn
  <2> QED
    BY <1>2, <1>3, <2>1
<1>5. ASSUME NEW v \in NamedBy("index", doc)
      PROVE  Held("index", v)
  <2>1. PICK k \in DOMAIN p : \E e \in Aged(p[k].leaves, c) : e.version = v
    BY <1>4
  <2>2. MayBeNamed("index", v, c)
    BY <2>1 DEF MayBeNamed
  <2>3. Listed(v)
    BY <2>1 DEF Listed, VersionsIn, Aged
  <2> QED
    BY <1>1, <2>2, <2>3 DEF Held
<1>6. ASSUME NEW form \in IndexForms, NEW v, Held(form, v), Due("index", v)
      PROVE  v \in NamedBy("index", doc)
  <2>1. v \in NamedBy("index", p)
    BY <1>6 DEF Due
  <2>2. PICK k \in DOMAIN p : p[k].inline /\ \E e \in p[k].leaves : e.version = v
    BY <2>1, NamedByForms DEF VersionsIn
  <2>3. PICK e \in p[k].leaves : e.version = v
    BY <2>2
  <2>4. e \in LeavesRead(p, Followed(p))
    BY <2>2, <2>3 DEF LeavesRead
  <2>5. ~Young(e.date, c)
    BY <1>1, <1>6, <2>3, <2>4, LeafIsAged
  <2> QED
    BY <1>4, <2>2, <2>3, <2>5 DEF Aged
<1>7. given'.form = "index" /\ given'.doc = doc /\ UNCHANGED registry
  BY <1>1, GiveEffect DEF IndexForms, IndexInv
<1>8. ReferencesResolve'
  BY <1>2, <1>3, <1>7 DEF ReferencesResolve, TagsResolve, CountsFit, FilesResolve
<1> QED
  BY <1>1, <1>5, <1>6, <1>8, GiveKeeps DEF IndexForms

LEMMA PageKeeps ==
  ASSUME IndexInv, registry.eco = "nuget", NEW k \in DOMAIN registry.doc, AnswerPage(k)
  PROVE  IndexInv'
<1> DEFINE p == registry.doc
           doc == RewrittenLeaves(Counted(p[k]), clock)
           c == clock
<1>1. Give("page", doc, TRUE) /\ registry # NoRegistry /\ RegistryOK /\ c \in Nat
  <2>1. Give("page", doc, TRUE)
    BY DEF AnswerPage
  <2> HIDE DEF doc
  <2> QED
    BY <2>1, RegistryKinds DEF IndexInv
<1>2. doc.leaves = Aged(p[k].leaves, c) /\ doc.count = Cardinality(doc.leaves)
  BY PageIs
<1> HIDE DEF doc
<1>3. ASSUME NEW v \in NamedBy("page", doc)
      PROVE  Held("page", v)
  <2>1. \E e \in Aged(p[k].leaves, c) : e.version = v
    BY <1>2, NamedByForms DEF VersionsIn
  <2>2. MayBeNamed("page", v, c)
    BY <2>1 DEF MayBeNamed
  <2>3. Listed(v)
    BY <2>1 DEF Listed, VersionsIn, Aged
  <2> QED
    BY <1>1, <2>2, <2>3 DEF Held
<1>4. \A v : ~Due("page", v)
  BY DEF Due
<1>5. given'.form = "page" /\ given'.doc = doc /\ UNCHANGED registry
  BY <1>1, GiveEffect DEF IndexForms, IndexInv
<1>6. ReferencesResolve'
  BY <1>2, <1>5 DEF ReferencesResolve, TagsResolve, CountsFit, FilesResolve
<1> QED
  BY <1>1, <1>3, <1>4, <1>6, GiveKeeps DEF IndexForms

LEMMA FlatKeeps ==
  ASSUME IndexInv, registry.eco = "nuget", NEW found \in BOOLEAN, NEW fetched \in SUBSET Followed(registry.doc),
         AnswerFlat(found, fetched)
  PROVE  IndexInv'
<1> DEFINE p == registry.doc
           all == UNION {VersionsIn(p[k].leaves) : k \in DOMAIN p}
           known == IF found THEN LeavesRead(p, fetched) ELSE {}
           doc == RewrittenFlat(all, known, clock)
           dated == found /\ fetched = Followed(p)
           c == clock
<1>1. Give("flat", doc, dated) /\ registry # NoRegistry /\ RegistryOK /\ c \in Nat /\ dated \in BOOLEAN
  <2>1. Give("flat", doc, dated)
    BY DEF AnswerFlat
  <2> HIDE DEF doc
  <2> QED
    BY <2>1, RegistryKinds DEF IndexInv
<1>2. \A v : v \in all <=> Listed(v)
  BY DEF Listed
<1>3. /\ \A e : e \in LeavesRead(p, fetched) => \E k \in DOMAIN p : e \in p[k].leaves
      /\ LeavesRead(p, fetched) \subseteq LeavesRead(p, Followed(p))
  BY DEF LeavesRead, Followed
<1>4. /\ \A e \in known : e \in LeavesRead(p, Followed(p)) /\ \E k \in DOMAIN p : e \in p[k].leaves
      /\ dated => known = LeavesRead(p, Followed(p))
  BY <1>3
<1> HIDE DEF known, all
<1>5. \A v : v \in doc <=> v \in all /\ \A e \in known : e.version = v => ~Young(e.date, c)
  BY DEF RewrittenFlat
<1> HIDE DEF doc, dated
<1>6. ASSUME dated, NEW v \in NamedBy("flat", doc)
      PROVE  Held("flat", v)
  <2>1. v \in doc
    BY NamedByForms
  <2>2. MayBeNamed("flat", v, c)
    BY <1>4, <1>5, <1>6, <2>1 DEF MayBeNamed
  <2>3. Listed(v)
    BY <1>2, <1>5, <2>1
  <2> QED
    BY <1>1, <2>2, <2>3 DEF Held
<1>7. ASSUME NEW form \in IndexForms, NEW v, Held(form, v), Due("flat", v)
      PROVE  v \in NamedBy("flat", doc)
  <2>1. form \in {"index", "page", "flat"} /\ Listed(v)
    BY <1>1, <1>7 DEF Held, IndexForms
  <2>2. ASSUME NEW e \in known, e.version = v
        PROVE  ~Young(e.date, c)
    <3>1. PICK k \in DOMAIN p : e \in p[k].leaves
      BY <1>4
    <3> QED
      BY <1>1, <1>4, <1>7, <2>2, <3>1, LeafIsAged
  <2> QED
    BY <1>2, <1>5, <2>1, <2>2, NamedByForms
<1>8. given'.form = "flat" /\ given'.doc = doc /\ UNCHANGED registry
  BY <1>1, GiveEffect DEF IndexForms, IndexInv
<1>9. ReferencesResolve'
  BY <1>8 DEF ReferencesResolve, TagsResolve, CountsFit, FilesResolve
<1> QED
  BY <1>1, <1>6, <1>7, <1>9, GiveKeeps DEF IndexForms

(* Extensions: each by its name.                                             *)
LEMMA QueryKeeps ==
  ASSUME IndexInv, AnswerQuery
  PROVE  IndexInv'
<1> DEFINE p == registry.doc
           doc == RewrittenQuery(p, clock)
           c == clock
<1>1. /\ registry.eco = "gallery" /\ Give("query", doc, TRUE) /\ registry # NoRegistry
  <2>1. registry.eco = "gallery" /\ Give("query", doc, TRUE)
    BY DEF AnswerQuery
  <2> HIDE DEF doc
  <2> QED
    BY <2>1, RegistryKinds DEF IndexInv
<1>2. DOMAIN doc = DOMAIN p /\ \A x \in DOMAIN p : doc[x] = Aged(p[x], c)
  BY DEF RewrittenQuery
<1> HIDE DEF doc
<1>3. \A v : v \in NamedBy("query", doc) <=> \E x \in DOMAIN p : \E e \in Aged(p[x], c) : v = <<x, e.version>>
  BY <1>2, NamedByForms
<1>4. ASSUME NEW v \in NamedBy("query", doc)
      PROVE  Held("query", v)
  <2>1. PICK x \in DOMAIN p : \E e \in Aged(p[x], c) : v = <<x, e.version>>
    BY <1>3
  <2>2. PICK e \in Aged(p[x], c) : v = <<x, e.version>>
    BY <2>1
  <2>3. v[1] = x /\ v[2] = e.version
    BY <2>2
  <2>4. MayBeNamed("query", v, c)
    BY <2>2, <2>3 DEF MayBeNamed
  <2> QED
    BY <1>1, <2>1, <2>4 DEF Held
<1>5. ASSUME NEW form \in IndexForms, NEW v, Held(form, v), Due("query", v)
      PROVE  v \in NamedBy("query", doc)
  <2>1. form = "query"
    BY <1>1, <1>5 DEF Held, IndexForms
  <2> QED
    BY <1>3, <1>5, <2>1 DEF Held
<1>6. given'.form = "query" /\ given'.doc = doc /\ UNCHANGED registry
  BY <1>1, GiveEffect DEF IndexForms, IndexInv
<1>7. ReferencesResolve'
  BY <1>6 DEF ReferencesResolve, TagsResolve, CountsFit, FilesResolve
<1> QED
  BY <1>1, <1>4, <1>5, <1>7, GiveKeeps DEF IndexForms

(* crates.io: a line by itself.                                              *)
LEMMA LinesKeeps ==
  ASSUME IndexInv, NEW unread \in SUBSET registry.doc, AnswerLines(unread)
  PROVE  IndexInv'
<1> DEFINE p == registry.doc
           strict == registry.strict
           doc == RewrittenLines(p, unread, registry.strict, clock)
           c == clock
           dated == unread = {} \/ registry.strict
           gone == VersionsIn(unread)
<1>1. /\ registry.eco = "crates" /\ \A l \in unread : l.pubtime = NoDate
      /\ GiveUndated("lines", doc, dated, gone)
  BY DEF AnswerLines
<1>2. doc = {l \in p : LineKept(l, unread, strict, c)}
  BY DEF RewrittenLines
<1>d. dated \in BOOLEAN /\ (dated => unread = {} \/ strict)
  <2>1. CASE unread = {} \/ registry.strict
    BY <2>1
  <2>2. CASE ~(unread = {} \/ registry.strict)
    BY <2>2
  <2> QED
    BY <2>1, <2>2
<1> HIDE DEF doc, dated
<1>0. registry # NoRegistry
  BY <1>1, RegistryKinds DEF IndexInv
<1>3. \A v : v \in NamedBy("lines", doc) <=> \E l \in p : l.version = v /\ LineKept(l, unread, strict, c)
  BY <1>2, NamedByForms DEF VersionsIn
<1>4. ASSUME dated, NEW v \in NamedBy("lines", doc)
      PROVE  Held("lines", v)
  <2>1. PICK l \in p : l.version = v /\ LineKept(l, unread, strict, c)
    BY <1>3
  <2>2. LineKept(l, {}, strict, c)
    BY <1>4, <1>d, <2>1 DEF LineKept
  <2>3. ~Young(IF l.pubtime # NoDate THEN l.pubtime ELSE l.published, c)
    BY <2>2 DEF LineKept
  <2>4. MayBeNamed("lines", v, c)
    BY <2>1, <2>3 DEF MayBeNamed
  <2> QED
    BY <1>1, <2>1, <2>2, <2>4 DEF Held
<1>5. ASSUME NEW form \in IndexForms, NEW v, Held(form, v), ~(strict /\ v \in gone)
      PROVE  v \in NamedBy("lines", doc)
  <2>1. form = "lines"
    BY <1>1, <1>5 DEF Held, IndexForms
  <2>2. PICK l \in p : l.version = v /\ LineKept(l, {}, strict, c)
    BY <1>5, <2>1 DEF Held
  <2>3. l \in unread => v \in gone /\ l.pubtime = NoDate
    BY <1>1, <2>2 DEF VersionsIn
  <2>4. ~Young(NoDate, c)
    BY IndexAssumption DEF Young
  <2>5. LineKept(l, unread, strict, c)
    BY <1>5, <2>2, <2>3, <2>4 DEF LineKept
  <2> QED
    BY <1>3, <2>2, <2>5
<1> HIDE DEF gone
<1>6. given'.form = "lines" /\ given'.doc = doc /\ UNCHANGED registry
  <2>1. DOMAIN offered = IndexForms /\ "lines" \in IndexForms
    BY DEF IndexInv, IndexForms
  <2> QED
    BY <1>1, <1>d, <2>1, GiveUndatedEffect
<1>7. ReferencesResolve'
  BY <1>6 DEF ReferencesResolve, TagsResolve, CountsFit, FilesResolve
<1> QED
  BY <1>0, <1>1, <1>d, <1>4, <1>5, <1>7, GiveUndatedKeeps DEF IndexForms

-----------------------------------------------------------------------------
(* What was not young is not young later.                                    *)
LEMMA HeldLater ==
  ASSUME clock \in Nat, UNCHANGED registry, clock' = clock + 1, NEW form \in IndexForms, NEW v, Held(form, v)
  PROVE  Held(form, v)'
<1>1. \A S : Aged(S, clock) \subseteq Aged(S, clock + 1)
  BY AgedGrows
<1>2. \A d : ~Young(d, clock) => ~Young(d, clock + 1)
  BY YoungOnce
<1>3. CASE form \in {"api", "simple", "html"}
  <2>1. MayBeNamed(form, v, clock)'
    BY <1>1, <1>2, <1>3 DEF Held, MayBeNamed, UploadsOf
  <2> QED
    BY <1>3, <2>1 DEF Held
<1>4. CASE form = "packument"
  <2>1. MayBeNamed(form, v, clock)'
    BY <1>2, <1>4 DEF Held, MayBeNamed
  <2> QED
    BY <1>4, <2>1 DEF Held
<1>5. CASE form \in {"index", "page", "flat"}
  <2>1. MayBeNamed(form, v, clock)'
    BY <1>1, <1>2, <1>5 DEF Held, MayBeNamed
  <2> QED
    BY <1>5, <2>1 DEF Held, Listed
<1>6. CASE form = "query"
  <2>1. MayBeNamed(form, v, clock)'
    BY <1>1, <1>6 DEF Held, MayBeNamed
  <2> QED
    BY <1>1, <1>6, <2>1 DEF Held
<1>7. CASE form = "lines"
  <2>1. MayBeNamed(form, v, clock)'
    BY <1>2, <1>7 DEF Held, MayBeNamed
  <2>2. \A l : LineKept(l, {}, registry.strict, clock) => LineKept(l, {}, registry.strict, clock + 1)
    BY <1>2 DEF LineKept
  <2> QED
    BY <1>7, <2>1, <2>2 DEF Held
<1> QED
  BY <1>3, <1>4, <1>5, <1>6, <1>7 DEF IndexForms

LEMMA TimeKeeps ==
  ASSUME IndexInv, TimePasses
  PROVE  IndexInv'
<1>1. clock' = clock + 1 /\ UNCHANGED <<registry, given, offered>> /\ clock \in Nat
  BY DEF TimePasses, IndexInv
<1>2. AllHeld'
  <2> SUFFICES ASSUME NEW form \in IndexForms, NEW v \in offered'[form]
               PROVE  Held(form, v)'
    BY DEF AllHeld
  <2>1. Held(form, v)
    BY <1>1 DEF IndexInv, AllHeld
  <2> QED
    BY <1>1, <2>1, HeldLater
<1>3. AnswersAgree' /\ ReferencesResolve' /\ RegistryOK'
  BY <1>1 DEF IndexInv, AnswersAgree, Expected, Readable, UploadsOf, ReferencesResolve, TagsResolve,
              CountsFit, FilesResolve, RegistryOK
<1> QED
  BY <1>1, <1>2, <1>3 DEF IndexInv

LEMMA AskKeeps ==
  ASSUME IndexInv, NEW eco, NEW doc, NEW strict \in BOOLEAN, AskFor(eco, doc, strict),
         \/ eco = "pypi" /\ doc \in Projects
         \/ eco = "npm" /\ doc \in Packuments
         \/ eco = "nuget" /\ doc \in Indexes
         \/ eco = "gallery" /\ doc \in Extensions
         \/ eco = "crates" /\ doc \in CrateLines
  PROVE  IndexInv'
<1>1. /\ registry = NoRegistry /\ UNCHANGED <<clock, given, offered>>
      /\ registry'.eco = eco /\ registry'.doc = doc /\ registry'.strict = strict
  BY DEF AskFor
<1>2. given.form = "none" /\ \A form \in IndexForms : offered[form] = {}
  BY <1>1 DEF IndexInv
<1>3. RegistryOK'
  BY <1>1 DEF RegistryOK
<1>4. registry' # NoRegistry
  <2>1. NoRegistry.eco = "none"
    BY DEF NoRegistry
  <2> QED
    BY <1>1, <2>1
<1>5. AllHeld'
  BY <1>1, <1>2 DEF AllHeld
<1>6. AnswersAgree' /\ ReferencesResolve'
  BY <1>1, <1>2 DEF AnswersAgree, ReferencesResolve, TagsResolve, CountsFit, FilesResolve, IndexForms
<1> QED
  BY <1>1, <1>3, <1>4, <1>5, <1>6 DEF IndexInv

LEMMA IndexBegins == IndexInit => IndexInv
<1> SUFFICES ASSUME IndexInit
             PROVE  IndexInv
  OBVIOUS
<1>1. /\ registry = NoRegistry /\ clock = 0 /\ given.form = "none"
      /\ DOMAIN offered = IndexForms /\ \A form \in IndexForms : offered[form] = {}
  BY DEF IndexInit
<1>2. AnswersAgree /\ ReferencesResolve
  BY <1>1 DEF AnswersAgree, ReferencesResolve, TagsResolve, CountsFit, FilesResolve, IndexForms
<1> QED
  BY <1>1, <1>2 DEF IndexInv, RegistryOK, AllHeld

LEMMA IndexInvKeeps == IndexInv /\ [IndexNext]_indexVars => IndexInv'
<1> SUFFICES ASSUME IndexInv, [IndexNext]_indexVars
             PROVE  IndexInv'
  OBVIOUS
<1>1. ASSUME NEW p \in Projects, AskFor("pypi", p, FALSE)
      PROVE  IndexInv'
  BY <1>1, AskKeeps
<1>2. ASSUME NEW p \in Packuments, NEW strict \in BOOLEAN, AskFor("npm", p, strict)
      PROVE  IndexInv'
  BY <1>2, AskKeeps
<1>3. ASSUME NEW p \in Indexes, AskFor("nuget", p, FALSE)
      PROVE  IndexInv'
  BY <1>3, AskKeeps
<1>4. ASSUME NEW x \in Extensions, AskFor("gallery", x, FALSE)
      PROVE  IndexInv'
  BY <1>4, AskKeeps
<1>5. ASSUME NEW l \in CrateLines, NEW strict \in BOOLEAN, AskFor("crates", l, strict)
      PROVE  IndexInv'
  BY <1>5, AskKeeps
<1>6. CASE UNCHANGED indexVars
  <2>1. UNCHANGED <<registry, clock, given, offered>>
    BY <1>6 DEF indexVars
  <2>2. AllHeld'
    <3> SUFFICES ASSUME NEW form \in IndexForms, NEW v \in offered'[form]
                 PROVE  Held(form, v)'
      BY DEF AllHeld
    <3>1. Held(form, v)
      BY <2>1 DEF IndexInv, AllHeld
    <3>2. MayBeNamed(form, v, clock)' = MayBeNamed(form, v, clock)
      BY <2>1 DEF MayBeNamed, UploadsOf
    <3>3. Listed(v)' = Listed(v)
      BY <2>1 DEF Listed
    <3> QED
      BY <2>1, <3>1, <3>2, <3>3 DEF Held
  <2>3. AnswersAgree' /\ ReferencesResolve' /\ RegistryOK'
    BY <2>1 DEF IndexInv, AnswersAgree, Expected, Readable, UploadsOf, ReferencesResolve, TagsResolve,
                CountsFit, FilesResolve, RegistryOK
  <2> QED
    BY <2>1, <2>2, <2>3 DEF IndexInv
<1> QED
  BY <1>1, <1>2, <1>3, <1>4, <1>5, <1>6, ApiKeeps, SimpleKeeps, HtmlKeeps, PackumentKeeps, IndexKeeps, PageKeeps,
     FlatKeeps, QueryKeeps, LinesKeeps, TimeKeeps DEF IndexNext

LEMMA IndexInvGives == IndexInv => IndexesHold
BY DEF IndexInv, AllHeld, Held, IndexesHold, YoungStaysHidden

(* For any documents, dates and times of asking: what is too young is in     *)
(* none of them as far as a date says so, what one answer offered no later   *)
(* one of that registry withholds, and none points at what it left out       *)
(* (rewrite.rs and the modules beside it).                                   *)
THEOREM IndexesAreConsistent == IndexSpec => []IndexesHold
<1>1. IndexInit => IndexInv
  BY IndexBegins
<1>2. IndexInv /\ [IndexNext]_indexVars => IndexInv'
  BY IndexInvKeeps
<1>3. IndexInv => IndexesHold
  BY IndexInvGives
<1> QED
  BY <1>1, <1>2, <1>3, PTL DEF IndexSpec
=============================================================================

----------------------------- MODULE Providers ------------------------------
(***************************************************************************)
(* The capacity providers (AWS, GCP, static) and the ProviderCache that    *)
(* builds one per pool.  The workers of the three capacity controllers     *)
(* call ForPool, which a mutex guards, and then the provider it returns,   *)
(* which none does: the pool controller asks for a report, the buffer      *)
(* controller for a quote and a machine, the buffer and the health         *)
(* controller for releases.  A call that leaves the process is a step of   *)
(* its own, whose answer may be lost.                                      *)
(***************************************************************************)
EXTENDS Naturals, FiniteSets

CONSTANTS
    Pool,        \* the GPUPools
    WithSecret,  \* the pools whose credentialsRef names a secret
    Machine,     \* what the clouds can rent out, by the names they give it
    SpotPrice,   \* what DescribeSpotPriceHistory answers
    MaxICE       \* bound: refusals for want of capacity, per pool and process

Caller == {"pool", "buffer", "health"}

ASSUME SecretAssumption == WithSecret \subseteq Pool
ASSUME PriceAssumption == SpotPrice \in Nat \ {0} /\ MaxICE \in Nat

VARIABLES
    kind,        \* kind[p]: spec.provider.name of the pool, any one it is created with
    mu,          \* who holds ProviderCache.mu, or "free"
    cache,       \* cache[p]: whose call built the provider cached for p, or "none"
    built,       \* built[p]: the callers that built a provider for p in this process
    prov,        \* prov[p][c]: the state of the provider that c built for p
    secret,      \* the pools whose secret exists
    cloud,       \* cloud[m]: "free", "running" or "gone"
    renter,      \* the pool each machine was rented for: a set of pairs
    handle,      \* the NodeHandles on record
    freed,       \* history: the handles that a Release has returned nil for
    call,        \* call[c]: what worker c is doing
    report,      \* report[p]: the last CapacityReport of p
    refused      \* refused[p]: history: the ICEs that Provision met in this process

process == <<mu, cache, built, prov, call, refused>>
world == <<kind, secret, cloud, renter, handle, freed, report>>
vars == <<process, world>>

-----------------------------------------------------------------------------
\* hourlyUSD and lastICE of a provider, and what Capacity reports of them.
\* lastICE is kept by its length, and by whether its last slot is unwritten:
\* an append stores the new length before the element, and Capacity copies
\* the slice meanwhile (no lock; a data race).
NewProvider == [usd |-> 0, ices |-> 0, blank |-> FALSE]

\* A handle as the NodeRecords keep it.  Its provider id ends in the machine
\* (aws://zone/id, gcp://project/zone/name), in the placeholder of a static
\* Provision or, for a node that was only discovered, in the node's name.
Handle == [pool : Pool, node : Machine, id : {"machine", "placeholder", "node"}]

\* A worker that is not in a call of the cache or of a provider.
Idle == [pc |-> "idle"]

\* The factories that NewRegistry registers.
Registered == {"static", "aws", "gcp"}

\* NewProviderCache, and a process that holds nothing.
ProcessInit ==
    /\ mu = "free"
    /\ cache = [p \in Pool |-> "none"]
    /\ built = [p \in Pool |-> {}]
    /\ prov = [p \in Pool |-> [c \in Caller |-> NewProvider]]
    /\ call = [c \in Caller |-> Idle]
    /\ refused = [p \in Pool |-> 0]

ProvidersInit ==
    /\ ProcessInit
    /\ kind \in [Pool -> Registered \cup {"other"}]
    /\ secret \in SUBSET WithSecret
    /\ cloud = [m \in Machine |-> "free"] /\ renter = {}
    /\ handle = {} /\ freed = {}
    /\ report = [p \in Pool |-> NewProvider]

-----------------------------------------------------------------------------
(* ForPool.                                                                *)

Goes(c, pc) == call' = [call EXCEPT ![c].pc = pc]
Has(c, o) == call' = [call EXCEPT ![c].pc = call[c].op, ![c].o = o]
Ends(c) == call' = [call EXCEPT ![c] = Idle]

\* A worker calls ForPool, to use the provider (the pool and the buffer
\* controller) or to release a handle on record (the buffer and the health
\* controller).
Begin(c, p) ==
    /\ call[c].pc = "idle"
    /\ \/ c # "health" /\ call' = [call EXCEPT ![c] = [pc |-> "lock", p |-> p, op |-> "use",
                                                   o |-> "none"]]
       \/ c # "pool" /\ \E h \in handle :
             /\ h.pool = p
             /\ call' = [call EXCEPT ![c] = [pc |-> "lock", p |-> p, op |-> "release",
                                             o |-> "none", h |-> h]]
    /\ UNCHANGED <<mu, cache, built, prov, refused, world>>

\* Mutant of Lock: nobody is kept out.
LockNothing(c) ==
    /\ call[c].pc = "lock"
    /\ mu' = c
    /\ Goes(c, "look")
    /\ UNCHANGED <<cache, built, prov, refused, world>>

\* mu.Lock.
Lock(c) ==
    /\ call[c].pc = "lock" /\ mu = "free"
    /\ mu' = c
    /\ Goes(c, "look")
    /\ UNCHANGED <<cache, built, prov, refused, world>>

\* The pool has a provider: it is returned and the deferred Unlock runs.
Hit(c) ==
    /\ call[c].pc = "look" /\ cache[call[c].p] # "none"
    /\ mu' = "free"
    /\ Has(c, cache[call[c].p])
    /\ UNCHANGED <<cache, built, prov, refused, world>>

\* loadCredentials: the secret is there, or the pool names none.
LoadCredentials(c) ==
    /\ call[c].pc = "look" /\ cache[call[c].p] = "none"
    /\ call[c].p \in WithSecret => call[c].p \in secret
    /\ Goes(c, "build")
    /\ UNCHANGED <<mu, cache, built, prov, refused, world>>

\* The secret cannot be read.
NoCredentials(c) == call[c].pc = "look" /\ cache[call[c].p] = "none" /\ call[c].p \in WithSecret

\* No factory has the name, or the configuration or the client of the cloud
\* cannot be made.  The static factory does not fail.
NoProvider(c) == call[c].pc = "build" /\ kind[call[c].p] # "static"

\* Mutant of ForPoolFails: the error returns with the mutex held.
ForPoolFailsLocked(c) ==
    /\ NoCredentials(c) \/ NoProvider(c)
    /\ Ends(c)
    /\ UNCHANGED <<mu, cache, built, prov, refused, world>>

\* ForPool returns an error; the caller gives up.
ForPoolFails(c) ==
    /\ NoCredentials(c) \/ NoProvider(c)
    /\ mu' = "free"
    /\ Ends(c)
    /\ UNCHANGED <<cache, built, prov, refused, world>>

\* Mutant of Build: the provider is returned and not kept.
BuildUncached(c) ==
    LET p == call[c].p
    IN  /\ call[c].pc = "build" /\ kind[p] \in Registered
        /\ mu' = "free"
        /\ built' = [built EXCEPT ![p] = @ \cup {c}]
        /\ prov' = [prov EXCEPT ![p][c] = NewProvider]
        /\ Has(c, c)
        /\ UNCHANGED <<cache, refused, world>>

\* The factory's provider is kept and returned.
Build(c) ==
    LET p == call[c].p
    IN  /\ call[c].pc = "build" /\ kind[p] \in Registered
        /\ mu' = "free"
        /\ built' = [built EXCEPT ![p] = @ \cup {c}]
        /\ cache' = [cache EXCEPT ![p] = c]
        /\ prov' = [prov EXCEPT ![p][c] = NewProvider]
        /\ Has(c, c)
        /\ UNCHANGED <<refused, world>>

\* The provider that a worker has in hand.
InHand(c) == prov[call[c].p][call[c].o]

-----------------------------------------------------------------------------
(* Quote and Provision, called by the buffer controller.                   *)

\* Mutant of Quote: the price that is made up is kept.
QuoteKeepsDefault(c) ==
    LET p == call[c].p
    IN  /\ c = "buffer" /\ call[c].pc = "use"
        /\ \E usd \in IF kind[p] = "aws" /\ InHand(c).usd = 0 THEN {SpotPrice, SpotPrice + 21}
                      ELSE {InHand(c).usd} :
              prov' = [prov EXCEPT ![p][call[c].o].usd = usd]
        /\ Goes(c, "provision")
        /\ UNCHANGED <<mu, cache, built, refused, world>>

\* The AWS provider looks the spot price up as long as it has none; when that
\* fails it offers 21 dollars and keeps 0.  GCP and static keep 0.
Quote(c) ==
    LET p == call[c].p
    IN  /\ c = "buffer" /\ call[c].pc = "use"
        /\ \E usd \in IF kind[p] = "aws" /\ InHand(c).usd = 0 THEN {0, SpotPrice} ELSE {InHand(c).usd} :
              prov' = [prov EXCEPT ![p][call[c].o].usd = usd]
        /\ Goes(c, "provision")
        /\ UNCHANGED <<mu, cache, built, refused, world>>

\* Provision fails before it asks for a machine (resolveAMI finds no image or
\* cannot ask), or the request is refused for another reason than capacity.
\* Bound: it also fails when no machine is left.
ProvisionFails(c) ==
    /\ call[c].pc = "provision"
    /\ kind[call[c].p] # "static" \/ \A m \in Machine : cloud[m] # "free"
    /\ Ends(c)
    /\ UNCHANGED <<mu, cache, built, prov, refused, world>>

\* The cloud is out of capacity (isInsufficientCapacity, isGCPExhausted): the
\* append has stored the new length.
ICE(c) ==
    LET p == call[c].p
    IN  /\ call[c].pc = "provision" \/ call[c].pc = "wait"
        /\ kind[p] \in {"aws", "gcp"} /\ refused[p] < MaxICE
        /\ prov' = [prov EXCEPT ![p][call[c].o].ices = @ + 1, ![p][call[c].o].blank = TRUE]
        /\ Goes(c, "iced")
        /\ UNCHANGED <<mu, cache, built, refused, world>>

\* Mutant of ICEStored: the slot is never written.
ICEUnstored(c) ==
    /\ call[c].pc = "iced"
    /\ refused' = [refused EXCEPT ![call[c].p] = @ + 1]
    /\ Ends(c)
    /\ UNCHANGED <<mu, cache, built, prov, world>>

\* Its element is written and ErrICE returned.
ICEStored(c) ==
    LET p == call[c].p
    IN  /\ call[c].pc = "iced"
        /\ prov' = [prov EXCEPT ![p][call[c].o].blank = FALSE]
        /\ refused' = [refused EXCEPT ![p] = @ + 1]
        /\ Ends(c)
        /\ UNCHANGED <<mu, cache, built, world>>

\* A machine nobody has is rented for pool p.
Rent(p, m) ==
    /\ cloud[m] = "free"
    /\ cloud' = [cloud EXCEPT ![m] = "running"]
    /\ renter' = renter \cup {<<m, p>>}

\* RunInstances answers with the instance, whose handle goes on record, or its
\* answer is lost: the instance runs and Provision returns an error.
RunInstances(c, m) ==
    LET p == call[c].p
    IN  /\ call[c].pc = "provision" /\ kind[p] = "aws"
        /\ Rent(p, m)
        /\ handle' \in {handle, handle \cup {[pool |-> p, node |-> m, id |-> "machine"]}}
        /\ Ends(c)
        /\ UNCHANGED <<mu, cache, built, prov, refused, kind, secret, freed, report>>

\* Insert is accepted: the operation runs, and may create the instance.
Insert(c) ==
    /\ call[c].pc = "provision" /\ kind[call[c].p] = "gcp"
    /\ Goes(c, "wait")
    /\ UNCHANGED <<mu, cache, built, prov, refused, world>>

\* op.Wait returns: the instance is there, and its handle goes on record
\* unless the wait failed after the instance was created; or the wait fails
\* and there is no instance.
Waited(c, m) ==
    LET p == call[c].p
    IN  /\ call[c].pc = "wait"
        /\ Rent(p, m)
        /\ handle' \in {handle, handle \cup {[pool |-> p, node |-> m, id |-> "machine"]}}
        /\ Ends(c)
        /\ UNCHANGED <<mu, cache, built, prov, refused, kind, secret, freed, report>>

WaitFails(c) ==
    /\ call[c].pc = "wait"
    /\ Ends(c)
    /\ UNCHANGED <<mu, cache, built, prov, refused, world>>

\* The static provider names a placeholder; nothing is rented.
Placeholder(c, m) ==
    LET p == call[c].p
    IN  /\ call[c].pc = "provision" /\ kind[p] = "static" /\ cloud[m] = "free"
        /\ handle' = handle \cup {[pool |-> p, node |-> m, id |-> "placeholder"]}
        /\ cloud' = [cloud EXCEPT ![m] = "gone"]
        /\ Ends(c)
        /\ UNCHANGED <<mu, cache, built, prov, refused, kind, secret, renter, freed, report>>

-----------------------------------------------------------------------------
(* Release and Capacity.                                                   *)

\* What the clouds find under the last part of the handle's provider id: AWS
\* knows instances by their ids, GCP by their names, which nodes bear too.
Found(h) ==
    CASE kind[h.pool] = "aws" -> IF h.id = "machine" THEN {h.node} ELSE {}
      [] kind[h.pool] = "gcp" -> {h.node}
      [] OTHER -> {}

\* Mutant of ReleaseDone: an id that is not found is passed over.
ReleaseSkips(c) ==
    LET h == call[c].h
    IN  /\ call[c].pc = "release"
        /\ freed' = freed \cup {h}
        /\ Ends(c)
        /\ UNCHANGED <<mu, cache, built, prov, refused, kind, secret, cloud, renter, handle, report>>

\* The machine is terminated, or was gone; a static release does nothing.  AWS
\* also passes over a provider id that ends in no instance id, which no handle
\* on record does: an id or a node's name is always put there.
ReleaseDone(c) ==
    LET h == call[c].h
    IN  /\ call[c].pc = "release"
        /\ kind[h.pool] = "static" \/ Found(h) # {}
        /\ cloud' = [m \in Machine |-> IF m \in Found(h) THEN "gone" ELSE cloud[m]]
        /\ freed' = freed \cup {h}
        /\ Ends(c)
        /\ UNCHANGED <<mu, cache, built, prov, refused, kind, secret, renter, handle, report>>

\* TerminateInstances or Delete fails, or its answer is lost.
ReleaseFails(c) ==
    LET h == call[c].h
    IN  /\ call[c].pc = "release" /\ kind[h.pool] # "static"
        /\ cloud' \in {cloud, [m \in Machine |-> IF m \in Found(h) THEN "gone" ELSE cloud[m]]}
        /\ Ends(c)
        /\ UNCHANGED <<mu, cache, built, prov, refused, kind, secret, renter, handle, freed, report>>

\* Capacity, for the pool controller.  A slot that is unwritten reads as the
\* zero time, or as what it is about to be.
Capacity(c) ==
    LET p == call[c].p
    IN  /\ c = "pool" /\ call[c].pc = "use"
        /\ \E blank \in {FALSE, InHand(c).blank} :
              report' = [report EXCEPT ![p] = [InHand(c) EXCEPT !.blank = blank]]
        /\ Ends(c)
        /\ UNCHANGED <<mu, cache, built, prov, refused, kind, secret, cloud, renter, handle, freed>>

-----------------------------------------------------------------------------
(* The environment.                                                        *)

\* A secret is created or deleted.
SecretChanges(p) ==
    /\ p \in WithSecret
    /\ secret' = (secret \ {p}) \cup ({p} \ secret)
    /\ UNCHANGED <<process, kind, cloud, renter, handle, freed, report>>

\* The pool controller finds the node of a machine that has no record.
Discovered(p, m) ==
    /\ cloud[m] = "running" /\ <<m, p>> \in renter
    /\ \A h \in handle : h.node # m
    /\ handle' = handle \cup {[pool |-> p, node |-> m, id |-> "node"]}
    /\ UNCHANGED <<process, kind, secret, cloud, renter, freed, report>>

\* The manager restarts.
Restarts ==
    /\ mu' = "free" /\ call' = [c \in Caller |-> Idle]
    /\ cache' = [p \in Pool |-> "none"] /\ built' = [p \in Pool |-> {}]
    /\ prov' = [p \in Pool |-> [c \in Caller |-> NewProvider]]
    /\ refused' = [p \in Pool |-> 0]
    /\ UNCHANGED world

Work(c) ==
    \/ Lock(c) \/ Hit(c) \/ LoadCredentials(c) \/ ForPoolFails(c) \/ Build(c)
    \/ Quote(c) \/ ProvisionFails(c) \/ ICE(c) \/ ICEStored(c) \/ Insert(c) \/ WaitFails(c)
    \/ \E m \in Machine : RunInstances(c, m) \/ Waited(c, m) \/ Placeholder(c, m)
    \/ ReleaseDone(c) \/ ReleaseFails(c) \/ Capacity(c)

ProvidersNext ==
    \/ \E c \in Caller : Work(c) \/ \E p \in Pool : Begin(c, p)
    \/ \E p \in Pool : SecretChanges(p) \/ \E m \in Machine : Discovered(p, m)
    \/ Restarts

Spec == ProvidersInit /\ [][ProvidersNext]_vars

-----------------------------------------------------------------------------
InForPool == {"lock", "look", "build"}

\* The workers and the cache have their types, a worker that calls a provider
\* has one in hand, and a report never shows a price that was not looked up:
\* the 21 dollars of an offer stay in the offer (aws.go:122).
ProvidersTypeOK ==
    /\ mu \in Caller \cup {"free"}
    /\ cache \in [Pool -> Caller \cup {"none"}] /\ built \in [Pool -> SUBSET Caller]
    /\ kind \in [Pool -> Registered \cup {"other"}] /\ secret \subseteq WithSecret
    /\ cloud \in [Machine -> {"free", "running", "gone"}] /\ renter \subseteq Machine \X Pool
    /\ handle \subseteq Handle /\ freed \subseteq Handle
    /\ \A c \in Caller : call[c].pc \notin InForPool \cup {"idle"} =>
           call[c].p \in Pool /\ call[c].o \in built[call[c].p]
    /\ \A p \in Pool : report[p].usd \in {0, SpotPrice}

\* Two workers that miss the cache at once do not build two providers for a
\* pool (ForPool, cache.go:33): the second would start with no price and no
\* memory of ICEs, and replace the first or be lost.
OneProviderPerPool == \A p \in Pool : \A c, d \in built[p] : c = d

\* Every ICE that Provision met in this process is in the provider that the
\* pool controller will ask for its next report, whichever worker built it.
ICEsKept ==
    \A p \in Pool : refused[p] > 0 =>
        cache[p] # "none" /\ refused[p] <= prov[p][cache[p]].ices

\* A Release that returned no error has left no machine running, also when it
\* was retried or the handle was made from a discovered node.
ReleasedIsGone ==
    \A h \in freed : kind[h.pool] # "static" => cloud[h.node] = "gone"

-----------------------------------------------------------------------------
(* Fairness: a worker in a call goes on, since every call has a deadline   *)
(* or an answer; a Go mutex hands over to a waiter that starves; the pool  *)
(* controller requeues every pool.                                         *)
Fairness ==
    /\ \A c \in Caller : WF_vars(Work(c)) /\ SF_vars(Lock(c))
    /\ \A p \in Pool : SF_vars(Begin("pool", p))

FairSpec == Spec /\ Fairness

\* Every call of ForPool returns, also after another one has failed.
ForPoolReturns == \A c \in Caller : call[c].pc = "lock" ~> call[c].pc \notin InForPool

\* An ICE reaches a report with its time, although the report is copied from
\* the slice while Provision appends to it; a restart forgets it.
ICEReported ==
    \A p \in Pool : refused[p] > 0 ~>
        \/ report[p].ices > 0 /\ ~ report[p].blank
        \/ refused[p] = 0
=============================================================================

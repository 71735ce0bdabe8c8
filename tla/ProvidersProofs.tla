-------------------------- MODULE ProvidersProofs ---------------------------
(***************************************************************************)
(* Proofs about Providers: the types, one provider per pool and process,   *)
(* no ICE lost, and no machine left running behind a Release that returned *)
(* nil, for any pools, secrets, machines and prices.                       *)
(*                                                                         *)
(* The inductive invariant says what the mutex of ProviderCache protects.  *)
(* A worker is between Lock and Unlock exactly when it owns the mutex, so  *)
(* the miss that a worker saw is still a miss when it stores the provider  *)
(* it built; and a worker that has left ForPool has the cached provider in *)
(* hand, since a cached provider is never replaced in a process.  The ICEs *)
(* it appends are therefore those of the provider that reports them.       *)
(***************************************************************************)
EXTENDS Providers, TLAPS

ProviderState == [usd : {0, SpotPrice}, ices : Nat, blank : BOOLEAN]

\* A call that uses a provider, and one that releases a handle.
UseCall == [pc : InForPool \cup {"use", "provision", "wait", "iced"},
            p : Pool, op : {"use"}, o : Caller \cup {"none"}]
ReleaseCall == [pc : InForPool \cup {"release"},
                p : Pool, op : {"release"}, o : Caller \cup {"none"}, h : Handle]

ProcessTypes ==
    /\ mu \in Caller \cup {"free"}
    /\ cache \in [Pool -> Caller \cup {"none"}]
    /\ built \in [Pool -> SUBSET Caller]
    /\ prov \in [Pool -> [Caller -> ProviderState]]
    /\ call \in [Caller -> {Idle} \cup UseCall \cup ReleaseCall]
    /\ refused \in [Pool -> Nat]

WorldTypes ==
    /\ kind \in [Pool -> Registered \cup {"other"}]
    /\ secret \subseteq WithSecret
    /\ cloud \in [Machine -> {"free", "running", "gone"}]
    /\ renter \subseteq Machine \X Pool
    /\ handle \subseteq Handle /\ freed \subseteq Handle
    /\ report \in [Pool -> ProviderState]

HasProvider == {"use", "provision", "wait", "iced", "release"}

\* The mutex is held from Lock to the deferred Unlock.
MutexHeld == \A c \in Caller : mu = c <=> call[c].pc \in {"look", "build"}

\* The miss of a worker that builds a provider is current, and a worker that
\* has left ForPool has the cached provider in hand.
WorkersAgree ==
    \A c \in Caller :
        /\ call[c].pc = "build" => cache[call[c].p] = "none"
        /\ call[c].pc \in HasProvider =>
              call[c].o = cache[call[c].p] /\ cache[call[c].p] # "none"

\* What was built in this process is what the cache holds.
BuiltIsCached ==
    \A p \in Pool : built[p] = IF cache[p] = "none" THEN {} ELSE {cache[p]}

\* The cached provider has counted the ICEs that were returned, and one more
\* while the buffer controller's worker, the only one to provision, is about
\* to return it.
ICEsCounted ==
    /\ \A c \in Caller : call[c].pc \in {"provision", "wait", "iced"} => c = "buffer"
    /\ \A p \in Pool : IF cache[p] = "none" THEN refused[p] = 0
                       ELSE refused[p] <= prov[p][cache[p]].ices
    /\ \A c \in Caller : call[c].pc = "iced" =>
           refused[call[c].p] < prov[call[c].p][call[c].o].ices

IInv ==
    /\ ProcessTypes /\ WorldTypes
    /\ MutexHeld /\ WorkersAgree /\ BuiltIsCached /\ ICEsCounted
    /\ ReleasedIsGone

-----------------------------------------------------------------------------
(* What a worker's record holds, and what Goes, Has and Ends do to it.     *)

\* A worker in a call knows its pool, and whether it will use or release.
LEMMA CallFacts ==
    ASSUME ProcessTypes, NEW c \in Caller, call[c].pc # "idle"
    PROVE  /\ call[c] \in UseCall \cup ReleaseCall
           /\ call[c].p \in Pool /\ call[c].o \in Caller \cup {"none"}
           /\ call[c].op \in {"use", "release"}
           /\ call[c].pc \in {"use", "provision", "wait", "iced"} => call[c] \in UseCall
           /\ call[c].pc = "release" => call[c] \in ReleaseCall /\ call[c].h \in Handle
  <1>1. call[c] \in UseCall \cup ReleaseCall
    BY DEF ProcessTypes, Idle
  <1>2. CASE call[c] \in UseCall
    BY <1>2 DEF UseCall, InForPool
  <1>3. CASE call[c] \in ReleaseCall
    BY <1>3 DEF ReleaseCall, InForPool
  <1> QED
    BY <1>1, <1>2, <1>3

\* The program counters a call may have.
MayGo(c, pc) ==
    \/ pc \in InForPool
    \/ call[c] \in UseCall /\ pc \in {"use", "provision", "wait", "iced"}
    \/ call[c] \in ReleaseCall /\ pc = "release"

\* Goes moves the program counter of one worker.
LEMMA GoesFacts ==
    ASSUME ProcessTypes, NEW c \in Caller, call[c].pc # "idle", NEW pc, MayGo(c, pc),
           Goes(c, pc)
    PROVE  /\ call' \in [Caller -> {Idle} \cup UseCall \cup ReleaseCall]
           /\ call'[c].pc = pc /\ call'[c].p = call[c].p /\ call'[c].o = call[c].o
           /\ \A d \in Caller : d # c => call'[d] = call[d]
  <1>1. call \in [Caller -> {Idle} \cup UseCall \cup ReleaseCall]
    BY DEF ProcessTypes
  <1>2. call' = [call EXCEPT ![c] = [call[c] EXCEPT !.pc = pc]]
    BY DEF Goes
  <1>3. CASE call[c] \in UseCall
    <2>1. pc \in InForPool \cup {"use", "provision", "wait", "iced"}
      BY <1>3 DEF MayGo, UseCall, ReleaseCall, InForPool
    <2>2. [call[c] EXCEPT !.pc = pc] \in UseCall
      BY <1>3, <2>1 DEF UseCall
    <2> QED
      BY <1>1, <1>2, <1>3, <2>2 DEF UseCall
  <1>4. CASE call[c] \in ReleaseCall
    <2>1. pc \in InForPool \cup {"release"}
      BY <1>4 DEF MayGo, UseCall, ReleaseCall, InForPool
    <2>2. [call[c] EXCEPT !.pc = pc] \in ReleaseCall
      BY <1>4, <2>1 DEF ReleaseCall
    <2> QED
      BY <1>1, <1>2, <1>4, <2>2 DEF ReleaseCall
  <1> QED
    BY <1>3, <1>4, CallFacts

\* Has ends ForPool with a provider in hand.
LEMMA HasFacts ==
    ASSUME ProcessTypes, NEW c \in Caller, call[c].pc # "idle", NEW o \in Caller, Has(c, o)
    PROVE  /\ call' \in [Caller -> {Idle} \cup UseCall \cup ReleaseCall]
           /\ call'[c].pc \in {"use", "release"}
           /\ call'[c].p = call[c].p /\ call'[c].o = o
           /\ \A d \in Caller : d # c => call'[d] = call[d]
  <1>1. call \in [Caller -> {Idle} \cup UseCall \cup ReleaseCall]
    BY DEF ProcessTypes
  <1>2. call' = [call EXCEPT ![c] = [call[c] EXCEPT !.pc = call[c].op, !.o = o]]
    BY DEF Has
  <1>3. CASE call[c] \in UseCall
    <2>1. [call[c] EXCEPT !.pc = call[c].op, !.o = o] \in UseCall
      BY <1>3 DEF UseCall
    <2> QED
      BY <1>1, <1>2, <1>3, <2>1 DEF UseCall
  <1>4. CASE call[c] \in ReleaseCall
    <2>1. [call[c] EXCEPT !.pc = call[c].op, !.o = o] \in ReleaseCall
      BY <1>4 DEF ReleaseCall
    <2> QED
      BY <1>1, <1>2, <1>4, <2>1 DEF ReleaseCall
  <1> QED
    BY <1>3, <1>4, CallFacts

\* Ends leaves one worker idle.
LEMMA EndsFacts ==
    ASSUME ProcessTypes, NEW c \in Caller, Ends(c)
    PROVE  /\ call' \in [Caller -> {Idle} \cup UseCall \cup ReleaseCall]
           /\ call'[c].pc = "idle"
           /\ \A d \in Caller : d # c => call'[d] = call[d]
  BY DEF ProcessTypes, Ends, Idle

\* A provider's state changes, and no other.
LEMMA ProvUpdate ==
    ASSUME ProcessTypes, NEW p \in Pool, NEW o \in Caller, NEW st \in ProviderState,
           prov' = [prov EXCEPT ![p] = [prov[p] EXCEPT ![o] = st]]
    PROVE  /\ prov' \in [Pool -> [Caller -> ProviderState]]
           /\ prov'[p][o] = st
           /\ \A q \in Pool : \A d \in Caller : q # p \/ d # o => prov'[q][d] = prov[q][d]
  <1>1. prov \in [Pool -> [Caller -> ProviderState]]
    BY DEF ProcessTypes
  <1>2. [prov[p] EXCEPT ![o] = st] \in [Caller -> ProviderState]
    BY <1>1
  <1> HIDE DEF ProviderState
  <1> QED
    BY <1>1, <1>2

\* A step that leaves the world alone keeps what is said of it.
LEMMA WorldFrame ==
    ASSUME WorldTypes, ReleasedIsGone, UNCHANGED world
    PROVE  WorldTypes' /\ ReleasedIsGone'
  BY DEF WorldTypes, ReleasedIsGone, world

\* A machine that is gone stays gone, whatever else is rented or released.
LEMMA GoneFrame ==
    ASSUME WorldTypes, ReleasedIsGone, kind' = kind, freed' = freed,
           \A m \in Machine : cloud[m] = "gone" => cloud'[m] = "gone"
    PROVE  ReleasedIsGone'
  BY DEF WorldTypes, ReleasedIsGone, Handle

\* A step that keeps the cache and the providers, and in which a worker only
\* ends its call or moves on, keeps what is said of the cache.
LEMMA CacheFrame ==
    ASSUME BuiltIsCached, UNCHANGED <<cache, built>>
    PROVE  BuiltIsCached'
  BY DEF BuiltIsCached

\* A worker that has left ForPool gives up or has its answer.
LEMMA EndInv ==
    ASSUME IInv, NEW c \in Caller, call[c].pc \in HasProvider, Ends(c),
           UNCHANGED <<mu, cache, built, prov, refused>>
    PROVE  ProcessTypes' /\ MutexHeld' /\ WorkersAgree' /\ BuiltIsCached' /\ ICEsCounted'
  <1>1. /\ call' \in [Caller -> {Idle} \cup UseCall \cup ReleaseCall]
        /\ call'[c].pc = "idle"
        /\ \A d \in Caller : d # c => call'[d] = call[d]
    BY EndsFacts DEF IInv
  <1>2. ProcessTypes'
    BY <1>1 DEF IInv, ProcessTypes
  <1>3. MutexHeld'
    BY <1>1 DEF IInv, MutexHeld, HasProvider
  <1>4. WorkersAgree'
    BY <1>1 DEF IInv, WorkersAgree, HasProvider
  <1>5. ICEsCounted'
    BY <1>1 DEF IInv, ICEsCounted
  <1> QED
    BY <1>2, <1>3, <1>4, <1>5, CacheFrame DEF IInv

-----------------------------------------------------------------------------
LEMMA InitIInv == ASSUME ProvidersInit PROVE IInv
  <1> USE DEF ProvidersInit, ProcessInit
  <1>1. NewProvider \in ProviderState
    BY DEF NewProvider, ProviderState
  <1>2. ProcessTypes
    <2>1. prov \in [Pool -> [Caller -> ProviderState]]
      BY <1>1
    <2> QED
      BY <2>1 DEF ProcessTypes
  <1>3. WorldTypes
    BY <1>1 DEF WorldTypes
  <1>4. MutexHeld
    BY DEF MutexHeld, Caller, Idle
  <1>5. WorkersAgree /\ BuiltIsCached /\ ReleasedIsGone
    BY DEF WorkersAgree, BuiltIsCached, ReleasedIsGone, Idle, HasProvider
  <1>6. ICEsCounted
    BY DEF ICEsCounted, Idle
  <1> QED
    BY <1>2, <1>3, <1>4, <1>5, <1>6 DEF IInv

LEMMA BeginInv ==
    ASSUME IInv, NEW c \in Caller, NEW p \in Pool, Begin(c, p)
    PROVE  IInv'
  <1>1. PICK x \in UseCall \cup ReleaseCall : x.pc = "lock" /\ call' = [call EXCEPT ![c] = x]
    <2>1. CASE call' = [call EXCEPT ![c] = [pc |-> "lock", p |-> p, op |-> "use", o |-> "none"]]
      BY <2>1 DEF UseCall, InForPool
    <2>2. CASE \E h \in handle :
                 call' = [call EXCEPT ![c] = [pc |-> "lock", p |-> p, op |-> "release",
                                              o |-> "none", h |-> h]]
      BY <2>2 DEF ReleaseCall, InForPool, IInv, WorldTypes
    <2> QED
      BY <2>1, <2>2 DEF Begin
  <1>2. /\ call' \in [Caller -> {Idle} \cup UseCall \cup ReleaseCall]
        /\ call'[c].pc = "lock" /\ \A d \in Caller : d # c => call'[d] = call[d]
    BY <1>1 DEF IInv, ProcessTypes
  <1>3. call[c].pc = "idle" /\ UNCHANGED <<mu, cache, built, prov, refused>> /\ UNCHANGED world
    BY DEF Begin
  <1>4. ProcessTypes'
    BY <1>2, <1>3 DEF IInv, ProcessTypes
  <1>5. MutexHeld'
    BY <1>2, <1>3 DEF IInv, MutexHeld
  <1>6. WorkersAgree'
    BY <1>2, <1>3 DEF IInv, WorkersAgree, HasProvider
  <1>7. ICEsCounted'
    BY <1>2, <1>3 DEF IInv, ICEsCounted
  <1> QED
    BY <1>3, <1>4, <1>5, <1>6, <1>7, WorldFrame, CacheFrame DEF IInv

LEMMA LockInv ==
    ASSUME IInv, NEW c \in Caller, Lock(c)
    PROVE  IInv'
  <1>1. /\ call' \in [Caller -> {Idle} \cup UseCall \cup ReleaseCall]
        /\ call'[c].pc = "look" /\ \A d \in Caller : d # c => call'[d] = call[d]
    BY GoesFacts DEF IInv, Lock, MayGo, InForPool
  <1>2. call[c].pc = "lock" /\ mu = "free" /\ mu' = c
        /\ UNCHANGED <<cache, built, prov, refused>> /\ UNCHANGED world
    BY DEF Lock
  <1>3. ProcessTypes'
    BY <1>1, <1>2 DEF IInv, ProcessTypes
  <1>4. MutexHeld'
    <2> SUFFICES ASSUME NEW d \in Caller
                 PROVE  mu' = d <=> call'[d].pc \in {"look", "build"}
      BY DEF MutexHeld
    <2>1. CASE d = c
      BY <2>1, <1>1, <1>2
    <2>2. CASE d # c
      BY <2>2, <1>1, <1>2 DEF IInv, MutexHeld, Caller
    <2> QED
      BY <2>1, <2>2
  <1>5. WorkersAgree'
    BY <1>1, <1>2 DEF IInv, WorkersAgree, HasProvider
  <1>6. ICEsCounted'
    BY <1>1, <1>2 DEF IInv, ICEsCounted
  <1> QED
    BY <1>2, <1>3, <1>4, <1>5, <1>6, WorldFrame, CacheFrame DEF IInv

\* A worker that holds the mutex is the only one in ForPool beyond Lock.
LEMMA AloneInside ==
    ASSUME IInv, NEW c \in Caller, call[c].pc \in {"look", "build"}
    PROVE  mu = c /\ \A d \in Caller : d # c => call[d].pc \notin {"look", "build"}
  BY DEF IInv, MutexHeld

LEMMA HitInv ==
    ASSUME IInv, NEW c \in Caller, Hit(c)
    PROVE  IInv'
  <1>1. call[c].pc = "look" /\ cache[call[c].p] # "none" /\ mu' = "free"
        /\ UNCHANGED <<cache, built, prov, refused>> /\ UNCHANGED world
    BY DEF Hit
  <1>2. call[c].p \in Pool /\ cache[call[c].p] \in Caller
    BY <1>1, CallFacts DEF IInv, ProcessTypes
  <1>3. /\ call' \in [Caller -> {Idle} \cup UseCall \cup ReleaseCall]
        /\ call'[c].pc \in {"use", "release"}
        /\ call'[c].p = call[c].p /\ call'[c].o = cache[call[c].p]
        /\ \A d \in Caller : d # c => call'[d] = call[d]
    <2>1. Has(c, cache[call[c].p])
      BY DEF Hit
    <2> QED
      BY <1>1, <1>2, <2>1, HasFacts DEF IInv
  <1>4. ProcessTypes'
    BY <1>1, <1>3 DEF IInv, ProcessTypes
  <1>5. MutexHeld'
    BY <1>1, <1>3, AloneInside DEF MutexHeld, Caller
  <1>6. WorkersAgree'
    BY <1>1, <1>3 DEF IInv, WorkersAgree, HasProvider
  <1>7. ICEsCounted'
    BY <1>1, <1>3 DEF IInv, ICEsCounted
  <1> QED
    BY <1>1, <1>4, <1>5, <1>6, <1>7, WorldFrame, CacheFrame DEF IInv

LEMMA LoadCredentialsInv ==
    ASSUME IInv, NEW c \in Caller, LoadCredentials(c)
    PROVE  IInv'
  <1>1. call[c].pc = "look" /\ cache[call[c].p] = "none"
        /\ UNCHANGED <<mu, cache, built, prov, refused>> /\ UNCHANGED world
    BY DEF LoadCredentials
  <1>2. /\ call' \in [Caller -> {Idle} \cup UseCall \cup ReleaseCall]
        /\ call'[c].pc = "build" /\ call'[c].p = call[c].p
        /\ \A d \in Caller : d # c => call'[d] = call[d]
    BY GoesFacts DEF IInv, LoadCredentials, MayGo, InForPool
  <1>3. ProcessTypes'
    BY <1>1, <1>2 DEF IInv, ProcessTypes
  <1>4. MutexHeld'
    BY <1>1, <1>2 DEF IInv, MutexHeld
  <1>5. WorkersAgree'
    BY <1>1, <1>2 DEF IInv, WorkersAgree, HasProvider
  <1>6. ICEsCounted'
    BY <1>1, <1>2 DEF IInv, ICEsCounted
  <1> QED
    BY <1>1, <1>3, <1>4, <1>5, <1>6, WorldFrame, CacheFrame DEF IInv

LEMMA ForPoolFailsInv ==
    ASSUME IInv, NEW c \in Caller, ForPoolFails(c)
    PROVE  IInv'
  <1>1. call[c].pc \in {"look", "build"} /\ mu' = "free" /\ Ends(c)
        /\ UNCHANGED <<cache, built, prov, refused>> /\ UNCHANGED world
    BY DEF ForPoolFails, NoCredentials, NoProvider
  <1>2. /\ call' \in [Caller -> {Idle} \cup UseCall \cup ReleaseCall]
        /\ call'[c].pc = "idle" /\ \A d \in Caller : d # c => call'[d] = call[d]
    BY <1>1, EndsFacts DEF IInv
  <1>3. ProcessTypes'
    BY <1>1, <1>2 DEF IInv, ProcessTypes
  <1>4. MutexHeld'
    BY <1>1, <1>2, AloneInside DEF MutexHeld, Caller
  <1>5. WorkersAgree'
    BY <1>1, <1>2 DEF IInv, WorkersAgree, HasProvider
  <1>6. ICEsCounted'
    BY <1>1, <1>2 DEF IInv, ICEsCounted
  <1> QED
    BY <1>1, <1>3, <1>4, <1>5, <1>6, WorldFrame, CacheFrame DEF IInv

LEMMA BuildInv ==
    ASSUME IInv, NEW c \in Caller, Build(c)
    PROVE  IInv'
  <1> DEFINE p == call[c].p
  <1>1. /\ call[c].pc = "build" /\ mu' = "free"
        /\ built' = [built EXCEPT ![p] = @ \cup {c}]
        /\ cache' = [cache EXCEPT ![p] = c]
        /\ prov' = [prov EXCEPT ![p] = [prov[p] EXCEPT ![c] = NewProvider]]
        /\ Has(c, c) /\ refused' = refused /\ UNCHANGED world
    BY DEF Build
  <1>2. p \in Pool /\ cache[p] = "none"
    BY <1>1, CallFacts DEF IInv, WorkersAgree
  <1>3. /\ call' \in [Caller -> {Idle} \cup UseCall \cup ReleaseCall]
        /\ call'[c].pc \in {"use", "release"} /\ call'[c].p = p /\ call'[c].o = c
        /\ \A d \in Caller : d # c => call'[d] = call[d]
    BY <1>1, HasFacts DEF IInv
  <1>4. NewProvider \in ProviderState
    BY DEF NewProvider, ProviderState
  <1>5. /\ prov' \in [Pool -> [Caller -> ProviderState]]
        /\ \A q \in Pool : \A d \in Caller : q # p => prov'[q][d] = prov[q][d]
        /\ prov'[p][c] = NewProvider
    BY <1>1, <1>2, <1>4, ProvUpdate DEF IInv
  <1>6. cache' \in [Pool -> Caller \cup {"none"}] /\ cache'[p] = c
        /\ \A q \in Pool : q # p => cache'[q] = cache[q]
    BY <1>1, <1>2 DEF IInv, ProcessTypes
  <1>7. ProcessTypes'
    BY <1>1, <1>2, <1>3, <1>5, <1>6 DEF IInv, ProcessTypes
  <1>8. MutexHeld'
    BY <1>1, <1>3, AloneInside DEF MutexHeld, Caller
  <1>9. \A d \in Caller : d # c /\ call[d].pc \in HasProvider => call[d].p # p
    BY <1>2 DEF IInv, WorkersAgree
  <1>10. \A d \in Caller : call[d].pc \in HasProvider => call[d].p \in Pool
    BY CallFacts DEF IInv, HasProvider
  <1>11. WorkersAgree'
    <2> SUFFICES ASSUME NEW d \in Caller
                 PROVE  /\ call'[d].pc = "build" => cache'[call'[d].p] = "none"
                        /\ call'[d].pc \in HasProvider =>
                             call'[d].o = cache'[call'[d].p] /\ cache'[call'[d].p] # "none"
      BY DEF WorkersAgree
    <2>1. CASE d = c
      BY <2>1, <1>3, <1>6 DEF Caller
    <2>2. CASE d # c
      BY <2>2, <1>1, <1>3, <1>6, <1>9, <1>10, AloneInside DEF IInv, WorkersAgree
    <2> QED
      BY <2>1, <2>2
  <1>12. BuiltIsCached'
    <2>1. built'[p] = {c} /\ \A q \in Pool : q # p => built'[q] = built[q]
      BY <1>1, <1>2 DEF IInv, BuiltIsCached, ProcessTypes
    <2> QED
      BY <2>1, <1>2, <1>6 DEF IInv, BuiltIsCached, Caller
  <1>13. ICEsCounted'
    <2>1. \A d \in Caller : call'[d].pc \in {"provision", "wait", "iced"} => d = "buffer"
      BY <1>3 DEF IInv, ICEsCounted
    <2>2. \A q \in Pool : IF cache'[q] = "none" THEN refused'[q] = 0
                          ELSE refused'[q] <= prov'[q][cache'[q]].ices
      <3> SUFFICES ASSUME NEW q \in Pool
                   PROVE  IF cache'[q] = "none" THEN refused'[q] = 0
                          ELSE refused'[q] <= prov'[q][cache'[q]].ices
        OBVIOUS
      <3>1. CASE q = p
        BY <3>1, <1>1, <1>2, <1>5, <1>6 DEF IInv, ICEsCounted, NewProvider, Caller
      <3>2. CASE q # p
        BY <3>2, <1>1, <1>5, <1>6 DEF IInv, ICEsCounted, ProcessTypes
      <3> QED
        BY <3>1, <3>2
    <2>3. ASSUME NEW d \in Caller, call'[d].pc = "iced"
          PROVE  refused'[call'[d].p] < prov'[call'[d].p][call'[d].o].ices
      <3>1. d # c /\ call'[d] = call[d] /\ call[d].p # p /\ call[d].p \in Pool
        BY <2>3, <1>3, <1>9, <1>10 DEF HasProvider
      <3>2. call[d].o \in Caller
        BY <2>3, <3>1 DEF IInv, WorkersAgree, ProcessTypes, HasProvider
      <3> QED
        BY <2>3, <3>1, <3>2, <1>1, <1>5 DEF IInv, ICEsCounted
    <2> QED
      BY <2>1, <2>2, <2>3 DEF ICEsCounted
  <1> QED
    BY <1>1, <1>7, <1>8, <1>11, <1>12, <1>13, WorldFrame DEF IInv

\* A worker that has left ForPool has a provider of its pool in hand.
LEMMA InHandFacts ==
    ASSUME IInv, NEW c \in Caller, call[c].pc \in HasProvider
    PROVE  /\ call[c].p \in Pool /\ call[c].o \in Caller
           /\ call[c].o = cache[call[c].p]
           /\ prov[call[c].p][call[c].o] \in ProviderState
           /\ kind[call[c].p] \in Registered \cup {"other"}
           /\ refused[call[c].p] \in Nat
           /\ refused[call[c].p] <= prov[call[c].p][call[c].o].ices
  <1>1. call[c].p \in Pool
    BY CallFacts DEF IInv, HasProvider
  <1>2. call[c].o \in Caller /\ call[c].o = cache[call[c].p] /\ cache[call[c].p] # "none"
    BY <1>1 DEF IInv, WorkersAgree, ProcessTypes
  <1> QED
    BY <1>1, <1>2 DEF IInv, ProcessTypes, WorldTypes, ICEsCounted

\* A worker moves on within the calls of its provider, and nothing else moves.
LEMMA GoInv ==
    ASSUME IInv, NEW c \in Caller, call[c].pc \in HasProvider,
           NEW pc \in {"provision", "wait"}, call[c] \in UseCall, c = "buffer",
           Goes(c, pc), UNCHANGED <<mu, cache, built, refused>>, UNCHANGED world,
           prov' \in [Pool -> [Caller -> ProviderState]],
           \A q \in Pool : \A d \in Caller : prov'[q][d].ices = prov[q][d].ices
    PROVE  IInv'
  <1>1. /\ call' \in [Caller -> {Idle} \cup UseCall \cup ReleaseCall]
        /\ call'[c].pc = pc /\ call'[c].p = call[c].p /\ call'[c].o = call[c].o
        /\ \A d \in Caller : d # c => call'[d] = call[d]
    BY GoesFacts DEF IInv, MayGo, HasProvider
  <1>2. ProcessTypes'
    BY <1>1 DEF IInv, ProcessTypes
  <1>3. MutexHeld'
    BY <1>1 DEF IInv, MutexHeld, HasProvider
  <1>4. WorkersAgree'
    BY <1>1 DEF IInv, WorkersAgree, HasProvider
  <1>5. ICEsCounted'
    <2>1. \A d \in Caller : call'[d].pc \in {"provision", "wait", "iced"} => d = "buffer"
      BY <1>1 DEF IInv, ICEsCounted
    <2>2. \A q \in Pool : IF cache'[q] = "none" THEN refused'[q] = 0
                          ELSE refused'[q] <= prov'[q][cache'[q]].ices
      BY DEF IInv, ICEsCounted, ProcessTypes
    <2>3. \A d \in Caller : call'[d].pc # "iced"
      BY <1>1 DEF IInv, ICEsCounted
    <2> QED
      BY <2>1, <2>2, <2>3 DEF ICEsCounted
  <1> QED
    BY <1>2, <1>3, <1>4, <1>5, WorldFrame, CacheFrame DEF IInv

LEMMA QuoteInv ==
    ASSUME IInv, NEW c \in Caller, Quote(c)
    PROVE  IInv'
  <1> DEFINE p == call[c].p
             o == call[c].o
  <1>1. /\ c = "buffer" /\ call[c].pc = "use" /\ Goes(c, "provision")
        /\ UNCHANGED <<mu, cache, built, refused>> /\ UNCHANGED world
    BY DEF Quote
  <1>2. p \in Pool /\ o \in Caller /\ prov[p][o] \in ProviderState /\ call[c] \in UseCall
    BY <1>1, InHandFacts, CallFacts DEF HasProvider, IInv
  <1>3. PICK usd \in {0, SpotPrice} :
             prov' = [prov EXCEPT ![p] = [prov[p] EXCEPT ![o] = [prov[p][o] EXCEPT !.usd = usd]]]
    BY <1>2 DEF Quote, InHand, ProviderState
  <1>4. [prov[p][o] EXCEPT !.usd = usd] \in ProviderState
        /\ [prov[p][o] EXCEPT !.usd = usd].ices = prov[p][o].ices
    BY <1>2, <1>3 DEF ProviderState
  <1>5. /\ prov' \in [Pool -> [Caller -> ProviderState]]
        /\ \A q \in Pool : \A d \in Caller : prov'[q][d].ices = prov[q][d].ices
    <2> DEFINE st == [prov[p][o] EXCEPT !.usd = usd]
    <2>1. p \in Pool /\ o \in Caller /\ ProcessTypes /\ st \in ProviderState
          /\ prov' = [prov EXCEPT ![p] = [prov[p] EXCEPT ![o] = st]]
          /\ st.ices = prov[p][o].ices
      BY <1>2, <1>3, <1>4 DEF IInv
    <2>2. PICK x \in Pool, y \in Caller, z \in ProviderState : x = p /\ y = o /\ z = st
      BY <2>1
    <2>3. /\ prov' \in [Pool -> [Caller -> ProviderState]]
          /\ prov'[x][y] = z
          /\ \A q \in Pool : \A d \in Caller : q # x \/ d # y => prov'[q][d] = prov[q][d]
      <3>1. prov' = [prov EXCEPT ![x] = [prov[x] EXCEPT ![y] = z]]
        BY <2>1, <2>2
      <3>2. ProcessTypes
        BY DEF IInv
      <3> QED
        BY <3>1, <3>2, ProvUpdate
    <2> HIDE DEF p, o, st
    <2> QED
      BY <2>1, <2>2, <2>3
  <1> QED
    BY <1>1, <1>2, <1>5, GoInv DEF HasProvider

LEMMA InsertInv ==
    ASSUME IInv, NEW c \in Caller, Insert(c)
    PROVE  IInv'
  <1>1. call[c].pc = "provision" /\ Goes(c, "wait") /\ UNCHANGED <<mu, cache, built, refused>>
        /\ UNCHANGED world /\ prov' = prov
    BY DEF Insert
  <1>2. call[c] \in UseCall /\ c = "buffer" /\ prov \in [Pool -> [Caller -> ProviderState]]
    BY <1>1, CallFacts DEF IInv, ICEsCounted, ProcessTypes
  <1> QED
    BY <1>1, <1>2, GoInv DEF HasProvider

\* The calls that end with nothing but the worker changed.
LEMMA GivesUpInv ==
    ASSUME IInv, NEW c \in Caller, ProvisionFails(c) \/ WaitFails(c)
    PROVE  IInv'
  <1>1. call[c].pc \in HasProvider /\ Ends(c)
        /\ UNCHANGED <<mu, cache, built, prov, refused>> /\ UNCHANGED world
    BY DEF ProvisionFails, WaitFails, HasProvider
  <1> QED
    BY <1>1, EndInv, WorldFrame DEF IInv

LEMMA ICEInv ==
    ASSUME IInv, NEW c \in Caller, ICE(c)
    PROVE  IInv'
  <1> DEFINE p == call[c].p
             o == call[c].o
             st == [prov[p][o] EXCEPT !.ices = @ + 1, !.blank = TRUE]
  <1>1. /\ call[c].pc \in {"provision", "wait"} /\ Goes(c, "iced")
        /\ UNCHANGED <<mu, cache, built, refused>> /\ UNCHANGED world
        /\ prov' = [prov EXCEPT ![p] = [prov[p] EXCEPT ![o] = st]]
    BY DEF ICE
  <1>2. /\ p \in Pool /\ o \in Caller /\ prov[p][o] \in ProviderState /\ call[c] \in UseCall
        /\ c = "buffer" /\ refused[p] \in Nat /\ refused[p] <= prov[p][o].ices
        /\ o = cache[p]
    BY <1>1, InHandFacts, CallFacts DEF HasProvider, IInv, ICEsCounted
  <1>3. st \in ProviderState /\ st.ices = prov[p][o].ices + 1
    <2>1. ASSUME NEW x \in ProviderState
          PROVE  [x EXCEPT !.ices = x.ices + 1, !.blank = TRUE] \in ProviderState
      <3>1. x.ices + 1 \in Nat /\ TRUE \in BOOLEAN
        BY DEF ProviderState
      <3> QED
        BY <3>1 DEF ProviderState
    <2>2. prov[p][o].ices + 1 = st.ices
      BY <1>2 DEF ProviderState
    <2> QED
      BY <2>1, <2>2, <1>2
  <1>4. /\ prov' \in [Pool -> [Caller -> ProviderState]]
        /\ prov'[p][o].ices = prov[p][o].ices + 1
        /\ \A q \in Pool : \A d \in Caller : q # p \/ d # o => prov'[q][d] = prov[q][d]
    <2>1. p \in Pool /\ o \in Caller /\ ProcessTypes /\ st \in ProviderState
          /\ prov' = [prov EXCEPT ![p] = [prov[p] EXCEPT ![o] = st]]
          /\ st.ices = prov[p][o].ices + 1
      BY <1>1, <1>2, <1>3 DEF IInv
    <2>2. PICK x \in Pool, y \in Caller, z \in ProviderState : x = p /\ y = o /\ z = st
      BY <2>1
    <2>3. /\ prov' \in [Pool -> [Caller -> ProviderState]]
          /\ prov'[x][y] = z
          /\ \A q \in Pool : \A d \in Caller : q # x \/ d # y => prov'[q][d] = prov[q][d]
      <3>1. prov' = [prov EXCEPT ![x] = [prov[x] EXCEPT ![y] = z]]
        BY <2>1, <2>2
      <3>2. ProcessTypes
        BY DEF IInv
      <3> QED
        BY <3>1, <3>2, ProvUpdate
    <2> HIDE DEF p, o, st
    <2> QED
      BY <2>1, <2>2, <2>3
  <1>5. /\ call' \in [Caller -> {Idle} \cup UseCall \cup ReleaseCall]
        /\ call'[c].pc = "iced" /\ call'[c].p = p /\ call'[c].o = o
        /\ \A d \in Caller : d # c => call'[d] = call[d]
    BY <1>1, <1>2, GoesFacts DEF IInv, MayGo
  <1> HIDE DEF p, o, st
  <1>6. ProcessTypes'
    BY <1>1, <1>4, <1>5 DEF IInv, ProcessTypes
  <1>7. MutexHeld'
    BY <1>1, <1>5 DEF IInv, MutexHeld
  <1>8. WorkersAgree'
    BY <1>1, <1>5 DEF IInv, WorkersAgree, HasProvider, p, o
  <1>9. ICEsCounted'
    <2>1. \A d \in Caller : call'[d].pc \in {"provision", "wait", "iced"} => d = "buffer"
      BY <1>2, <1>5 DEF IInv, ICEsCounted
    <2>2. ASSUME NEW q \in Pool
          PROVE  IF cache'[q] = "none" THEN refused'[q] = 0
                 ELSE refused'[q] <= prov'[q][cache'[q]].ices
      <3>1. CASE q = p
        <4>1. prov[p][o].ices \in Nat
          BY <1>2 DEF ProviderState
        <4> QED
          BY <3>1, <4>1, <1>1, <1>2, <1>4 DEF Caller
      <3>2. CASE q # p
        BY <3>2, <1>1, <1>4 DEF IInv, ICEsCounted, ProcessTypes
      <3> QED
        BY <3>1, <3>2
    <2>3. ASSUME NEW d \in Caller, call'[d].pc = "iced"
          PROVE  refused'[call'[d].p] < prov'[call'[d].p][call'[d].o].ices
      <3>1. d = c
        BY <2>1, <2>3, <1>2
      <3>2. prov[p][o].ices \in Nat
        BY <1>2 DEF ProviderState
      <3> QED
        BY <3>1, <3>2, <1>1, <1>2, <1>4, <1>5
    <2> QED
      BY <2>1, <2>2, <2>3 DEF ICEsCounted
  <1> QED
    BY <1>1, <1>6, <1>7, <1>8, <1>9, WorldFrame, CacheFrame DEF IInv

LEMMA ICEStoredInv ==
    ASSUME IInv, NEW c \in Caller, ICEStored(c)
    PROVE  IInv'
  <1> DEFINE p == call[c].p
             o == call[c].o
             st == [prov[p][o] EXCEPT !.blank = FALSE]
  <1>1. /\ call[c].pc = "iced" /\ Ends(c) /\ refused' = [refused EXCEPT ![p] = @ + 1]
        /\ UNCHANGED <<mu, cache, built>> /\ UNCHANGED world
        /\ prov' = [prov EXCEPT ![p] = [prov[p] EXCEPT ![o] = st]]
    BY DEF ICEStored
  <1>2. /\ p \in Pool /\ o \in Caller /\ prov[p][o] \in ProviderState
        /\ c = "buffer" /\ refused[p] \in Nat /\ refused[p] < prov[p][o].ices
        /\ o = cache[p] /\ prov[p][o].ices \in Nat
    BY <1>1, InHandFacts DEF HasProvider, IInv, ICEsCounted, ProviderState
  <1>3. st \in ProviderState /\ st.ices = prov[p][o].ices
    BY <1>2 DEF ProviderState
  <1>4. /\ prov' \in [Pool -> [Caller -> ProviderState]]
        /\ prov'[p][o].ices = prov[p][o].ices
        /\ \A q \in Pool : \A d \in Caller : q # p \/ d # o => prov'[q][d] = prov[q][d]
    <2>1. p \in Pool /\ o \in Caller /\ ProcessTypes /\ st \in ProviderState
          /\ prov' = [prov EXCEPT ![p] = [prov[p] EXCEPT ![o] = st]]
          /\ st.ices = prov[p][o].ices
      BY <1>1, <1>2, <1>3 DEF IInv
    <2>2. PICK x \in Pool, y \in Caller, z \in ProviderState : x = p /\ y = o /\ z = st
      BY <2>1
    <2>3. /\ prov' \in [Pool -> [Caller -> ProviderState]]
          /\ prov'[x][y] = z
          /\ \A q \in Pool : \A d \in Caller : q # x \/ d # y => prov'[q][d] = prov[q][d]
      <3>1. prov' = [prov EXCEPT ![x] = [prov[x] EXCEPT ![y] = z]]
        BY <2>1, <2>2
      <3>2. ProcessTypes
        BY DEF IInv
      <3> QED
        BY <3>1, <3>2, ProvUpdate
    <2> HIDE DEF p, o, st
    <2> QED
      BY <2>1, <2>2, <2>3
  <1>5. /\ call' \in [Caller -> {Idle} \cup UseCall \cup ReleaseCall]
        /\ call'[c].pc = "idle" /\ \A d \in Caller : d # c => call'[d] = call[d]
    BY <1>1, EndsFacts DEF IInv
  <1>6. refused' \in [Pool -> Nat] /\ refused'[p] = refused[p] + 1
        /\ \A q \in Pool : q # p => refused'[q] = refused[q]
    BY <1>1, <1>2 DEF IInv, ProcessTypes
  <1> HIDE DEF p, o, st
  <1>7. ProcessTypes'
    BY <1>1, <1>4, <1>5, <1>6 DEF IInv, ProcessTypes
  <1>8. MutexHeld'
    BY <1>1, <1>5 DEF IInv, MutexHeld
  <1>9. WorkersAgree'
    BY <1>1, <1>5 DEF IInv, WorkersAgree, HasProvider
  <1>10. ICEsCounted'
    <2>1. \A d \in Caller : call'[d].pc \in {"provision", "wait", "iced"} => d = "buffer"
      BY <1>5 DEF IInv, ICEsCounted
    <2>2. ASSUME NEW q \in Pool
          PROVE  IF cache'[q] = "none" THEN refused'[q] = 0
                 ELSE refused'[q] <= prov'[q][cache'[q]].ices
      <3>1. CASE q = p
        BY <3>1, <1>1, <1>2, <1>4, <1>6 DEF Caller
      <3>2. CASE q # p
        BY <3>2, <1>1, <1>4, <1>6 DEF IInv, ICEsCounted, ProcessTypes
      <3> QED
        BY <3>1, <3>2
    <2>3. \A d \in Caller : call'[d].pc # "iced"
      BY <2>1, <1>2, <1>5
    <2> QED
      BY <2>1, <2>2, <2>3 DEF ICEsCounted
  <1> QED
    BY <1>1, <1>7, <1>8, <1>9, <1>10, WorldFrame, CacheFrame DEF IInv

\* RunInstances and op.Wait rent a machine that was free.
LEMMA RentInv ==
    ASSUME IInv, NEW c \in Caller, NEW m \in Machine, RunInstances(c, m) \/ Waited(c, m)
    PROVE  IInv'
  <1> DEFINE p == call[c].p
  <1>1. /\ call[c].pc \in HasProvider /\ Ends(c) /\ Rent(p, m)
        /\ handle' \in {handle, handle \cup {[pool |-> p, node |-> m, id |-> "machine"]}}
        /\ UNCHANGED <<mu, cache, built, prov, refused>>
        /\ UNCHANGED <<kind, secret, freed, report>>
    BY DEF RunInstances, Waited, HasProvider
  <1>2. p \in Pool
    BY <1>1, InHandFacts
  <1>3. cloud' \in [Machine -> {"free", "running", "gone"}]
        /\ \A n \in Machine : cloud[n] = "gone" => cloud'[n] = "gone"
    BY <1>1 DEF Rent, IInv, WorldTypes
  <1>4. handle' \subseteq Handle /\ renter' \subseteq Machine \X Pool
    BY <1>1, <1>2 DEF Rent, IInv, WorldTypes, Handle
  <1>5. WorldTypes' /\ ReleasedIsGone'
    BY <1>1, <1>3, <1>4, GoneFrame DEF IInv, WorldTypes
  <1> QED
    BY <1>1, <1>5, EndInv DEF IInv

LEMMA PlaceholderInv ==
    ASSUME IInv, NEW c \in Caller, NEW m \in Machine, Placeholder(c, m)
    PROVE  IInv'
  <1> DEFINE p == call[c].p
  <1>1. /\ call[c].pc \in HasProvider /\ Ends(c)
        /\ handle' = handle \cup {[pool |-> p, node |-> m, id |-> "placeholder"]}
        /\ cloud' = [cloud EXCEPT ![m] = "gone"]
        /\ UNCHANGED <<mu, cache, built, prov, refused>>
        /\ UNCHANGED <<kind, secret, renter, freed, report>>
    BY DEF Placeholder, HasProvider
  <1>2. p \in Pool
    BY <1>1, InHandFacts
  <1>3. cloud' \in [Machine -> {"free", "running", "gone"}]
        /\ \A n \in Machine : cloud[n] = "gone" => cloud'[n] = "gone"
    BY <1>1 DEF IInv, WorldTypes
  <1>4. handle' \subseteq Handle
    BY <1>1, <1>2 DEF IInv, WorldTypes, Handle
  <1>5. WorldTypes' /\ ReleasedIsGone'
    BY <1>1, <1>3, <1>4, GoneFrame DEF IInv, WorldTypes
  <1> QED
    BY <1>1, <1>5, EndInv DEF IInv

LEMMA ReleaseDoneInv ==
    ASSUME IInv, NEW c \in Caller, ReleaseDone(c)
    PROVE  IInv'
  <1> DEFINE h == call[c].h
  <1>1. /\ call[c].pc \in HasProvider /\ Ends(c)
        /\ kind[h.pool] = "static" \/ Found(h) # {}
        /\ cloud' = [m \in Machine |-> IF m \in Found(h) THEN "gone" ELSE cloud[m]]
        /\ freed' = freed \cup {h}
        /\ UNCHANGED <<mu, cache, built, prov, refused>>
        /\ UNCHANGED <<kind, secret, renter, handle, report>>
    BY DEF ReleaseDone, HasProvider
  <1>2. h \in Handle /\ h.node \in Machine
    BY CallFacts DEF ReleaseDone, IInv, Handle
  <1>3. cloud' \in [Machine -> {"free", "running", "gone"}]
        /\ \A n \in Machine : cloud[n] = "gone" => cloud'[n] = "gone"
    BY <1>1 DEF IInv, WorldTypes
  <1>4. WorldTypes'
    BY <1>1, <1>2, <1>3 DEF IInv, WorldTypes
  <1>5. kind[h.pool] # "static" => Found(h) = {h.node}
    BY <1>1 DEF Found
  <1>6. kind[h.pool] # "static" => cloud'[h.node] = "gone"
    BY <1>1, <1>2, <1>5
  <1>7. ReleasedIsGone'
    <2> SUFFICES ASSUME NEW g \in freed', kind'[g.pool] # "static"
                 PROVE  cloud'[g.node] = "gone"
      BY DEF ReleasedIsGone
    <2>1. CASE g = h
      BY <2>1, <1>1, <1>6
    <2>2. CASE g \in freed
      BY <2>2, <1>1, <1>3 DEF IInv, WorldTypes, ReleasedIsGone, Handle
    <2> QED
      BY <2>1, <2>2, <1>1
  <1> QED
    BY <1>1, <1>4, <1>7, EndInv DEF IInv

LEMMA ReleaseFailsInv ==
    ASSUME IInv, NEW c \in Caller, ReleaseFails(c)
    PROVE  IInv'
  <1>1. /\ call[c].pc \in HasProvider /\ Ends(c)
        /\ cloud' \in {cloud, [m \in Machine |-> IF m \in Found(call[c].h) THEN "gone" ELSE cloud[m]]}
        /\ UNCHANGED <<mu, cache, built, prov, refused>>
        /\ UNCHANGED <<kind, secret, renter, handle, freed, report>>
    BY DEF ReleaseFails, HasProvider
  <1>2. cloud' \in [Machine -> {"free", "running", "gone"}]
        /\ \A n \in Machine : cloud[n] = "gone" => cloud'[n] = "gone"
    BY <1>1 DEF IInv, WorldTypes
  <1>3. WorldTypes' /\ ReleasedIsGone'
    BY <1>1, <1>2, GoneFrame DEF IInv, WorldTypes
  <1> QED
    BY <1>1, <1>3, EndInv DEF IInv

LEMMA CapacityInv ==
    ASSUME IInv, NEW c \in Caller, Capacity(c)
    PROVE  IInv'
  <1>1. /\ call[c].pc \in HasProvider /\ Ends(c)
        /\ UNCHANGED <<mu, cache, built, prov, refused>>
        /\ UNCHANGED <<kind, secret, cloud, renter, handle, freed>>
    BY DEF Capacity, HasProvider
  <1>2. call[c].p \in Pool /\ InHand(c) \in ProviderState
    BY <1>1, InHandFacts DEF InHand
  <1>3. PICK blank \in BOOLEAN :
             report' = [report EXCEPT ![call[c].p] = [InHand(c) EXCEPT !.blank = blank]]
    BY <1>2 DEF Capacity, ProviderState
  <1>4. [InHand(c) EXCEPT !.blank = blank] \in ProviderState
    BY <1>2 DEF ProviderState
  <1>5. report' \in [Pool -> ProviderState]
    BY <1>2, <1>3, <1>4 DEF IInv, WorldTypes
  <1>6. WorldTypes' /\ ReleasedIsGone'
    BY <1>1, <1>5, GoneFrame DEF IInv, WorldTypes
  <1> QED
    BY <1>1, <1>6, EndInv DEF IInv

\* The secrets, the nodes that are found and the restart of the manager.
LEMMA AroundInv ==
    ASSUME IInv, \/ \E p \in Pool : SecretChanges(p) \/ \E m \in Machine : Discovered(p, m)
                 \/ Restarts
    PROVE  IInv'
  <1>1. CASE \E p \in Pool : SecretChanges(p)
    <2>1. /\ UNCHANGED <<mu, cache, built, prov, call, refused>>
          /\ UNCHANGED <<kind, cloud, renter, handle, freed, report>>
          /\ secret' \subseteq WithSecret
      BY <1>1 DEF SecretChanges, process, IInv, WorldTypes
    <2>2. WorldTypes' /\ ReleasedIsGone'
      BY <2>1, GoneFrame DEF IInv, WorldTypes
    <2> QED
      BY <2>1, <2>2 DEF IInv, ProcessTypes, MutexHeld, WorkersAgree, BuiltIsCached, ICEsCounted
  <1>2. CASE \E p \in Pool : \E m \in Machine : Discovered(p, m)
    <2>1. /\ UNCHANGED <<mu, cache, built, prov, call, refused>>
          /\ UNCHANGED <<kind, secret, cloud, renter, freed, report>>
          /\ handle' \subseteq Handle
      BY <1>2 DEF Discovered, process, IInv, WorldTypes, Handle
    <2>2. WorldTypes' /\ ReleasedIsGone'
      BY <2>1, GoneFrame DEF IInv, WorldTypes
    <2> QED
      BY <2>1, <2>2 DEF IInv, ProcessTypes, MutexHeld, WorkersAgree, BuiltIsCached, ICEsCounted
  <1>3. CASE Restarts
    <2> USE <1>3 DEF Restarts
    <2>1. NewProvider \in ProviderState
      BY DEF NewProvider, ProviderState
    <2>2. prov' \in [Pool -> [Caller -> ProviderState]]
      BY <2>1
    <2>3. ProcessTypes'
      BY <2>2 DEF ProcessTypes
    <2>4. MutexHeld'
      BY DEF MutexHeld, Caller, Idle
    <2>5. WorkersAgree' /\ BuiltIsCached'
      BY DEF WorkersAgree, BuiltIsCached, Idle, HasProvider
    <2>6. ICEsCounted'
      BY DEF ICEsCounted, Idle
    <2> QED
      BY <2>3, <2>4, <2>5, <2>6, WorldFrame DEF IInv
  <1> QED
    BY <1>1, <1>2, <1>3

LEMMA NextIInv == ASSUME IInv, [ProvidersNext]_vars PROVE IInv'
  <1>1. ASSUME NEW c \in Caller, Work(c) PROVE IInv'
    BY <1>1, LockInv, HitInv, LoadCredentialsInv, ForPoolFailsInv, BuildInv, QuoteInv,
       GivesUpInv, ICEInv, ICEStoredInv, InsertInv, RentInv, PlaceholderInv, ReleaseDoneInv,
       ReleaseFailsInv, CapacityInv DEF Work
  <1>2. CASE UNCHANGED vars
    BY <1>2, WorldFrame DEF vars, process, world, IInv, ProcessTypes, MutexHeld, WorkersAgree,
       BuiltIsCached, ICEsCounted
  <1> QED
    BY <1>1, <1>2, BeginInv, AroundInv DEF ProvidersNext

LEMMA SpecIInv == Spec => []IInv
  BY InitIInv, NextIInv, PTL DEF Spec

-----------------------------------------------------------------------------
\* The workers and the cache have their types, a worker that calls a provider
\* has one that was built, and no report shows a price made up for an offer.
THEOREM ProvidersTypeCorrect == Spec => []ProvidersTypeOK
  <1>1. ASSUME IInv PROVE ProvidersTypeOK
    <2>1. ASSUME NEW c \in Caller, call[c].pc \notin InForPool \cup {"idle"}
          PROVE  call[c].p \in Pool /\ call[c].o \in built[call[c].p]
      <3>1. call[c] \in UseCall \cup ReleaseCall /\ call[c].p \in Pool
        BY <1>1, <2>1, CallFacts DEF IInv
      <3>2. call[c].pc \in HasProvider
        BY <2>1, <3>1 DEF UseCall, ReleaseCall, HasProvider
      <3> QED
        BY <1>1, <3>1, <3>2 DEF IInv, WorkersAgree, BuiltIsCached
    <2>2. \A p \in Pool : report[p].usd \in {0, SpotPrice}
      BY <1>1 DEF IInv, WorldTypes, ProviderState
    <2> QED
      BY <1>1, <2>1, <2>2 DEF IInv, ProcessTypes, WorldTypes, ProvidersTypeOK
  <1> QED
    BY <1>1, SpecIInv, PTL

\* However the calls of ForPool interleave, fail and are retried, a process
\* builds at most one provider for a pool.
THEOREM ProvidersBuiltOnce == Spec => []OneProviderPerPool
  <1>1. ASSUME IInv PROVE OneProviderPerPool
    BY <1>1 DEF IInv, BuiltIsCached, OneProviderPerPool
  <1> QED
    BY <1>1, SpecIInv, PTL

\* The provider that the next report is made from has every ICE that was
\* returned in this process.
THEOREM ProvidersKeepICEs == Spec => []ICEsKept
  <1>1. ASSUME IInv PROVE ICEsKept
    <2>1. \A p \in Pool : refused[p] \in Nat
      BY <1>1 DEF IInv, ProcessTypes
    <2> QED
      BY <1>1, <2>1 DEF IInv, ICEsCounted, ICEsKept
  <1> QED
    BY <1>1, SpecIInv, PTL

\* A machine whose Release returned nil is not running, in any pool but a
\* static one, which rents nothing.
THEOREM ProvidersReleaseEnds == Spec => []ReleasedIsGone
  BY SpecIInv, PTL DEF IInv
=============================================================================

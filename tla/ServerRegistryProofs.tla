------------------------- MODULE ServerRegistryProofs -------------------------
(***************************************************************************)
(* What ServerRegistry.tla guarantees for any number of servers, wherever  *)
(* a signal strikes: the vector changes only in the hands of the thread    *)
(* that holds the mutex, and who holds it is at one of the places of the   *)
(* code where it is held.                                                  *)
(***************************************************************************)
EXTENDS ServerRegistry, TLAPS, SequenceTheorems

OwnerPlaces == {"none", "constructing", "registered", "idle", "start", "shutdown",
                "destroying", "erased", "gone"}
RunnerPlaces == {"off", "open", "loop", "global", "accept", "self", "drain", "join", "done"}

\* From the push_back to the erase.
Listed == {"registered", "idle", "start", "shutdown", "destroying"}

\* In the blocks of the constructor's and the destructor's lock_guard.
Guarded == {"registered", "erased"}

\* In the block of requestGlobalShutdown's.
Looping == gpc \in {"loop", "wait"}

\* The parts of TypeOK that different steps disturb.
FlagsOK ==
  /\ started \in [Servers -> BOOLEAN]
  /\ stopRequested \in [Servers -> BOOLEAN]
  /\ stopCompleted \in [Servers -> BOOLEAN]

GlobalOK ==
  /\ globalShutdownRequested \in BOOLEAN /\ handlers \in BOOLEAN
  /\ gpc \in {"none", "lock", "loop", "wait", "done"}
  /\ caller \in Threads \cup {NoThread}
  /\ next \in 1 .. Len(registry) + 1
  /\ seen \in Seq(Servers)
  /\ closeWakesAccept \in BOOLEAN

VectorOK ==
  /\ registry \in Seq(Servers)
  /\ \A i, j \in DOMAIN registry : registry[i] = registry[j] => i = j

Types ==
  /\ VectorOK /\ FlagsOK /\ GlobalOK
  /\ registryMutex \in Threads \cup {NoThread}
  /\ opc \in [Servers -> OwnerPlaces]
  /\ rpc \in [Servers -> RunnerPlaces]

\* Who holds the mutex is in one of its three blocks, and only one thread is.
MutexInv ==
  /\ \A s \in Servers : opc[s] \in Guarded => registryMutex = Owner(s) /\ ~Looping
  /\ Looping => registryMutex = caller
  /\ gpc # "none" => caller \in Threads /\ globalShutdownRequested

\* The vector is the set of servers between the constructor's push_back and
\* the destructor's erase, and what the loop saw of it first.
ListInv ==
  /\ \A i \in DOMAIN registry : opc[registry[i]] \in Listed
  /\ \A s \in Servers : opc[s] \in Listed => \E i \in DOMAIN registry : registry[i] = s
  /\ Looping => registry = seen
  /\ ~Looping => next = 1
  /\ gpc = "wait" => next <= Len(registry)

RegistryInv == Types /\ MutexInv /\ ListInv

LEMMA TypesImplyTypeOK == Types => TypeOK
  BY DEF Types, VectorOK, FlagsOK, GlobalOK, OwnerPlaces, RunnerPlaces, TypeOK, IsInjective

LEMMA Owners ==
  /\ NoThread \notin Threads
  /\ \A s \in Servers : Owner(s) \in Threads /\ Owner(s) # NoThread
  /\ \A s, r \in Servers : Owner(s) = Owner(r) => s = r
  BY RegistryAssumption DEF Owner, Threads

-----------------------------------------------------------------------------
(* Steps of an owner that leave the vector and the mutex alone.            *)

LEMMA OwnerMoves ==
  ASSUME RegistryInv, NEW s \in Servers, NEW at \in OwnerPlaces \ Guarded, OwnerGoes(s, at),
         opc[s] \notin Guarded, opc[s] \in Listed <=> at \in Listed,
         UNCHANGED <<registry, registryMutex, globalShutdownRequested, gpc, caller, next, seen>>
  PROVE  MutexInv' /\ ListInv' /\ opc' \in [Servers -> OwnerPlaces]
<1>1. /\ opc \in [Servers -> OwnerPlaces] /\ registry \in Seq(Servers)
      /\ DOMAIN registry = 1 .. Len(registry)
      /\ \A i \in DOMAIN registry : registry[i] \in Servers
  BY LenProperties, ElementOfSeq DEF RegistryInv, Types, VectorOK
<1>2. /\ opc' \in [Servers -> OwnerPlaces]
      /\ opc'[s] = at /\ \A r \in Servers : r # s => opc'[r] = opc[r]
  BY <1>1 DEF OwnerGoes
<1>3. \A r \in Servers : /\ opc'[r] \in Guarded <=> opc[r] \in Guarded
                         /\ opc'[r] \in Listed <=> opc[r] \in Listed
  BY <1>2
<1>4. MutexInv'
  BY <1>3 DEF RegistryInv, MutexInv, Looping
<1>5. ListInv'
  BY <1>1, <1>3 DEF RegistryInv, ListInv, Looping
<1> QED
  BY <1>2, <1>4, <1>5

\* Steps that change neither the owners nor the vector, the mutex or the loop.
LEMMA OthersMove ==
  ASSUME RegistryInv, UNCHANGED <<registry, registryMutex, opc, globalVars>>
  PROVE  MutexInv' /\ ListInv'
<1>1. UNCHANGED <<registry, registryMutex, opc, globalShutdownRequested, gpc, caller, next, seen>>
  BY DEF globalVars
<1>2. MutexInv'
  BY <1>1 DEF RegistryInv, MutexInv, Looping
<1>3. ListInv'
  BY <1>1 DEF RegistryInv, ListInv, Looping
<1> QED
  BY <1>2, <1>3

LEMMA StopServerTypes ==
  ASSUME FlagsOK, NEW s \in Servers, StopServer(s)
  PROVE  FlagsOK'
  BY DEF FlagsOK, StopServer

-----------------------------------------------------------------------------
(* The constructor's and the destructor's blocks.                          *)

LEMMA RegisterKeeps ==
  ASSUME RegistryInv, NEW s \in Servers, Register(s)
  PROVE  RegistryInv'
<1>1. /\ registry \in Seq(Servers) /\ Len(registry) \in Nat
      /\ DOMAIN registry = 1 .. Len(registry)
      /\ \A i \in DOMAIN registry : registry[i] \in Servers
  BY LenProperties, ElementOfSeq DEF RegistryInv, Types, VectorOK
<1>2. /\ opc[s] = "constructing" /\ registryMutex = NoThread /\ registryMutex' = Owner(s)
      /\ registry' = Append(registry, s) /\ OwnerGoes(s, "registered")
      /\ UNCHANGED <<started, stopRequested, stopCompleted, rpc, globalShutdownRequested,
                     handlers, gpc, caller, next, seen, closeWakesAccept>>
  BY DEF Register, OwnerAt, Lock, globalVars, flags
<1>3. /\ registry' \in Seq(Servers) /\ Len(registry') = Len(registry) + 1
      /\ \A i \in 1 .. Len(registry) : registry'[i] = registry[i]
      /\ registry'[Len(registry) + 1] = s
  BY <1>1, <1>2, AppendProperties
<1>4. DOMAIN registry' = DOMAIN registry \cup {Len(registry) + 1}
  <2>1. DOMAIN registry' = 1 .. Len(registry) + 1
    BY <1>3, LenProperties
  <2> QED
    BY <1>1, <2>1
<1>5. \A i \in DOMAIN registry : registry[i] # s
  <2>1. opc[s] \notin Listed
    BY <1>2 DEF Listed
  <2> QED
    BY <2>1 DEF RegistryInv, ListInv
<1>6. ~Looping /\ ~Looping'
  <2>1. ~Looping
    BY <1>2, Owners DEF RegistryInv, MutexInv, Looping
  <2> QED
    BY <1>2, <2>1 DEF Looping
<1>7. VectorOK'
  <2> SUFFICES ASSUME NEW i \in DOMAIN registry', NEW j \in DOMAIN registry',
                      registry'[i] = registry'[j]
               PROVE  i = j
    BY <1>3 DEF VectorOK
  <2> QED
    BY <1>1, <1>3, <1>4, <1>5 DEF RegistryInv, Types, VectorOK
<1>8. /\ opc' \in [Servers -> OwnerPlaces] /\ opc'[s] = "registered"
      /\ \A r \in Servers : r # s => opc'[r] = opc[r]
  <2>1. opc \in [Servers -> OwnerPlaces] /\ "registered" \in OwnerPlaces
    BY DEF RegistryInv, Types, OwnerPlaces
  <2> QED
    BY <1>2, <2>1 DEF OwnerGoes
<1>9. Types'
  <2>1. next' = 1 /\ next' \in 1 .. Len(registry') + 1
    BY <1>1, <1>2, <1>3, <1>6 DEF RegistryInv, ListInv
  <2>2. GlobalOK'
    BY <1>2, <2>1 DEF RegistryInv, Types, GlobalOK
  <2>3. FlagsOK'
    BY <1>2 DEF RegistryInv, Types, FlagsOK
  <2>4. registryMutex' \in Threads /\ rpc' \in [Servers -> RunnerPlaces]
    BY <1>2, Owners DEF RegistryInv, Types
  <2> QED
    BY <1>7, <1>8, <2>2, <2>3, <2>4 DEF Types
<1>10. MutexInv'
  <2>1. \A r \in Servers : opc[r] \notin Guarded
    BY <1>2, Owners DEF RegistryInv, MutexInv
  <2> QED
    BY <1>2, <1>6, <1>8, <2>1 DEF RegistryInv, MutexInv
<1>11. ListInv'
  <2>1. ASSUME NEW i \in DOMAIN registry' PROVE opc'[registry'[i]] \in Listed
    <3>1. CASE i \in DOMAIN registry
      BY <1>1, <1>3, <1>5, <1>8, <3>1 DEF RegistryInv, ListInv
    <3>2. CASE i = Len(registry) + 1
      BY <1>3, <1>8, <3>2 DEF Listed
    <3> QED
      BY <1>4, <3>1, <3>2
  <2>2. ASSUME NEW r \in Servers, opc'[r] \in Listed
        PROVE  \E i \in DOMAIN registry' : registry'[i] = r
    <3>1. CASE r = s
      BY <1>3, <1>4, <3>1
    <3>2. CASE r # s
      <4>1. PICK i \in DOMAIN registry : registry[i] = r
        BY <1>8, <2>2, <3>2 DEF RegistryInv, ListInv
      <4> QED
        BY <1>1, <1>3, <1>4, <4>1
    <3> QED
      BY <3>1, <3>2
  <2>3. next' = 1 /\ gpc' # "wait"
    BY <1>2, <1>6 DEF RegistryInv, ListInv, Looping
  <2> QED
    BY <1>6, <2>1, <2>2, <2>3 DEF ListInv
<1> QED
  BY <1>9, <1>10, <1>11 DEF RegistryInv

\* What std::erase leaves of a vector that holds s once.
LEMMA WithoutOne ==
  ASSUME VectorOK, NEW s \in Servers, NEW p \in DOMAIN registry, registry[p] = s
  PROVE  /\ Without(s) \in Seq(Servers)
         /\ \A i \in DOMAIN Without(s) :
              \E j \in DOMAIN registry \ {p} :
                j = (IF i < p THEN i ELSE i + 1) /\ Without(s)[i] = registry[j]
         /\ \A j \in DOMAIN registry \ {p} :
              \E i \in DOMAIN Without(s) : Without(s)[i] = registry[j]
<1> DEFINE n == Len(registry)
           left == SubSeq(registry, 1, p - 1)
           right == SubSeq(registry, p + 1, n)
<1>1. /\ registry \in Seq(Servers) /\ n \in Nat
      /\ DOMAIN registry = 1 .. n /\ p \in 1 .. n
      /\ \A i \in 1 .. n : registry[i] \in Servers
  BY LenProperties, ElementOfSeq DEF VectorOK
<1>2. (CHOOSE i \in DOMAIN registry : registry[i] = s) = p
  BY DEF VectorOK
<1>3. Without(s) = left \o right
  BY <1>2 DEF Without, RemoveAt
<1>4. /\ left \in Seq(Servers) /\ Len(left) = p - 1
      /\ \A i \in 1 .. p - 1 : left[i] = registry[i]
  <2>1. \A i \in 1 .. p - 1 : registry[i] \in Servers
    BY <1>1
  <2>2. /\ left \in Seq(Servers) /\ Len(left) = IF 1 <= p - 1 THEN p - 1 - 1 + 1 ELSE 0
        /\ \A i \in 1 .. p - 1 - 1 + 1 : left[i] = registry[1 + i - 1]
    BY <1>1, <2>1, SubSeqProperties
  <2> HIDE DEF left
  <2> QED
    BY <1>1, <2>2
<1>5. /\ right \in Seq(Servers) /\ Len(right) = n - p
      /\ \A i \in 1 .. n - p : right[i] = registry[p + i]
  <2>1. \A i \in p + 1 .. n : registry[i] \in Servers
    BY <1>1
  <2>2. /\ right \in Seq(Servers) /\ Len(right) = IF p + 1 <= n THEN n - (p + 1) + 1 ELSE 0
        /\ \A i \in 1 .. n - (p + 1) + 1 : right[i] = registry[p + 1 + i - 1]
    BY <1>1, <2>1, SubSeqProperties
  <2> HIDE DEF right
  <2>3. Len(right) = n - p
    BY <1>1, <2>2
  <2>4. ASSUME NEW i \in 1 .. n - p PROVE right[i] = registry[p + i]
    <3>1. i \in 1 .. n - (p + 1) + 1 /\ p + 1 + i - 1 = p + i
      BY <1>1
    <3> QED
      BY <2>2, <3>1
  <2> QED
    BY <2>2, <2>3, <2>4
<1> HIDE DEF left, right, n
<1>6. /\ Without(s) \in Seq(Servers) /\ Len(Without(s)) = Len(left) + Len(right)
      /\ \A i \in 1 .. Len(left) + Len(right) :
           Without(s)[i] = IF i <= Len(left) THEN left[i] ELSE right[i - Len(left)]
  BY <1>3, <1>4, <1>5, ConcatProperties
<1>7. /\ DOMAIN Without(s) = 1 .. n - 1
      /\ \A i \in 1 .. n - 1 :
           Without(s)[i] = IF i <= p - 1 THEN left[i] ELSE right[i - (p - 1)]
  <2>1. Len(left) + Len(right) = n - 1
    BY <1>1, <1>4, <1>5
  <2>2. DOMAIN Without(s) = 1 .. n - 1
    BY <1>6, <2>1, LenProperties
  <2> QED
    BY <1>4, <1>6, <2>1, <2>2
<1>8. ASSUME NEW i \in 1 .. n - 1
      PROVE  Without(s)[i] = registry[IF i < p THEN i ELSE i + 1]
  <2>1. CASE i < p
    <3>1. i <= p - 1 /\ i \in 1 .. p - 1
      BY <1>1, <2>1
    <3> QED
      BY <1>4, <1>7, <2>1, <3>1
  <2>2. CASE ~(i < p)
    <3>1. ~(i <= p - 1) /\ i - (p - 1) \in 1 .. n - p /\ p + (i - (p - 1)) = i + 1
      BY <1>1, <2>2
    <3>2. Without(s)[i] = right[i - (p - 1)]
      BY <1>7, <3>1
    <3>3. right[i - (p - 1)] = registry[p + (i - (p - 1))]
      BY <1>5, <3>1
    <3> QED
      BY <2>2, <3>1, <3>2, <3>3
  <2> QED
    BY <2>1, <2>2
<1>9. ASSUME NEW i \in DOMAIN Without(s)
      PROVE  \E j \in DOMAIN registry \ {p} :
               j = (IF i < p THEN i ELSE i + 1) /\ Without(s)[i] = registry[j]
  <2>1. i \in 1 .. n - 1
    BY <1>7
  <2>2. (IF i < p THEN i ELSE i + 1) \in DOMAIN registry \ {p}
    BY <1>1, <2>1
  <2> QED
    BY <1>8, <2>1, <2>2
<1>10. ASSUME NEW j \in DOMAIN registry \ {p}
       PROVE  \E i \in DOMAIN Without(s) : Without(s)[i] = registry[j]
  <2> DEFINE i == IF j < p THEN j ELSE j - 1
  <2>1. i \in 1 .. n - 1 /\ (IF i < p THEN i ELSE i + 1) = j
    BY <1>1
  <2> QED
    BY <1>7, <1>8, <2>1
<1> QED
  BY <1>6, <1>9, <1>10

LEMMA EraseKeeps ==
  ASSUME RegistryInv, NEW s \in Servers, Erase(s)
  PROVE  RegistryInv'
<1>1. /\ opc[s] = "destroying" /\ registryMutex = NoThread /\ registryMutex' = Owner(s)
      /\ registry' = Without(s) /\ OwnerGoes(s, "erased")
      /\ UNCHANGED <<started, stopRequested, stopCompleted, rpc, globalShutdownRequested,
                     handlers, gpc, caller, next, seen, closeWakesAccept>>
  BY DEF Erase, OwnerAt, Lock, globalVars, flags
<1>2. VectorOK /\ \A i \in DOMAIN registry : registry[i] \in Servers
  BY LenProperties, ElementOfSeq DEF RegistryInv, Types, VectorOK
<1>3. PICK p \in DOMAIN registry : registry[p] = s
  <2>1. opc[s] \in Listed
    BY <1>1 DEF Listed
  <2> QED
    BY <2>1 DEF RegistryInv, ListInv
<1>4. /\ registry' \in Seq(Servers)
      /\ \A i \in DOMAIN registry' :
           \E j \in DOMAIN registry \ {p} :
             j = (IF i < p THEN i ELSE i + 1) /\ registry'[i] = registry[j]
      /\ \A j \in DOMAIN registry \ {p} : \E i \in DOMAIN registry' : registry'[i] = registry[j]
  BY <1>1, <1>2, <1>3, WithoutOne
<1>5. ~Looping /\ ~Looping'
  <2>1. ~Looping
    BY <1>1, Owners DEF RegistryInv, MutexInv, Looping
  <2> QED
    BY <1>1, <2>1 DEF Looping
<1>6. Len(registry') \in Nat /\ DOMAIN registry' = 1 .. Len(registry')
      /\ DOMAIN registry = 1 .. Len(registry)
  BY <1>2, <1>4, LenProperties DEF VectorOK
<1>7. VectorOK'
  <2> SUFFICES ASSUME NEW i \in DOMAIN registry', NEW j \in DOMAIN registry',
                      registry'[i] = registry'[j]
               PROVE  i = j
    BY <1>4 DEF VectorOK
  <2>1. PICK k \in DOMAIN registry \ {p} :
          k = (IF i < p THEN i ELSE i + 1) /\ registry'[i] = registry[k]
    BY <1>4
  <2>2. PICK m \in DOMAIN registry \ {p} :
          m = (IF j < p THEN j ELSE j + 1) /\ registry'[j] = registry[m]
    BY <1>4
  <2>3. k = m
    BY <1>2, <2>1, <2>2 DEF VectorOK
  <2>4. i \in Nat /\ j \in Nat /\ p \in Nat
    BY <1>3, <1>6
  <2> QED
    BY <2>1, <2>2, <2>3, <2>4
<1>8. /\ opc' \in [Servers -> OwnerPlaces] /\ opc'[s] = "erased"
      /\ \A r \in Servers : r # s => opc'[r] = opc[r]
  <2>1. opc \in [Servers -> OwnerPlaces] /\ "erased" \in OwnerPlaces
    BY DEF RegistryInv, Types, OwnerPlaces
  <2> QED
    BY <1>1, <2>1 DEF OwnerGoes
<1>9. Types'
  <2>1. next' = 1 /\ next' \in 1 .. Len(registry') + 1
    BY <1>1, <1>5, <1>6 DEF RegistryInv, ListInv
  <2>2. GlobalOK'
    BY <1>1, <2>1 DEF RegistryInv, Types, GlobalOK
  <2>3. FlagsOK'
    BY <1>1 DEF RegistryInv, Types, FlagsOK
  <2>4. registryMutex' \in Threads /\ rpc' \in [Servers -> RunnerPlaces]
    BY <1>1, Owners DEF RegistryInv, Types
  <2> QED
    BY <1>7, <1>8, <2>2, <2>3, <2>4 DEF Types
<1>10. MutexInv'
  <2>1. \A r \in Servers : opc[r] \notin Guarded
    BY <1>1, Owners DEF RegistryInv, MutexInv
  <2> QED
    BY <1>1, <1>5, <1>8, <2>1 DEF RegistryInv, MutexInv
<1>11. ListInv'
  <2>1. ASSUME NEW i \in DOMAIN registry' PROVE opc'[registry'[i]] \in Listed
    <3>1. PICK j \in DOMAIN registry \ {p} : registry'[i] = registry[j]
      BY <1>4
    <3>2. registry[j] # s /\ opc[registry[j]] \in Listed
      BY <1>2, <1>3 DEF VectorOK, RegistryInv, ListInv
    <3> QED
      BY <1>2, <1>8, <3>1, <3>2
  <2>2. ASSUME NEW r \in Servers, opc'[r] \in Listed
        PROVE  \E i \in DOMAIN registry' : registry'[i] = r
    <3>1. r # s /\ opc[r] \in Listed
      <4>1. "erased" \notin Listed
        BY DEF Listed
      <4> QED
        BY <1>8, <2>2, <4>1
    <3>2. PICK j \in DOMAIN registry : registry[j] = r
      BY <3>1 DEF RegistryInv, ListInv
    <3> QED
      BY <1>3, <1>4, <3>1, <3>2
  <2>3. next' = 1 /\ gpc' # "wait"
    BY <1>1, <1>5 DEF RegistryInv, ListInv, Looping
  <2> QED
    BY <1>5, <2>1, <2>2, <2>3 DEF ListInv
<1> QED
  BY <1>9, <1>10, <1>11 DEF RegistryInv

\* The end of either block.
LEMMA UnlockKeeps ==
  ASSUME RegistryInv, NEW s \in Servers, Registered(s) \/ Erased(s)
  PROVE  RegistryInv'
<1>1. PICK from \in Guarded, to \in OwnerPlaces \ Guarded :
        /\ opc[s] = from /\ OwnerGoes(s, to) /\ (from \in Listed <=> to \in Listed)
        /\ ~Struck(Owner(s)) /\ registryMutex' = NoThread
        /\ UNCHANGED <<registry, started, stopRequested, stopCompleted, rpc,
                       globalShutdownRequested, handlers, gpc, caller, next, seen,
                       closeWakesAccept>>
  <2>1. CASE Registered(s)
    <3>1. "registered" \in Guarded /\ "idle" \in OwnerPlaces \ Guarded
          /\ "registered" \in Listed /\ "idle" \in Listed
      BY DEF Guarded, OwnerPlaces, Listed
    <3> QED
      BY <2>1, <3>1 DEF Registered, OwnerAt, Unlock, globalVars, flags
  <2>2. CASE Erased(s)
    <3>1. "erased" \in Guarded /\ "gone" \in OwnerPlaces \ Guarded
          /\ "erased" \notin Listed /\ "gone" \notin Listed
      BY DEF Guarded, OwnerPlaces, Listed
    <3> QED
      BY <2>2, <3>1 DEF Erased, OwnerAt, Unlock, globalVars, flags
  <2> QED
    BY <2>1, <2>2
<1>2. registryMutex = Owner(s) /\ ~Looping /\ ~Looping'
  <2>1. registryMutex = Owner(s) /\ ~Looping
    BY <1>1 DEF RegistryInv, MutexInv
  <2> QED
    BY <1>1, <2>1 DEF Looping
<1>3. /\ opc' \in [Servers -> OwnerPlaces] /\ opc'[s] = to
      /\ \A r \in Servers : r # s => opc'[r] = opc[r]
  <2>1. opc \in [Servers -> OwnerPlaces]
    BY DEF RegistryInv, Types
  <2> QED
    BY <1>1, <2>1 DEF OwnerGoes
<1>4. Types'
  BY <1>1, <1>3 DEF RegistryInv, Types, VectorOK, FlagsOK, GlobalOK
<1>5. MutexInv'
  <2>1. ASSUME NEW r \in Servers PROVE opc'[r] \notin Guarded
    <3>1. CASE r = s
      BY <1>1, <1>3, <3>1
    <3>2. CASE r # s
      BY <1>2, <1>3, <3>2, Owners DEF RegistryInv, MutexInv
    <3> QED
      BY <3>1, <3>2
  <2> QED
    BY <1>1, <1>2, <2>1 DEF RegistryInv, MutexInv
<1>6. ListInv'
  <2>1. \A r \in Servers : opc'[r] \in Listed <=> opc[r] \in Listed
    BY <1>1, <1>3
  <2>2. \A i \in DOMAIN registry : registry[i] \in Servers
    BY LenProperties, ElementOfSeq DEF RegistryInv, Types, VectorOK
  <2> QED
    BY <1>1, <1>2, <2>1, <2>2 DEF RegistryInv, ListInv, Looping
<1> QED
  BY <1>4, <1>5, <1>6 DEF RegistryInv

-----------------------------------------------------------------------------
(* The other steps.                                                        *)

LEMMA OwnerKeeps ==
  ASSUME RegistryInv, NEW s \in Servers,
         Construct(s) \/ Start(s) \/ StartReturns(s) \/ Shutdown(s) \/ ShutdownReturns(s)
           \/ Destroy(s)
  PROVE  RegistryInv'
<1>1. PICK from, to :
        /\ opc[s] = from /\ OwnerGoes(s, to)
        /\ \/ from = "none" /\ to = "constructing"
           \/ from \in {"idle", "start", "shutdown"}
              /\ to \in {"idle", "start", "shutdown", "destroying"}
  BY DEF Construct, Start, StartReturns, Shutdown, ShutdownReturns, Destroy, OwnerAt
<1>2. /\ UNCHANGED <<registry, registryMutex, globalShutdownRequested, gpc, caller, next, seen,
                     closeWakesAccept>>
      /\ handlers' = handlers \/ handlers' = TRUE
  BY DEF Construct, Start, StartReturns, Shutdown, ShutdownReturns, Destroy, globalVars
<1>3. to \in OwnerPlaces \ Guarded /\ from \notin Guarded /\ (from \in Listed <=> to \in Listed)
  BY <1>1 DEF OwnerPlaces, Guarded, Listed
<1>4. MutexInv' /\ ListInv' /\ opc' \in [Servers -> OwnerPlaces]
  BY <1>1, <1>2, <1>3, OwnerMoves
<1>5. FlagsOK'
  <2>1. UNCHANGED flags \/ StopServer(s)
    BY DEF Construct, Start, StartReturns, Shutdown, ShutdownReturns, Destroy
  <2> QED
    BY <2>1, StopServerTypes DEF RegistryInv, Types, FlagsOK, flags
<1>6. rpc' \in [Servers -> RunnerPlaces]
  <2>1. rpc' = rpc \/ rpc' = [rpc EXCEPT ![s] = "open"]
    BY DEF Construct, Start, StartReturns, Shutdown, ShutdownReturns, Destroy, RunnerGoes
  <2>2. "open" \in RunnerPlaces
    BY DEF RunnerPlaces
  <2> QED
    BY <2>1, <2>2 DEF RegistryInv, Types
<1> QED
  BY <1>2, <1>4, <1>5, <1>6 DEF RegistryInv, Types, VectorOK, GlobalOK

LEMMA RunnerKeeps ==
  ASSUME RegistryInv, NEW s \in Servers, RunnerStep(s) \/ OpenFails(s) \/ AcceptReturns(s)
  PROVE  RegistryInv'
<1> USE DEF RunnerStep, RunnerUnchanged
<1>1. UNCHANGED <<registry, registryMutex, opc, globalVars, closeWakesAccept>>
  BY DEF Open, LoopTest, GlobalTest, AcceptWakes, Complete, PoolShutdown, OpenFails, AcceptReturns
<1>2. FlagsOK'
  <2>1. \/ UNCHANGED flags \/ StopServer(s)
        \/ Open(s) \/ Complete(s)
    BY DEF LoopTest, GlobalTest, AcceptWakes, PoolShutdown, OpenFails, AcceptReturns
  <2>2. ASSUME Open(s) \/ Complete(s) PROVE FlagsOK'
    BY <2>2 DEF RegistryInv, Types, FlagsOK, Open, Complete
  <2> QED
    BY <2>1, <2>2, StopServerTypes DEF RegistryInv, Types, FlagsOK, flags
<1>3. rpc' \in [Servers -> RunnerPlaces]
  <2>1. PICK at : RunnerGoes(s, at) /\ at \in RunnerPlaces
    <3>1. \E at \in {"loop", "drain", "global", "accept", "self", "join", "done", "off"} :
            RunnerGoes(s, at)
      BY DEF Open, LoopTest, GlobalTest, AcceptWakes, Complete, PoolShutdown, OpenFails,
             AcceptReturns
    <3>2. {"loop", "drain", "global", "accept", "self", "join", "done", "off"}
            \subseteq RunnerPlaces
      BY DEF RunnerPlaces
    <3> QED
      BY <3>1, <3>2
  <2> QED
    BY <2>1 DEF RegistryInv, Types, RunnerGoes
<1>4. MutexInv' /\ ListInv'
  BY <1>1, OthersMove
<1> QED
  BY <1>1, <1>2, <1>3, <1>4 DEF RegistryInv, Types, VectorOK, GlobalOK, globalVars

LEMMA RequestKeeps ==
  ASSUME RegistryInv, NEW t \in Threads, RequestGlobalShutdown(t)
  PROVE  RegistryInv'
<1>1. /\ ~globalShutdownRequested /\ globalShutdownRequested' = TRUE
      /\ gpc' = "lock" /\ caller' = t
      /\ UNCHANGED <<registry, registryMutex, started, stopRequested, stopCompleted, handlers,
                     opc, rpc, next, seen, closeWakesAccept>>
  BY DEF RequestGlobalShutdown, flags
<1>2. gpc = "none" /\ ~Looping /\ ~Looping'
  <2>1. gpc = "none"
    BY <1>1 DEF RegistryInv, MutexInv
  <2> QED
    BY <1>1, <2>1 DEF Looping
<1>3. Types'
  BY <1>1 DEF RegistryInv, Types, VectorOK, FlagsOK, GlobalOK
<1>4. MutexInv'
  BY <1>1, <1>2 DEF RegistryInv, MutexInv
<1>5. ListInv'
  BY <1>1, <1>2 DEF RegistryInv, ListInv
<1> QED
  BY <1>3, <1>4, <1>5 DEF RegistryInv

LEMMA GlobalKeeps ==
  ASSUME RegistryInv, GlobalStep
  PROVE  RegistryInv'
<1>1. /\ UNCHANGED <<registry, handlers, opc, rpc, globalShutdownRequested, caller,
                     closeWakesAccept>>
      /\ registry \in Seq(Servers) /\ Len(registry) \in Nat
      /\ next \in 1 .. Len(registry) + 1
  BY LenProperties DEF GlobalStep, GlobalLock, GlobalNext, GlobalWaited, GlobalReturns,
                       RegistryInv, Types, VectorOK, GlobalOK
<1>2. CASE GlobalLock
  <2>1. /\ gpc = "lock" /\ gpc' = "loop" /\ registryMutex = NoThread /\ registryMutex' = caller
        /\ seen' = registry
        /\ UNCHANGED <<started, stopRequested, stopCompleted, next>>
    BY <1>2 DEF GlobalLock, Lock, flags
  <2>2. caller \in Threads /\ \A s \in Servers : opc[s] \notin Guarded
    BY <2>1, Owners DEF RegistryInv, MutexInv
  <2>3. Types'
    BY <1>1, <2>1, <2>2 DEF RegistryInv, Types, VectorOK, FlagsOK, GlobalOK
  <2>4. MutexInv'
    BY <1>1, <2>1, <2>2 DEF RegistryInv, MutexInv
  <2>5. ListInv'
    BY <1>1, <2>1 DEF RegistryInv, ListInv, Looping
  <2> QED
    BY <2>3, <2>4, <2>5 DEF RegistryInv
<1>3. CASE GlobalNext
  <2>1. /\ gpc = "loop" /\ next <= Len(registry) /\ UNCHANGED <<registryMutex, seen>>
        /\ \/ StopServer(registry[next]) /\ gpc' = "wait" /\ next' = next
           \/ next' = next + 1 /\ gpc' = gpc
              /\ UNCHANGED <<started, stopRequested, stopCompleted>>
    BY <1>3 DEF GlobalNext, flags
  <2>2. FlagsOK'
    <3>1. registry[next] \in Servers
      BY <1>1, <2>1, ElementOfSeq
    <3> QED
      BY <2>1, <3>1, StopServerTypes DEF RegistryInv, Types, FlagsOK
  <2>3. Looping /\ Looping' /\ gpc' \in {"loop", "wait"}
    BY <2>1 DEF Looping
  <2>4. next' \in 1 .. Len(registry) + 1 /\ (gpc' = "wait" => next' <= Len(registry))
    BY <1>1, <2>1
  <2>5. Types'
    <3>1. GlobalOK'
      BY <1>1, <2>1, <2>3, <2>4 DEF RegistryInv, Types, GlobalOK
    <3> QED
      BY <1>1, <2>1, <2>2, <3>1 DEF RegistryInv, Types, VectorOK
  <2>6. MutexInv'
    BY <1>1, <2>1, <2>3 DEF RegistryInv, MutexInv
  <2>7. ListInv'
    BY <1>1, <2>1, <2>3, <2>4 DEF RegistryInv, ListInv
  <2> QED
    BY <2>5, <2>6, <2>7 DEF RegistryInv
<1>4. CASE GlobalWaited
  <2>1. /\ gpc = "wait" /\ next' = next + 1 /\ gpc' = "loop"
        /\ UNCHANGED <<registryMutex, started, stopRequested, stopCompleted, seen>>
    BY <1>4 DEF GlobalWaited, flags
  <2>2. Looping /\ Looping'
    BY <2>1 DEF Looping
  <2>3. next' \in 1 .. Len(registry) + 1
    BY <1>1, <2>1 DEF RegistryInv, ListInv
  <2>4. Types'
    BY <1>1, <2>1, <2>3 DEF RegistryInv, Types, VectorOK, FlagsOK, GlobalOK
  <2>5. MutexInv'
    BY <1>1, <2>1, <2>2 DEF RegistryInv, MutexInv
  <2>6. ListInv'
    BY <1>1, <2>1, <2>2 DEF RegistryInv, ListInv
  <2> QED
    BY <2>4, <2>5, <2>6 DEF RegistryInv
<1>5. CASE GlobalReturns
  <2>1. /\ gpc = "loop" /\ gpc' = "done" /\ next' = 1 /\ registryMutex' = NoThread
        /\ UNCHANGED <<started, stopRequested, stopCompleted, seen>>
    BY <1>5 DEF GlobalReturns, Unlock, flags
  <2>2. Looping /\ ~Looping' /\ \A s \in Servers : opc[s] \notin Guarded
    BY <2>1 DEF Looping, RegistryInv, MutexInv
  <2>3. next' \in 1 .. Len(registry) + 1
    BY <1>1, <2>1
  <2>4. Types'
    BY <1>1, <2>1, <2>3 DEF RegistryInv, Types, VectorOK, FlagsOK, GlobalOK
  <2>5. MutexInv'
    BY <1>1, <2>1, <2>2 DEF RegistryInv, MutexInv
  <2>6. ListInv'
    BY <1>1, <2>1, <2>2 DEF RegistryInv, ListInv
  <2> QED
    BY <2>4, <2>5, <2>6 DEF RegistryInv
<1> QED
  BY <1>2, <1>3, <1>4, <1>5 DEF GlobalStep

LEMMA RegistryInvInit == Init => RegistryInv
<1> SUFFICES ASSUME Init PROVE RegistryInv
  OBVIOUS
<1>1. registry \in Seq(Servers) /\ Len(registry) = 0 /\ seen \in Seq(Servers)
  BY EmptySeq DEF Init
<1>2. VectorOK
  BY <1>1 DEF Init, VectorOK
<1>3. FlagsOK
  BY DEF Init, FlagsOK
<1>4. GlobalOK
  <2>1. next \in 1 .. Len(registry) + 1
    BY <1>1 DEF Init
  <2>2. gpc = "none" /\ caller = NoThread /\ globalShutdownRequested = FALSE
    BY DEF Init
  <2>3. closeWakesAccept \in BOOLEAN /\ handlers = FALSE
    BY Zenon DEF Init
  <2> QED
    BY <1>1, <2>1, <2>2, <2>3, Zenon DEF GlobalOK
<1>5. opc \in [Servers -> OwnerPlaces] /\ rpc \in [Servers -> RunnerPlaces]
  BY DEF Init, OwnerPlaces, RunnerPlaces
<1>6. Types
  BY <1>2, <1>3, <1>4, <1>5 DEF Init, Types
<1>7. \A s \in Servers : opc[s] = "none"
  BY DEF Init
<1>8. MutexInv
  BY <1>7 DEF Init, MutexInv, Looping, Guarded
<1>9. ListInv
  BY <1>7 DEF Init, ListInv, Looping, Listed
<1> QED
  BY <1>6, <1>8, <1>9 DEF RegistryInv

LEMMA RegistryInvNext == RegistryInv /\ [Next]_vars => RegistryInv'
<1> SUFFICES ASSUME RegistryInv, [Next]_vars PROVE RegistryInv'
  OBVIOUS
<1>1. CASE UNCHANGED vars
  <2>1. UNCHANGED <<registry, registryMutex, opc, rpc, closeWakesAccept, globalVars, flags>>
    BY <1>1 DEF vars
  <2>2. MutexInv' /\ ListInv'
    BY <2>1, OthersMove
  <2> QED
    BY <2>1, <2>2 DEF RegistryInv, Types, VectorOK, FlagsOK, GlobalOK, globalVars, flags
<1>2. CASE Next
  BY <1>2, RegisterKeeps, EraseKeeps, UnlockKeeps, OwnerKeeps, RunnerKeeps, RequestKeeps,
     GlobalKeeps DEF Next, OwnerStep
<1> QED
  BY <1>1, <1>2

LEMMA RegistryInvariant == Spec => []RegistryInv
  BY RegistryInvInit, RegistryInvNext, PTL DEF Spec

\* For any number of servers: the vector never holds a server twice, and the
\* place the loop has got to is always one of the vector's.
THEOREM RegistryTypeOK == Spec => []TypeOK
  BY RegistryInvariant, TypesImplyTypeOK, PTL DEF RegistryInv

\* For any number of servers and wherever a signal strikes: requestGlobalShutdown
\* never has the vector changed under its loop, and meets only live servers.
THEOREM RegistryLoopMeetsTheLiving == Spec => []LoopMeetsTheLiving
<1>1. RegistryInv => LoopMeetsTheLiving
  BY DEF RegistryInv, ListInv, Looping, Listed, LoopMeetsTheLiving
<1> QED
  BY <1>1, RegistryInvariant, PTL

===============================================================================

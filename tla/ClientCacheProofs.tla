---------------------------- MODULE ClientCacheProofs ----------------------------
(****************************************************************************)
(* The cache stops serving rotated credentials in time: proofs for any      *)
(* number of concurrent calls and rotations, any TTL and any delay of a     *)
(* call.                                                                    *)
(****************************************************************************)
EXTENDS ClientCache, TLAPS

(* Ages stop at the bound. *)
LEMMA OlderType ==
    ASSUME NEW n \in 0 .. Oldest
    PROVE  Older(n) \in 0 .. Oldest /\ Older(n) <= n + 1
BY ClientCacheAssumption DEF Older, Oldest, ClientCacheAssumption

(* A call that returns is forgotten. *)
LEMMA ReturnEffect ==
    ASSUME TypeOK, NEW w \in Workers, Return(w)
    PROVE  /\ pc' \in [Workers -> {"idle", "read", "store"}] /\ asked' \in [Workers -> Kinds]
           /\ key' \in [Workers -> 0 .. MaxRotations] /\ waited' \in [Workers -> 0 .. MaxCall]
           /\ \A u \in Storing' :
                 u \in Storing /\ key'[u] = key[u] /\ waited'[u] = waited[u]
BY ClientCacheAssumption DEF TypeOK, Return, Storing, Kinds, ClientCacheAssumption

(* The cache starts empty. *)
LEMMA CacheInit == Init => CacheInv
<1> SUFFICES ASSUME Init PROVE CacheInv
  OBVIOUS
<1> USE ClientCacheAssumption DEF ClientCacheAssumption
<1>1. NoEntry \in [kind : Kinds, key : 0 .. MaxRotations, ttl : -1 .. TTL] /\ ~(NoEntry.ttl > 0)
  BY DEF NoEntry, Kinds
<1>2. TypeOK
  BY <1>1 DEF Init, TypeOK, Kinds, Nothing, Oldest
<1>3. EntryRecent /\ ReadRecent /\ KeptIsYoung /\ StoredIsKnown
  BY <1>1 DEF Init, EntryRecent, ReadRecent, Storing, KeptIsYoung, StoredIsKnown
<1>4. CredentialsRecent
  BY DEF Init, CredentialsRecent
<1> QED
  BY <1>2, <1>3, <1>4 DEF CacheInv

(* A step that answers no call says nothing about answers. *)
LEMMA NothingServed ==
    ASSUME served' = Nothing
    PROVE  CredentialsRecent' /\ served' \in 0 .. MaxRotations
BY ClientCacheAssumption DEF CredentialsRecent, Nothing, ClientCacheAssumption

(* Lookups. *)
LEMMA LookupStep ==
    ASSUME CacheInv, NEW w \in Workers, NEW k \in Kinds, Lookup(w, k)
    PROVE  CacheInv'
<1> USE ClientCacheAssumption DEF CacheInv, ClientCacheAssumption
<1>1. UNCHANGED <<secret, latest, age, entry>>
  BY DEF Lookup
<1>2. EntryRecent' /\ KeptIsYoung' /\ StoredIsKnown'
  BY <1>1 DEF EntryRecent, KeptIsYoung, StoredIsKnown, Current
<1>3. CASE Hit(k) /\ UNCHANGED callVars /\ served' = entry.key
  <2>1. ReadRecent'
    BY <1>1, <1>3 DEF ReadRecent, Storing, callVars
  <2>2. TypeOK'
    BY <1>1, <1>3 DEF TypeOK, callVars
  <2>3. /\ entry.ttl > 0 /\ entry.key \in 1 .. latest
        /\ age[entry.key] + entry.ttl <= Oldest
    BY <1>3 DEF Hit, EntryRecent
  <2>4. age[entry.key] \in 0 .. Oldest /\ entry.ttl \in -1 .. TTL
    BY <2>3 DEF TypeOK, Values
  <2>5. age[entry.key] < TTL + MaxCall
    BY <2>3, <2>4 DEF Oldest
  <2>6. CredentialsRecent'
    BY <1>1, <1>3, <2>5 DEF CredentialsRecent
  <2> QED
    BY <1>2, <2>1, <2>2, <2>6
<1>4. CASE /\ pc' = [pc EXCEPT ![w] = "read"] /\ asked' = [asked EXCEPT ![w] = k]
           /\ served' = Nothing /\ UNCHANGED <<key, waited>>
  <2>1. TypeOK'
    BY <1>1, <1>4, NothingServed DEF TypeOK
  <2>2. ReadRecent'
    BY <1>1, <1>4 DEF ReadRecent, Storing, TypeOK
  <2> QED
    BY <1>2, <1>4, <2>1, <2>2, NothingServed
<1> QED
  BY <1>3, <1>4 DEF Lookup

(* The Secret is read, or cannot be. *)
LEMMA ReadStep ==
    ASSUME CacheInv, NEW w \in Workers, ReadSecret(w) \/ ReadFails(w)
    PROVE  CacheInv'
<1> USE ClientCacheAssumption DEF CacheInv, ClientCacheAssumption
<1>1. UNCHANGED <<secret, latest, age, entry>> /\ served' = Nothing
  BY DEF ReadSecret, ReadFails
<1>2. EntryRecent' /\ KeptIsYoung' /\ StoredIsKnown'
  BY <1>1 DEF EntryRecent, KeptIsYoung, StoredIsKnown, Current
<1>3. CASE ReadSecret(w)
  <2>1. PICK v \in secret[asked[w]] : key' = [key EXCEPT ![w] = v]
    BY <1>3 DEF ReadSecret
  <2>2. v \in Values /\ v \in 1 .. latest /\ v \in Current
    BY DEF TypeOK, StoredIsKnown, Current, Kinds
  <2>3. age[v] = 0
    BY <2>2 DEF KeptIsYoung
  <2>4. /\ pc[w] = "read" /\ pc' = [pc EXCEPT ![w] = "store"] /\ asked' = asked
        /\ waited' = [waited EXCEPT ![w] = 0]
    BY <1>3 DEF ReadSecret
  <2>5. TypeOK'
    <3>1. v \in 0 .. MaxRotations
      BY <2>2 DEF Values
    <3>2. key' \in [Workers -> 0 .. MaxRotations] /\ waited' \in [Workers -> 0 .. MaxCall]
      BY <2>1, <2>4, <3>1 DEF TypeOK
    <3> QED
      BY <1>1, <2>4, <3>2, NothingServed DEF TypeOK
  <2>6. ReadRecent'
    BY <1>1, <2>1, <2>2, <2>3, <2>4 DEF ReadRecent, Storing, TypeOK
  <2> QED
    BY <1>1, <1>2, <2>5, <2>6, NothingServed
<1>4. CASE ReadFails(w)
  <2>1. Return(w)
    BY <1>4 DEF ReadFails
  <2>2. TypeOK'
    BY <1>1, <2>1, ReturnEffect, NothingServed DEF TypeOK
  <2>3. ReadRecent'
    BY <1>1, <2>1, ReturnEffect DEF ReadRecent
  <2> QED
    BY <1>1, <1>2, <2>2, <2>3, NothingServed
<1> QED
  BY <1>3, <1>4

(* The entry is stored and the call answered. *)
LEMMA StoreStep ==
    ASSUME CacheInv, NEW w \in Workers, StoreEntry(w)
    PROVE  CacheInv'
<1> USE ClientCacheAssumption DEF CacheInv, ClientCacheAssumption
<1>1. /\ UNCHANGED <<secret, latest, age>> /\ Return(w) /\ w \in Storing
      /\ entry' = [kind |-> asked[w], key |-> key[w], ttl |-> TTL]
      /\ served' = key[w]
  BY DEF StoreEntry, Storing
<1>2. /\ asked[w] \in Kinds /\ key[w] \in 0 .. MaxRotations /\ waited[w] \in 0 .. MaxCall
      /\ key[w] \in 1 .. latest /\ age[key[w]] <= waited[w]
  BY <1>1 DEF TypeOK, ReadRecent
<1>3. age[key[w]] \in 0 .. Oldest
  BY <1>2 DEF TypeOK, Values
<1>4. entry' \in [kind : Kinds, key : 0 .. MaxRotations, ttl : -1 .. TTL]
  BY <1>1, <1>2
<1>5. TypeOK'
  BY <1>1, <1>2, <1>4, ReturnEffect DEF TypeOK
<1>6. ReadRecent'
  BY <1>1, ReturnEffect DEF ReadRecent
<1>7. EntryRecent' /\ CredentialsRecent'
  BY <1>1, <1>2, <1>3 DEF EntryRecent, CredentialsRecent, Oldest
<1>8. KeptIsYoung' /\ StoredIsKnown'
  BY <1>1 DEF KeptIsYoung, StoredIsKnown, Current
<1> QED
  BY <1>5, <1>6, <1>7, <1>8

(* Users change the Secret: what leaves it starts to age. *)
LEMMA SecretStep ==
    ASSUME CacheInv, NEW k \in Kinds, Rotate(k) \/ RemoveFields(k)
    PROVE  CacheInv'
<1> USE ClientCacheAssumption DEF CacheInv, ClientCacheAssumption
<1>1. /\ UNCHANGED <<age, entry, callVars>> /\ served' = Nothing
      /\ latest' \in 0 .. MaxRotations /\ latest <= latest' /\ latest' <= latest + 1
  BY DEF Rotate, RemoveFields, TypeOK
<1>2. PICK s : /\ secret' = [secret EXCEPT ![k] = s]
               /\ s \subseteq secret[k] \cup (IF latest' = latest THEN {} ELSE {latest'})
  BY DEF Rotate, RemoveFields, TypeOK
<1>3. latest' # latest => latest' \in Values
  BY <1>1 DEF TypeOK, Values
<1>4. secret' \in [Kinds -> SUBSET Values]
  BY <1>2, <1>3 DEF TypeOK
<1>5. TypeOK'
  BY <1>1, <1>4, NothingServed DEF TypeOK, callVars
<1>6. 1 .. latest \subseteq 1 .. latest' /\ (latest' # latest => latest' \in 1 .. latest')
  BY <1>1 DEF TypeOK
<1>7. StoredIsKnown'
  BY <1>2, <1>6 DEF StoredIsKnown, TypeOK
<1>8. KeptIsYoung'
  <2> SUFFICES ASSUME NEW v \in Values, v \in Current' \/ v > latest'
               PROVE  age[v] = 0
    BY <1>1 DEF KeptIsYoung
  <2>1. v \in Current \/ v > latest
    BY <1>1, <1>2, <1>3 DEF Current, TypeOK, Values, Kinds
  <2> QED
    BY <2>1 DEF KeptIsYoung
<1>9. EntryRecent' /\ ReadRecent'
  BY <1>1, <1>6 DEF EntryRecent, ReadRecent, Storing, callVars
<1> QED
  BY <1>1, <1>5, <1>7, <1>8, <1>9, NothingServed

(* Time passes: an entry loses what its contents gain, and so does a call. *)
LEMMA TickStep ==
    ASSUME CacheInv, Tick
    PROVE  CacheInv'
<1> USE ClientCacheAssumption DEF CacheInv, ClientCacheAssumption
<1>1. UNCHANGED <<secret, latest, pc, asked, key>> /\ served' = Nothing
  BY DEF Tick
<1>2. \A v \in Values : /\ age'[v] \in 0 .. Oldest /\ age'[v] <= age[v] + 1
                        /\ v \in Current \/ v > latest => age'[v] = age[v]
  BY OlderType DEF Tick, TypeOK
<1>3. \A w \in Workers : /\ waited'[w] \in 0 .. MaxCall
                         /\ w \in Storing => waited'[w] = waited[w] + 1
  BY DEF Tick, TypeOK
<1>4. /\ entry'.key = entry.key
      /\ entry' \in [kind : Kinds, key : 0 .. MaxRotations, ttl : -1 .. TTL]
      /\ entry'.ttl > 0 => entry.ttl > 0 /\ entry'.ttl = entry.ttl - 1
      /\ entry.ttl \in -1 .. TTL
  BY DEF Tick, TypeOK
<1>5. age' \in [Values -> 0 .. Oldest] /\ waited' \in [Workers -> 0 .. MaxCall]
  BY <1>2, <1>3 DEF Tick
<1>6. TypeOK'
  BY <1>1, <1>4, <1>5, NothingServed DEF TypeOK
<1>7. KeptIsYoung' /\ StoredIsKnown'
  BY <1>1, <1>2 DEF KeptIsYoung, StoredIsKnown, Current
<1>8. ReadRecent'
  <2> SUFFICES ASSUME NEW w \in Storing
               PROVE  key[w] \in 1 .. latest /\ age'[key[w]] <= waited'[w]
    BY <1>1 DEF ReadRecent, Storing
  <2>1. key[w] \in 1 .. latest /\ age[key[w]] <= waited[w] /\ w \in Workers
    BY DEF ReadRecent, Storing
  <2>2. key[w] \in Values
    BY <2>1 DEF TypeOK, Values
  <2>3. age[key[w]] \in 0 .. Oldest /\ waited[w] \in 0 .. MaxCall
    BY <2>1, <2>2 DEF TypeOK
  <2>4. /\ age'[key[w]] \in 0 .. Oldest /\ age'[key[w]] <= age[key[w]] + 1
        /\ waited'[w] = waited[w] + 1
    BY <1>2, <1>3, <2>1, <2>2
  <2> QED
    BY <2>1, <2>3, <2>4
<1>9. EntryRecent'
  <2> SUFFICES ASSUME entry'.ttl > 0
               PROVE  /\ entry'.key \in 1 .. latest
                      /\ age'[entry.key] + entry'.ttl <= Oldest
    BY <1>1, <1>4 DEF EntryRecent
  <2>1. /\ entry.key \in 1 .. latest /\ entry'.ttl = entry.ttl - 1
        /\ age[entry.key] + entry.ttl <= Oldest
    BY <1>4 DEF EntryRecent
  <2>2. entry.key \in Values
    BY <2>1 DEF TypeOK, Values
  <2>3. /\ age[entry.key] \in 0 .. Oldest /\ age'[entry.key] \in 0 .. Oldest
        /\ age'[entry.key] <= age[entry.key] + 1
    BY <1>2, <2>2 DEF TypeOK
  <2>4. Oldest \in Nat
    BY DEF Oldest
  <2> QED
    BY <1>4, <2>1, <2>3, <2>4
<1> QED
  BY <1>1, <1>6, <1>7, <1>8, <1>9, NothingServed

(* The invariant of the cache holds throughout. *)
THEOREM CacheInvariant == Spec => []CacheInv
<1>1. Init => CacheInv
  BY CacheInit
<1>2. CacheInv /\ [Next]_vars => CacheInv'
  <2> SUFFICES ASSUME CacheInv, [Next]_vars PROVE CacheInv'
    OBVIOUS
  <2>1. CASE UNCHANGED vars
    BY <2>1 DEF vars, callVars, CacheInv, TypeOK, EntryRecent, ReadRecent, Storing, KeptIsYoung,
                StoredIsKnown, CredentialsRecent, Current
  <2>2. CASE Cleanup
    <3>1. /\ UNCHANGED <<secret, latest, age, callVars>> /\ served' = Nothing
          /\ entry' = NoEntry
      BY <2>2 DEF Cleanup
    <3>2. /\ NoEntry \in [kind : Kinds, key : 0 .. MaxRotations, ttl : -1 .. TTL]
          /\ ~(NoEntry.ttl > 0)
      BY ClientCacheAssumption DEF NoEntry, Kinds, ClientCacheAssumption
    <3>3. TypeOK'
      BY <3>1, <3>2, NothingServed DEF CacheInv, TypeOK, callVars
    <3>4. EntryRecent' /\ ReadRecent' /\ KeptIsYoung' /\ StoredIsKnown'
      BY <3>1, <3>2
         DEF CacheInv, EntryRecent, ReadRecent, Storing, KeptIsYoung, StoredIsKnown, Current,
             callVars
    <3> QED
      BY <3>1, <3>3, <3>4, NothingServed DEF CacheInv
  <2> QED
    BY <2>1, <2>2, LookupStep, ReadStep, StoreStep, SecretStep, TickStep DEF Next
<1> QED
  BY <1>1, <1>2, PTL DEF Spec

(* The cache serves a credential for less than secretTTL after it was taken out of
   the Secret, and the delay of one call, however the calls interleave with the
   rotation and with each other. *)
THEOREM RotationTakesEffect == Spec => []CredentialsRecent
<1>1. CacheInv => CredentialsRecent
  BY DEF CacheInv
<1> QED
  BY <1>1, CacheInvariant, PTL

(* An entry never has more than its TTL left, and the other variables keep their
   types. *)
THEOREM CacheTypes == Spec => []TypeOK
<1>1. CacheInv => TypeOK
  BY DEF CacheInv
<1> QED
  BY <1>1, CacheInvariant, PTL
==============================================================================

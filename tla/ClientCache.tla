------------------------------ MODULE ClientCache ------------------------------
(****************************************************************************)
(* The client factory (internal/client/scaleset_client.go) and the secret   *)
(* half of its cache (internal/client/cache.go): the reconciles of both     *)
(* controllers ask for the credentials of an AutoscaleSet, the private key  *)
(* of a GitHub App or a personal access token, and several AutoscaleSets may*)
(* name the same Secret.                                                    *)
(*                                                                          *)
(* Entries of the cache do not influence each other, so there is one Secret *)
(* here.  Time is counted in ticks; an entry holds the ticks that it has    *)
(* left.  The lock is held for a lookup and for a store, never between them.*)
(* The Secret is the one that the informer shows.  Which App the cached     *)
(* configuration names is left out: a hit does not look at it, so that an   *)
(* AutoscaleSet may be served the client ID of another one with the same    *)
(* Secret.                                                                  *)
(****************************************************************************)
EXTENDS Integers

CONSTANTS
    Workers,      \* goroutines that reconcile
    TTL,          \* secretTTL
    MaxCall,      \* ticks that a call may take after it has read the Secret
    MaxRotations  \* bound on the number of credentials that were ever stored

ASSUME ClientCacheAssumption == TTL \in Nat \ {0} /\ MaxCall \in Nat /\ MaxRotations \in Nat

VARIABLES
    secret,       \* secret[k]: the values in the fields that may hold a k
    latest,       \* the newest value
    age,          \* age[v]: ticks since v was taken out of the Secret
    entry,        \* the entry of secretCache
    pc,           \* pc[w]: the next step of w's call
    asked,        \* asked[w]: the kind of credentials w's call is made for
    key,          \* key[w]: what w has read from the Secret
    waited,       \* waited[w]: ticks since then
    served        \* the answer of the call that has just returned

callVars == <<pc, asked, key, waited>>
vars == <<secret, latest, age, entry, callVars, served>>

Kinds == {"app", "pat"}
Values == 1 .. MaxRotations
Current == secret["app"] \cup secret["pat"]
Oldest == TTL + MaxCall

(* An entry that nobody has stored looks like one that ran out long ago. *)
NoEntry == [kind |-> "pat", key |-> 0, ttl |-> -1]
Nothing == 0

TypeOK ==
    /\ secret \in [Kinds -> SUBSET Values]
    /\ latest \in 0 .. MaxRotations
    /\ age \in [Values -> 0 .. Oldest]
    /\ entry \in [kind : Kinds, key : 0 .. MaxRotations, ttl : -1 .. TTL]
    /\ pc \in [Workers -> {"idle", "read", "store"}]
    /\ asked \in [Workers -> Kinds] /\ key \in [Workers -> 0 .. MaxRotations]
    /\ waited \in [Workers -> 0 .. MaxCall]
    /\ served \in 0 .. MaxRotations

Init ==
    /\ secret = [k \in Kinds |-> {}] /\ latest = 0
    /\ age = [v \in Values |-> 0]
    /\ entry = NoEntry
    /\ pc = [w \in Workers |-> "idle"]
    /\ asked = [w \in Workers |-> "pat"] /\ key = [w \in Workers |-> 0]
    /\ waited = [w \in Workers |-> 0]
    /\ served = Nothing

------------------------------------------------------------------------------
(* GetGitHubAppConfig and GetPATConfig *)

(* Seeded fault: an entry serves until it is cleaned up. *)
HitUntilCleanup(k) == entry.ttl >= 0 /\ entry.kind = k

(* The entry has not expired and holds credentials of the kind that is asked
   for, whoever's they are. *)
Hit(k) == entry.ttl > 0 /\ entry.kind = k

Lookup(w, k) ==
    /\ pc[w] = "idle"
    /\ \/ /\ Hit(k)
          /\ served' = entry.key
          /\ UNCHANGED callVars
       \/ /\ ~Hit(k)
          /\ pc' = [pc EXCEPT ![w] = "read"]
          /\ asked' = [asked EXCEPT ![w] = k]
          /\ served' = Nothing /\ UNCHANGED <<key, waited>>
    /\ UNCHANGED <<secret, latest, age, entry>>

(* The call ends, and what it worked with is dropped. *)
Return(w) ==
    /\ pc' = [pc EXCEPT ![w] = "idle"]
    /\ asked' = [asked EXCEPT ![w] = "pat"]
    /\ key' = [key EXCEPT ![w] = 0]
    /\ waited' = [waited EXCEPT ![w] = 0]

(* The Secret is read: with several fields that may hold the key, any of them,
   since the fields come in the order of a Go map. *)
ReadSecret(w) ==
    /\ pc[w] = "read"
    /\ \E v \in secret[asked[w]] : key' = [key EXCEPT ![w] = v]
    /\ pc' = [pc EXCEPT ![w] = "store"]
    /\ waited' = [waited EXCEPT ![w] = 0]
    /\ served' = Nothing
    /\ UNCHANGED <<secret, latest, age, entry, asked>>

(* There is no Secret, it has no such field, or the call fails. *)
ReadFails(w) ==
    /\ pc[w] = "read"
    /\ Return(w)
    /\ served' = Nothing
    /\ UNCHANGED <<secret, latest, age, entry>>

(* Seeded fault: the deadline is one tick late. *)
StoreLonger(w) ==
    /\ pc[w] = "store"
    /\ entry' = [kind |-> asked[w], key |-> key[w], ttl |-> TTL + 1]
    /\ served' = key[w]
    /\ Return(w)
    /\ UNCHANGED <<secret, latest, age>>

(* The entry is replaced, whatever it holds by now, and its time starts now, not
   when the Secret was read. *)
StoreEntry(w) ==
    /\ pc[w] = "store"
    /\ entry' = [kind |-> asked[w], key |-> key[w], ttl |-> TTL]
    /\ served' = key[w]
    /\ Return(w)
    /\ UNCHANGED <<secret, latest, age>>

(* CacheCleanupRunnable *)
Cleanup ==
    /\ entry.ttl < 0 /\ entry # NoEntry
    /\ entry' = NoEntry
    /\ served' = Nothing
    /\ UNCHANGED <<secret, latest, age, callVars>>

------------------------------------------------------------------------------
(* Users and time *)

(* A new value replaces those that are there, or is put into another field. *)
Rotate(k) ==
    /\ latest < MaxRotations
    /\ latest' = latest + 1
    /\ \E kept \in {{}, secret[k]} : secret' = [secret EXCEPT ![k] = kept \cup {latest'}]
    /\ served' = Nothing
    /\ UNCHANGED <<age, entry, callVars>>

RemoveFields(k) ==
    /\ secret[k] # {}
    /\ secret' = [secret EXCEPT ![k] = {}]
    /\ served' = Nothing
    /\ UNCHANGED <<latest, age, entry, callVars>>

Older(n) == IF n < Oldest THEN n + 1 ELSE Oldest
Storing == {w \in Workers : pc[w] = "store"}

(* A call that has read the Secret waits only for the lock, MaxCall ticks at
   most; one that has not may take any time. *)
Tick ==
    /\ \A w \in Storing : waited[w] < MaxCall
    /\ waited' = [w \in Workers |-> IF w \in Storing THEN waited[w] + 1 ELSE waited[w]]
    /\ age' = [v \in Values |-> IF v \in Current \/ v > latest THEN age[v] ELSE Older(age[v])]
    /\ entry' = [entry EXCEPT !.ttl = IF @ >= 0 THEN @ - 1 ELSE @]
    /\ served' = Nothing
    /\ UNCHANGED <<secret, latest, pc, asked, key>>

Next ==
    \/ \E w \in Workers :
          \/ \E k \in Kinds : Lookup(w, k)
          \/ ReadSecret(w) \/ ReadFails(w) \/ StoreEntry(w)
    \/ Cleanup \/ Tick
    \/ \E k \in Kinds : Rotate(k) \/ RemoveFields(k)

Spec == Init /\ [][Next]_vars

------------------------------------------------------------------------------
(* A call is given no credential that was taken out of the Secret secretTTL ago,
   or longer by what a call may take between its read and its store, although
   calls race with the rotation and overwrite each other's entries, and nothing
   tells the cache that the Secret has changed.  (Clients that were made of the
   answer are not called back: a listener keeps its own while it runs.) *)
CredentialsRecent == served # Nothing => age[served] < TTL + MaxCall

(* The inductive invariant behind it: what an entry has left of its time bounds
   what its contents have lost of theirs. *)
EntryRecent ==
    entry.ttl > 0 => /\ entry.key \in 1 .. latest
                     /\ age[entry.key] + entry.ttl <= Oldest

ReadRecent ==
    \A w \in Storing : key[w] \in 1 .. latest /\ age[key[w]] <= waited[w]

KeptIsYoung == \A v \in Values : v \in Current \/ v > latest => age[v] = 0

StoredIsKnown == \A k \in Kinds : secret[k] \subseteq 1 .. latest

CacheInv ==
    /\ TypeOK /\ EntryRecent /\ ReadRecent /\ KeptIsYoung /\ StoredIsKnown
    /\ CredentialsRecent
==============================================================================

---------------------------- MODULE CredentialsCache ----------------------------
(***************************************************************************)
(* CachedCredentialsProvider (credentials/mod.rs): callers that share one  *)
(* cache entry behind an asynchronous mutex, which is held while the       *)
(* wrapped provider is asked for new credentials.                          *)
(*                                                                         *)
(* Credentials are numbered in the order in which the provider is asked    *)
(* for them; 0 is none.  Callers are tasks: each of their awaits (the lock *)
(* and the provider) lets the others run, and lets the clock advance.      *)
(***************************************************************************)
EXTENDS Integers

CONSTANTS
    Callers,         \* the tasks that use the provider
    MaxCalls,        \* bound: calls in a behaviour
    RefreshBefore,   \* refresh_before
    Lifetimes,       \* how long issued credentials last; 0 is expired at once
    Horizon,         \* bound: the clock stops here
    MaxFetches,      \* bound: provider calls; no smaller than MaxCalls, so it never binds
    Never,           \* expires_at of credentials without an expiration
    Lost             \* expires_at of credentials that did not arrive

ASSUME CacheAssumption ==
    /\ MaxCalls \in Nat /\ Horizon \in Nat
    /\ MaxFetches \in Nat /\ MaxFetches >= MaxCalls
    /\ RefreshBefore \in Nat
    /\ Lifetimes \subseteq Nat
    /\ Never \notin Int /\ Lost \notin Int /\ Never # Lost

VARIABLES
    now,        \* OffsetDateTime::now_utc
    pc,         \* where a task stands
    ahead,      \* the tasks before it in the queue of the mutex
    cached,     \* the cache entry
    mine,       \* the credentials a call is asking the provider for
    got,        \* what the last call returned; 0 is an error
    calls,      \* calls made
    issued,     \* the number of provider calls
    expiry,     \* expires_at of the credentials
    fetched,    \* the local `now' of the call that asked for them
    clears,     \* history: issued, at each invalidation
    floor,      \* history: no credentials before these may be returned any more
    due         \* history: floor, when the call was made

vars == <<now, pc, ahead, cached, mine, got, calls, issued, expiry, fetched, clears,
          floor, due>>

Fetches == 1..MaxFetches

(* Credentials::expires_by *)
expires_by(credentials, time) ==
    expiry[credentials] # Never /\ expiry[credentials] <= time

(* There is a cache entry, and it does not expire by that time. *)
Usable(time) == cached # 0 /\ ~expires_by(cached, time)

(* The addition saturates at the end of time, which no expiration exceeds. *)
refresh_deadline(time) == time + RefreshBefore

Init ==
    /\ now = 0
    /\ pc = [c \in Callers |-> "idle"]
    /\ ahead = [c \in Callers |-> {}]
    /\ cached = 0
    /\ mine = [c \in Callers |-> 0]
    /\ got = [c \in Callers |-> 0]
    /\ calls = 0
    /\ issued = 0
    /\ expiry = [g \in Fetches |-> Lost]
    /\ fetched = [g \in Fetches |-> 0]
    /\ clears = {}
    /\ floor = 0
    /\ due = [c \in Callers |-> 0]

-------------------------------------------------------------------------------
(* tokio's mutex is fair: it is handed to the tasks in the order they asked. *)
Enqueue(c) == ahead' = [ahead EXCEPT ![c] = {d \in Callers : pc[d] # "idle"}]

HasLock(c) == ahead[c] = {}

Release(c) == ahead' = [d \in Callers |-> ahead[d] \ {c}]

(* provide_credentials or invalidate is called, and asks for the lock. *)
Call(c, operation) ==
    /\ pc[c] = "idle" /\ calls < MaxCalls
    /\ pc' = [pc EXCEPT ![c] = operation]
    /\ calls' = calls + 1
    /\ got' = [got EXCEPT ![c] = 0]
    /\ due' = [due EXCEPT ![c] = floor]
    /\ Enqueue(c)
    /\ UNCHANGED <<now, cached, mine, issued, expiry, fetched, clears, floor>>

(* A call returns, and its guard is dropped. *)
Return(c, credentials) ==
    /\ pc' = [pc EXCEPT ![c] = "idle"]
    /\ got' = [got EXCEPT ![c] = credentials]
    /\ floor' = IF credentials > floor THEN credentials ELSE floor
    /\ Release(c)

(* The cached credentials outlast the early-refresh window. *)
HitCache(c) ==
    /\ pc[c] = "provide" /\ HasLock(c)
    /\ Usable(refresh_deadline(now))
    /\ Return(c, cached)
    /\ UNCHANGED <<now, cached, mine, calls, issued, expiry, fetched, clears, due>>

(* Mutant of StartRefresh: the lock is not held across the provider call. *)
StartRefreshUnlocked(c) ==
    /\ pc[c] = "provide" /\ HasLock(c) /\ issued < MaxFetches
    /\ ~Usable(refresh_deadline(now))
    /\ issued' = issued + 1
    /\ mine' = [mine EXCEPT ![c] = issued + 1]
    /\ fetched' = [fetched EXCEPT ![issued + 1] = now]
    /\ pc' = [pc EXCEPT ![c] = "refresh"]
    /\ Release(c)
    /\ UNCHANGED <<now, cached, got, calls, expiry, clears, floor, due>>

(* Otherwise the provider is asked, with the lock held. *)
StartRefresh(c) ==
    /\ pc[c] = "provide" /\ HasLock(c) /\ issued < MaxFetches
    /\ ~Usable(refresh_deadline(now))
    /\ issued' = issued + 1
    /\ mine' = [mine EXCEPT ![c] = issued + 1]
    /\ fetched' = [fetched EXCEPT ![issued + 1] = now]
    /\ pc' = [pc EXCEPT ![c] = "refresh"]
    /\ UNCHANGED <<now, ahead, cached, got, calls, expiry, clears, floor, due>>

(* The provider answers. *)
RefreshOk(c) ==
    /\ pc[c] = "refresh" /\ HasLock(c)
    /\ \E expires_at \in {Never} \cup {now + l : l \in Lifetimes} :
          expiry' = [expiry EXCEPT ![mine[c]] = expires_at]
    /\ cached' = mine[c]
    /\ Return(c, mine[c])
    /\ mine' = [mine EXCEPT ![c] = 0]
    /\ UNCHANGED <<now, calls, issued, fetched, clears, due>>

(* The provider fails: the entry is still good, or the error is returned.    *)
(* The comparison uses the time at which the refresh began.                  *)
RefreshFails(c) ==
    /\ pc[c] = "refresh" /\ HasLock(c)
    /\ Return(c, IF Usable(fetched[mine[c]]) THEN cached ELSE 0)
    /\ mine' = [mine EXCEPT ![c] = 0]
    /\ UNCHANGED <<now, cached, calls, issued, expiry, fetched, clears, due>>

(* Mutant of Invalidate: it does not wait for a refresh under way. *)
InvalidateUnlocked(c) ==
    /\ pc[c] = "invalidate"
    /\ cached' = 0
    /\ clears' = clears \cup {issued}
    /\ pc' = [pc EXCEPT ![c] = "idle"]
    /\ floor' = issued + 1
    /\ Release(c)
    /\ UNCHANGED <<now, mine, got, calls, issued, expiry, fetched, due>>

(* invalidate has the lock. *)
Invalidate(c) ==
    /\ pc[c] = "invalidate" /\ HasLock(c)
    /\ cached' = 0
    /\ clears' = clears \cup {issued}
    /\ pc' = [pc EXCEPT ![c] = "idle"]
    /\ floor' = issued + 1
    /\ Release(c)
    /\ UNCHANGED <<now, mine, got, calls, issued, expiry, fetched, due>>

(* Mutant of DropCall: the task stays in the queue of the mutex. *)
DropCallQueued(c) ==
    /\ pc[c] # "idle"
    /\ pc' = [pc EXCEPT ![c] = "idle"]
    /\ UNCHANGED <<now, ahead, cached, mine, got, calls, issued, expiry, fetched, clears,
                   floor, due>>

(* The call is dropped at one of its awaits, as the deadline of a request    *)
(* does; a provider call under way is lost with it.                          *)
DropCall(c) ==
    /\ pc[c] # "idle"
    /\ pc' = [pc EXCEPT ![c] = "idle"]
    /\ Release(c)
    /\ mine' = [mine EXCEPT ![c] = 0]
    /\ UNCHANGED <<now, cached, got, calls, issued, expiry, fetched, clears,
                   floor, due>>

Tick ==
    /\ now < Horizon
    /\ now' = now + 1
    /\ UNCHANGED <<pc, ahead, cached, mine, got, calls, issued, expiry, fetched, clears,
                   floor, due>>

-------------------------------------------------------------------------------
Step(c) ==
    HitCache(c) \/ StartRefresh(c) \/ RefreshOk(c) \/ RefreshFails(c) \/ Invalidate(c)

Next ==
    \/ Tick
    \/ \E c \in Callers :
          Call(c, "provide") \/ Call(c, "invalidate") \/ Step(c) \/ DropCall(c)

Spec == Init /\ [][Next]_vars

(* Tasks are polled and the wrapped provider answers; nobody has to call. *)
FairSpec == Spec /\ \A c \in Callers : WF_vars(Step(c))
-------------------------------------------------------------------------------
(* Every variable has its type, and the cache entry is none or credentials   *)
(* that arrived.                                                             *)
TypeOK ==
    /\ now \in 0..Horizon
    /\ pc \in [Callers -> {"idle", "provide", "invalidate", "refresh"}]
    /\ ahead \in [Callers -> SUBSET Callers]
    /\ cached \in 0..issued /\ (cached # 0 => expiry[cached] # Lost)
    /\ mine \in [Callers -> 0..MaxFetches] /\ got \in [Callers -> 0..MaxFetches]
    /\ calls \in 0..MaxCalls
    /\ issued \in 0..MaxFetches
    /\ expiry \in [Fetches -> Nat \cup {Never, Lost}]
    /\ fetched \in [Fetches -> 0..Horizon]
    /\ clears \subseteq 0..MaxFetches
    /\ floor \in 0..MaxFetches + 1 /\ due \in [Callers -> 0..MaxFetches + 1]

(* A call never returns credentials older than some that had been returned,  *)
(* or asked for before an invalidation that had ended, when it was made: a    *)
(* slow refresh, a failed one and a dropped one included.                    *)
AnswersAreCurrent == \A c \in Callers : got[c] # 0 => got[c] >= due[c]

(* Refreshes are coalesced: once credentials arrived the provider is asked   *)
(* again only within their refresh window or after an invalidation, however  *)
(* many callers were waiting.                                                *)
NoRefreshStorm ==
    \A g, h \in 1..issued : g < h /\ expiry[g] # Lost =>
        \/ expires_by(g, refresh_deadline(fetched[h]))
        \/ \E m \in clears : g <= m /\ m < h

(* A call ends when the provider answers, whoever was dropped in the queue.  *)
CallsEnd == \A c \in Callers : pc[c] # "idle" ~> pc[c] = "idle"

(* "If an early refresh fails, credentials that have not actually expired    *)
(* are returned": what a failed refresh returns has not expired.             *)
FallbackHasNotExpired ==
    [][\A c \in Callers : RefreshFails(c) /\ got'[c] # 0 => ~expires_by(got'[c], now)]_vars
===============================================================================

------------------------ MODULE RequestExecutionProofs ------------------------
(***************************************************************************)
(* Proofs about RequestExecution and RequestObservation for any number of  *)
(* concurrent requests and any retry policy, quota and deadline: what a    *)
(* request may spend, that observing changes no request, that the events   *)
(* agree with the attempts and keep the promise of RequestLifecycle.       *)
(***************************************************************************)
EXTENDS RequestObservation, FiniteSetTheorems, TLAPS

(* The budget of each request, seen from where it stands in the loop. *)
LoopInv ==
    \A o \in Ops :
        /\ started[o] <= now
        /\ pc[o] = "prepare" => attempts[o] = 0
        /\ pc[o] \in {"prepare", "sign", "sleep"} => attempts[o] < MaxAttempts
        /\ pc[o] = "sent" => attempts[o] > 0
        /\ pc[o] = "sleep" => replayable[o] /\ permit[o] # 0
        /\ pc[o] \in {"prepare", "sign"} /\ ~replayable[o] => attempts[o] = 0
        /\ permit[o] # 0 => pc[o] \in {"sign", "sleep"}
        /\ pc[o] \in {"sign", "sleep"} =>
              attempts[o] <= retries[o] + (IF redirected[o] THEN 1 ELSE 0)
                                        + (IF permit[o] # 0 THEN 1 ELSE 0)

QuotaType ==
    /\ tokens \in 0..Capacity
    /\ permit \in [Ops -> Costs \cup {0}] /\ lastCost \in [Ops -> Costs \cup {0}]
    /\ owed \in Int /\ spent \in Nat /\ restored \in Nat

QuotaInv == QuotaType /\ TakenTokensAreHeldOrSpent /\ QuotaConserved

RequestType ==
    /\ now \in 0..Horizon
    /\ pc \in [Ops -> {"prepare", "sign", "sent", "sleep", "done"}]
    /\ replayable \in [Ops -> BOOLEAN] /\ redirected \in [Ops -> BOOLEAN]
    /\ started \in [Ops -> 0..Horizon]
    /\ attempts \in [Ops -> 0..MaxAttempts] /\ reported \in [Ops -> 0..MaxAttempts]
    /\ wake \in [Ops -> Nat]
    /\ result \in [Ops -> {"none", "ok", "error", "dropped"}]
    /\ reason \in [Ops -> StopReasons \cup {"none"}]
    /\ retries \in [Ops -> Nat]

RequestInv == RequestType /\ LoopInv /\ RetriesAreBought /\ OneShotSentOnce /\ SleepFitsBudget

(* TypeOK is RequestType with QuotaType. *)
IInv == RequestInv /\ QuotaInv

-------------------------------------------------------------------------------
(* The token bucket. *)

(* A permit costs a positive number of tokens. *)
LEMMA CostsArePositive ==
    /\ Costs \subseteq Nat \ {0}
    /\ \A classification : RetryCost(classification) \in Costs
BY QuotaAssumption DEF Costs, RetryCost

(* The cost of a permit is a natural number. *)
LEMMA PermitIsNat ==
    ASSUME QuotaType, NEW o \in Ops
    PROVE  permit[o] \in Costs \cup {0} /\ permit[o] \in Nat
BY QuotaAssumption DEF QuotaType, Costs

(* The tokens in the permits of some of the requests. *)
TokensOf(p, S) == UNION {{o} \X (1..p[o]) : o \in S}

(* They are finitely many. *)
LEMMA TokensAreFinite ==
    ASSUME NEW p \in [Ops -> Costs \cup {0}], NEW S \in SUBSET Ops
    PROVE  IsFiniteSet(TokensOf(p, S)) /\ Cardinality(TokensOf(p, S)) \in Nat
<1> DEFINE most == TransientCost + ThrottlingCost
<1>1. most \in Nat /\ \A o \in Ops : p[o] \in Nat /\ p[o] <= most
  BY QuotaAssumption DEF Costs
<1> HIDE DEF most
<1>2. IsFiniteSet(Ops \X (1..most))
  <2>1. IsFiniteSet(1..most)
    BY <1>1, FS_Interval
  <2>2. QED
    BY <2>1, FS_Product, QuotaAssumption
<1>3. TokensOf(p, S) \subseteq Ops \X (1..most)
  BY <1>1 DEF TokensOf
<1>4. QED
  BY <1>2, <1>3, FS_Subset, FS_CardinalityType

(* One request's permit, and those of the others. *)
LEMMA TokensSplit ==
    ASSUME NEW p \in [Ops -> Costs \cup {0}], NEW o \in Ops
    PROVE  /\ Cardinality(TokensOf(p, Ops \ {o})) \in Nat
           /\ Cardinality(TokensOf(p, Ops)) = Cardinality(TokensOf(p, Ops \ {o})) + p[o]
<1> DEFINE own == {o} \X (1..p[o])
           others == TokensOf(p, Ops \ {o})
<1>1. p[o] \in Nat
  BY QuotaAssumption DEF Costs
<1>2. IsFiniteSet(own) /\ Cardinality(own) = p[o]
  <2>1. IsFiniteSet(1..p[o]) /\ Cardinality(1..p[o]) = p[o]
    BY <1>1, FS_Interval
  <2>2. IsFiniteSet({o}) /\ Cardinality({o}) = 1
    BY FS_Singleton
  <2>3. IsFiniteSet(own) /\ Cardinality(own) = 1 * p[o]
    BY <2>1, <2>2, FS_Product
  <2>4. QED
    BY <1>1, <2>3
<1>3. IsFiniteSet(others) /\ Cardinality(others) \in Nat
  BY TokensAreFinite
<1>4. others \cap own = {}
  BY DEF TokensOf
<1>5. TokensOf(p, Ops) = others \cup own
  BY DEF TokensOf
<1> HIDE DEF own, others
<1>6. Cardinality(others \cup own) = Cardinality(others) + p[o] - 0
  BY <1>2, <1>3, <1>4, FS_Union, FS_EmptySet
<1>7. QED
  BY <1>1, <1>3, <1>5, <1>6 DEF others

LEMMA HeldTokensAreTokens ==
    HeldTokens = TokensOf(permit, Ops) /\ HeldTokens' = TokensOf(permit', Ops)
BY DEF HeldTokens, TokensOf

(* The tokens owed cover every single permit. *)
LEMMA OwedCoversPermit ==
    ASSUME QuotaType, TakenTokensAreHeldOrSpent, NEW o \in Ops
    PROVE  owed \in Nat /\ permit[o] \in Nat /\ spent + permit[o] <= owed
<1>1. permit[o] \in Nat /\ spent \in Nat
  BY PermitIsNat DEF QuotaType
<1>2. /\ Cardinality(TokensOf(permit, Ops \ {o})) \in Nat
      /\ Cardinality(HeldTokens) = Cardinality(TokensOf(permit, Ops \ {o})) + permit[o]
  BY TokensSplit, HeldTokensAreTokens DEF QuotaType
<1>3. QED
  BY <1>1, <1>2 DEF TakenTokensAreHeldOrSpent

(* One permit changes, and with it what was spent or what is owed. *)
LEMMA PermitMoves ==
    ASSUME QuotaType, QuotaType', TakenTokensAreHeldOrSpent, NEW o \in Ops,
           NEW new \in Nat, NEW before \in Int, NEW after \in Int,
           permit' = [permit EXCEPT ![o] = new],
           spent' = spent + before, owed' = owed + after,
           new + before = permit[o] + after
    PROVE  TakenTokensAreHeldOrSpent'
<1>1. permit \in [Ops -> Costs \cup {0}] /\ permit' \in [Ops -> Costs \cup {0}]
  BY DEF QuotaType
<1>2. TokensOf(permit', Ops \ {o}) = TokensOf(permit, Ops \ {o})
  <2>1. \A q \in Ops \ {o} : permit'[q] = permit[q]
    BY <1>1
  <2>2. QED
    BY <2>1 DEF TokensOf
<1>3. permit'[o] = new /\ permit[o] \in Nat
  BY <1>1, PermitIsNat
<1> DEFINE rest == Cardinality(TokensOf(permit, Ops \ {o}))
<1>4. rest \in Nat /\ Cardinality(HeldTokens) = rest + permit[o]
  BY <1>1, TokensSplit, HeldTokensAreTokens
<1>5. Cardinality(HeldTokens') = rest + new
  <2>1. Cardinality(TokensOf(permit', Ops)) = Cardinality(TokensOf(permit', Ops \ {o})) + permit'[o]
    BY <1>1, TokensSplit
  <2>2. QED
    BY <1>2, <1>3, <2>1, HeldTokensAreTokens
<1>6. spent \in Int /\ owed \in Int /\ owed = spent + Cardinality(HeldTokens)
  BY DEF QuotaType, TakenTokensAreHeldOrSpent
<1> HIDE DEF rest
<1>7. owed' = spent' + (rest + new)
  BY <1>3, <1>4, <1>6
<1>8. QED
  BY <1>5, <1>7 DEF TakenTokensAreHeldOrSpent

(* RetryQuota::acquire. *)
LEMMA acquireInv ==
    ASSUME QuotaInv, NEW o \in Ops, permit[o] = 0,
           NEW classification \in Classifications, acquire(o, classification)
    PROVE  QuotaInv'
<1> DEFINE cost == RetryCost(classification)
<1>1. cost \in Costs /\ cost \in Nat
  BY CostsArePositive
<1> HIDE DEF cost
<1>2. /\ tokens >= cost /\ tokens' = tokens - cost /\ owed' = owed + cost
      /\ permit' = [permit EXCEPT ![o] = cost]
      /\ UNCHANGED <<lastCost, spent, restored>>
  BY DEF acquire, CanAcquire, cost
<1>3. QuotaType'
  BY <1>1, <1>2, QuotaAssumption DEF QuotaInv, QuotaType
<1>4. TakenTokensAreHeldOrSpent'
  <2>1. spent \in Nat /\ spent' = spent + 0 /\ 0 \in Int /\ cost \in Int /\ 0 >= 0
    BY <1>1, <1>2 DEF QuotaInv, QuotaType
  <2>2. cost + 0 = permit[o] + cost
    BY <1>1
  <2>3. QED
    BY <1>1, <1>2, <1>3, <2>1, <2>2, PermitMoves, Zenon DEF QuotaInv
<1>5. QuotaConserved'
  BY <1>1, <1>2, QuotaAssumption DEF QuotaInv, QuotaType, QuotaConserved
<1>6. QED
  BY <1>3, <1>4, <1>5 DEF QuotaInv

(* RetryPermit::commit. *)
LEMMA commitInv ==
    ASSUME QuotaInv, NEW o \in Ops, commit(o)
    PROVE  QuotaInv'
<1>1. permit[o] \in Costs \cup {0} /\ permit[o] \in Nat
  BY PermitIsNat DEF QuotaInv
<1>2. /\ spent' = spent + permit[o] /\ permit' = [permit EXCEPT ![o] = 0]
      /\ UNCHANGED <<tokens, owed, restored>>
  BY DEF commit
<1>3. lastCost' \in [Ops -> Costs \cup {0}]
  BY <1>1 DEF commit, QuotaInv, QuotaType
<1>4. QuotaType'
  <2>1. spent + permit[o] \in Nat
    BY <1>1 DEF QuotaInv, QuotaType
  <2>2. permit' \in [Ops -> Costs \cup {0}]
    BY <1>2 DEF QuotaInv, QuotaType
  <2>3. QED
    BY <1>2, <1>3, <2>1, <2>2 DEF QuotaInv, QuotaType
<1>5. TakenTokensAreHeldOrSpent'
  <2>1. owed \in Int /\ owed' = owed + 0 /\ 0 \in Nat /\ 0 \in Int
    BY <1>2 DEF QuotaInv, QuotaType
  <2>2. permit[o] \in Int /\ permit[o] >= 0 /\ 0 + permit[o] = permit[o] + 0
    BY <1>1
  <2>3. QED
    BY <1>2, <1>4, <2>1, <2>2, PermitMoves, Zenon DEF QuotaInv
<1>6. QuotaConserved'
  BY <1>2 DEF QuotaInv, QuotaConserved
<1>7. QED
  BY <1>4, <1>5, <1>6 DEF QuotaInv

(* Drop for RetryPermit: the clamp never hides a token, since the bucket     *)
(* and what is owed together hold the capacity without the successes.        *)
LEMMA drop_permitInv ==
    ASSUME QuotaInv, NEW o \in Ops, drop_permit(o)
    PROVE  QuotaInv'
<1>1. permit[o] \in Costs \cup {0} /\ permit[o] \in Nat
  BY PermitIsNat DEF QuotaInv
<1>2. /\ tokens' = Clamped(tokens + permit[o])
      /\ owed' = owed - permit[o] /\ permit' = [permit EXCEPT ![o] = 0]
      /\ UNCHANGED <<lastCost, spent, restored>>
  BY DEF drop_permit
<1>3. owed \in Nat /\ spent \in Nat /\ permit[o] <= owed
  BY OwedCoversPermit DEF QuotaInv, QuotaType
<1>4. QuotaType'
  BY <1>1, <1>2, <1>3, QuotaAssumption DEF QuotaInv, QuotaType, Clamped
<1>5. TakenTokensAreHeldOrSpent'
  <2>1. owed' = owed + (0 - permit[o]) /\ spent' = spent + 0
    BY <1>1, <1>2, <1>3
  <2>2. /\ 0 \in Nat /\ 0 \in Int /\ 0 - permit[o] \in Int /\ 0 >= 0
        /\ 0 + 0 = permit[o] + (0 - permit[o])
    BY <1>1
  <2>3. QED
    BY <1>2, <1>4, <2>1, <2>2, PermitMoves, Zenon DEF QuotaInv
<1>6. QuotaConserved'
  BY <1>1, <1>2, <1>3, QuotaAssumption DEF QuotaInv, QuotaType, QuotaConserved, Clamped
<1>7. QED
  BY <1>4, <1>5, <1>6 DEF QuotaInv

(* RetryQuota::replenish_after_success. *)
LEMMA replenishInv ==
    ASSUME QuotaInv, NEW o \in Ops, replenish_after_success(o)
    PROVE  QuotaInv'
<1> DEFINE gain == IF lastCost[o] = 0 THEN 1 ELSE lastCost[o]
<1>1. gain \in Nat
  BY CostsArePositive DEF QuotaInv, QuotaType
<1>2. /\ tokens' = Clamped(tokens + gain) /\ restored' = restored + gain
      /\ UNCHANGED <<permit, lastCost, owed, spent>>
  BY DEF replenish_after_success
<1> HIDE DEF gain
<1>3. QuotaType'
  BY <1>1, <1>2, QuotaAssumption DEF QuotaInv, QuotaType, Clamped
<1>4. TakenTokensAreHeldOrSpent'
  BY <1>2 DEF QuotaInv, TakenTokensAreHeldOrSpent, HeldTokens
<1>5. owed \in Nat
  BY OwedCoversPermit DEF QuotaInv
<1>6. QuotaConserved'
  BY <1>1, <1>2, <1>5, QuotaAssumption DEF QuotaInv, QuotaType, QuotaConserved, Clamped
<1>7. QED
  BY <1>3, <1>4, <1>6 DEF QuotaInv

(* A step that leaves the bucket alone. *)
LEMMA UnchangedQuota ==
    ASSUME QuotaInv, UNCHANGED quota
    PROVE  QuotaInv'
BY DEF quota, QuotaInv, QuotaType, QuotaConserved, TakenTokensAreHeldOrSpent, HeldTokens
-------------------------------------------------------------------------------
(* The attempt loop: one lemma per action. *)

(* A request enters the loop. *)
LEMMA BeginInv ==
    ASSUME IInv, NEW o \in Ops, Begin(o)
    PROVE  IInv'
<1>1. QuotaInv'
  BY UnchangedQuota DEF IInv, Begin
<1>2. permit \in [Ops -> Nat]
  BY QuotaAssumption DEF IInv, QuotaInv, QuotaType, Costs
<1>3. RequestType'
  BY PolicyAssumption DEF IInv, RequestInv, RequestType, LoopInv, Begin
<1>4. LoopInv'
  BY <1>2, PolicyAssumption DEF IInv, RequestInv, RequestType, LoopInv, Begin, quota
<1>5. RetriesAreBought'
  BY <1>2 DEF IInv, RequestInv, RequestType, LoopInv, RetriesAreBought, Begin, quota
<1>6. OneShotSentOnce'
  BY DEF IInv, RequestInv, RequestType, LoopInv, OneShotSentOnce, Begin
<1>7. SleepFitsBudget'
  BY DEF IInv, RequestInv, RequestType, SleepFitsBudget, Begin, quota
<1>8. QED
  BY <1>1, <1>3, <1>4, <1>5, <1>6, <1>7 DEF IInv, RequestInv

(* An attempt is sent. *)
LEMMA StartAttemptInv ==
    ASSUME IInv, NEW o \in Ops, StartAttempt(o)
    PROVE  IInv'
<1>1. QuotaInv'
  BY commitInv DEF IInv, StartAttempt
<1>2. permit \in [Ops -> Nat]
  BY QuotaAssumption DEF IInv, QuotaInv, QuotaType, Costs
<1>3. RequestType'
  BY PolicyAssumption DEF IInv, RequestInv, RequestType, LoopInv, StartAttempt
<1>4. LoopInv'
  BY <1>2, PolicyAssumption DEF IInv, RequestInv, RequestType, LoopInv, StartAttempt, commit
<1>5. RetriesAreBought'
  BY <1>2 DEF IInv, RequestInv, RequestType, LoopInv, RetriesAreBought, StartAttempt, commit
<1>6. OneShotSentOnce'
  BY DEF IInv, RequestInv, RequestType, LoopInv, OneShotSentOnce, StartAttempt
<1>7. SleepFitsBudget'
  BY DEF IInv, RequestInv, RequestType, SleepFitsBudget, StartAttempt, commit
<1>8. QED
  BY <1>1, <1>3, <1>4, <1>5, <1>6, <1>7 DEF IInv, RequestInv

(* A request fails before its attempt. *)
LEMMA FailBeforeAttemptInv ==
    ASSUME IInv, NEW o \in Ops, FailBeforeAttempt(o)
    PROVE  IInv'
<1>1. QuotaInv'
  BY drop_permitInv DEF IInv, FailBeforeAttempt
<1>2. permit \in [Ops -> Nat]
  BY QuotaAssumption DEF IInv, QuotaInv, QuotaType, Costs
<1>3. RequestType'
  BY PolicyAssumption DEF IInv, RequestInv, RequestType, LoopInv, FailBeforeAttempt
<1>4. LoopInv'
  BY <1>2, PolicyAssumption DEF IInv, RequestInv, RequestType, LoopInv, FailBeforeAttempt, drop_permit
<1>5. RetriesAreBought'
  BY <1>2 DEF IInv, RequestInv, RequestType, LoopInv, RetriesAreBought, FailBeforeAttempt, drop_permit
<1>6. OneShotSentOnce'
  BY DEF IInv, RequestInv, RequestType, LoopInv, OneShotSentOnce, FailBeforeAttempt
<1>7. SleepFitsBudget'
  BY DEF IInv, RequestInv, RequestType, SleepFitsBudget, FailBeforeAttempt, drop_permit
<1>8. QED
  BY <1>1, <1>3, <1>4, <1>5, <1>6, <1>7 DEF IInv, RequestInv

(* A request succeeds. *)
LEMMA SucceedInv ==
    ASSUME IInv, NEW o \in Ops, Succeed(o)
    PROVE  IInv'
<1>1. QuotaInv'
  BY replenishInv DEF IInv, Succeed
<1>2. permit \in [Ops -> Nat]
  BY QuotaAssumption DEF IInv, QuotaInv, QuotaType, Costs
<1>3. RequestType'
  BY PolicyAssumption DEF IInv, RequestInv, RequestType, LoopInv, Succeed
<1>4. LoopInv'
  BY <1>2, PolicyAssumption
     DEF IInv, RequestInv, RequestType, LoopInv, Succeed, replenish_after_success
<1>5. RetriesAreBought'
  BY <1>2
     DEF IInv, RequestInv, RequestType, LoopInv, RetriesAreBought, Succeed,
         replenish_after_success
<1>6. OneShotSentOnce'
  BY DEF IInv, RequestInv, RequestType, LoopInv, OneShotSentOnce, Succeed
<1>7. SleepFitsBudget'
  BY DEF IInv, RequestInv, RequestType, SleepFitsBudget, Succeed, replenish_after_success
<1>8. QED
  BY <1>1, <1>3, <1>4, <1>5, <1>6, <1>7 DEF IInv, RequestInv

(* A region redirect is followed. *)
LEMMA RedirectInv ==
    ASSUME IInv, NEW o \in Ops, Redirect(o)
    PROVE  IInv'
<1>1. QuotaInv'
  BY UnchangedQuota DEF IInv, Redirect
<1>2. permit \in [Ops -> Nat]
  BY QuotaAssumption DEF IInv, QuotaInv, QuotaType, Costs
<1>3. RequestType'
  BY PolicyAssumption DEF IInv, RequestInv, RequestType, LoopInv, Redirect
<1>4. LoopInv'
  BY <1>2 DEF IInv, RequestInv, RequestType, LoopInv, RetriesAreBought, Redirect, quota
<1>5. RetriesAreBought'
  BY <1>2 DEF IInv, RequestInv, RequestType, LoopInv, RetriesAreBought, Redirect, quota
<1>6. OneShotSentOnce'
  BY DEF IInv, RequestInv, RequestType, LoopInv, OneShotSentOnce, Redirect
<1>7. SleepFitsBudget'
  BY DEF IInv, RequestInv, RequestType, SleepFitsBudget, Redirect, quota
<1>8. QED
  BY <1>1, <1>3, <1>4, <1>5, <1>6, <1>7 DEF IInv, RequestInv

(* A backoff ends. *)
LEMMA WakeUpInv ==
    ASSUME IInv, NEW o \in Ops, WakeUp(o)
    PROVE  IInv'
<1>1. QuotaInv'
  BY UnchangedQuota DEF IInv, WakeUp
<1>2. permit \in [Ops -> Nat]
  BY QuotaAssumption DEF IInv, QuotaInv, QuotaType, Costs
<1>3. RequestType'
  BY PolicyAssumption DEF IInv, RequestInv, RequestType, LoopInv, WakeUp
<1>4. LoopInv'
  BY <1>2, PolicyAssumption DEF IInv, RequestInv, RequestType, LoopInv, WakeUp, quota
<1>5. RetriesAreBought'
  BY <1>2 DEF IInv, RequestInv, RequestType, LoopInv, RetriesAreBought, WakeUp, quota
<1>6. OneShotSentOnce'
  BY DEF IInv, RequestInv, RequestType, LoopInv, OneShotSentOnce, WakeUp
<1>7. SleepFitsBudget'
  BY DEF IInv, RequestInv, RequestType, SleepFitsBudget, WakeUp, quota
<1>8. QED
  BY <1>1, <1>3, <1>4, <1>5, <1>6, <1>7 DEF IInv, RequestInv

(* A caller drops its request. *)
LEMMA DropRequestInv ==
    ASSUME IInv, NEW o \in Ops, DropRequest(o)
    PROVE  IInv'
<1>1. QuotaInv'
  BY drop_permitInv DEF IInv, DropRequest
<1>2. permit \in [Ops -> Nat]
  BY QuotaAssumption DEF IInv, QuotaInv, QuotaType, Costs
<1>3. RequestType'
  BY PolicyAssumption DEF IInv, RequestInv, RequestType, LoopInv, DropRequest
<1>4. LoopInv'
  BY <1>2, PolicyAssumption DEF IInv, RequestInv, RequestType, LoopInv, DropRequest, drop_permit
<1>5. RetriesAreBought'
  BY <1>2 DEF IInv, RequestInv, RequestType, LoopInv, RetriesAreBought, DropRequest, drop_permit
<1>6. OneShotSentOnce'
  BY DEF IInv, RequestInv, RequestType, LoopInv, OneShotSentOnce, DropRequest
<1>7. SleepFitsBudget'
  BY DEF IInv, RequestInv, RequestType, SleepFitsBudget, DropRequest, drop_permit
<1>8. QED
  BY <1>1, <1>3, <1>4, <1>5, <1>6, <1>7 DEF IInv, RequestInv

(* A delay lies within the elapsed limit of the policy. *)
LEMMA DelayFits ==
    ASSUME NEW classification, NEW count, NEW elapsed \in Int,
           NEW retry_after \in RetryAfterHeaders,
           NEW delay \in delay_for(classification, count, elapsed, retry_after)
    PROVE  delay \in Nat /\ delay <= MaxElapsed - elapsed
<1>1. MaxElapsed \in Int
  BY PolicyAssumption
<1>2. retry_after \subseteq Nat
  BY TimeAssumption DEF RetryAfterHeaders
<1>3. \/ delay \in retry_after /\ delay <= MaxElapsed - elapsed
      \/ delay \in 0..(MaxElapsed - elapsed)
  BY Zenon DEF delay_for
<1>4. CASE delay \in retry_after /\ delay <= MaxElapsed - elapsed
  BY <1>2, <1>4, Zenon
<1>5. CASE delay \in 0..(MaxElapsed - elapsed)
  BY <1>1, <1>5
<1>6. QED
  BY <1>3, <1>4, <1>5

(* An error is returned with its retry context. *)
LEMMA StopInv ==
    ASSUME IInv, NEW o \in Ops, NEW why \in StopReasons, pc[o] = "sent",
           Stop(o, why), UNCHANGED now
    PROVE  IInv'
<1>1. QuotaInv'
  BY UnchangedQuota DEF IInv, Stop
<1>2. permit \in [Ops -> Nat]
  BY QuotaAssumption DEF IInv, QuotaInv, QuotaType, Costs
<1>3. RequestType'
  BY DEF IInv, RequestInv, RequestType, Stop
<1>4. LoopInv'
  BY <1>2 DEF IInv, RequestInv, RequestType, LoopInv, Stop, quota
<1>5. RetriesAreBought' /\ OneShotSentOnce'
  BY DEF IInv, RequestInv, RetriesAreBought, OneShotSentOnce, Stop
<1>6. SleepFitsBudget'
  BY DEF IInv, RequestInv, RequestType, SleepFitsBudget, Stop, quota
<1>7. QED
  BY <1>1, <1>3, <1>4, <1>5, <1>6 DEF IInv, RequestInv

(* A retry is scheduled: every test of stop_reason was passed. *)
LEMMA ScheduleInv ==
    ASSUME IInv, NEW o \in Ops, NEW classification \in Classifications,
           NEW delay \in Nat, pc[o] = "sent", replayable[o],
           attempts[o] < MaxAttempts, delay <= MaxElapsed - (now - started[o]),
           delay < Deadline - now, Schedule(o, classification, delay), UNCHANGED now
    PROVE  IInv'
<1> DEFINE cost == RetryCost(classification)
<1>1. cost \in Costs /\ cost \in Nat /\ cost # 0
  BY CostsArePositive
<1> HIDE DEF cost
<1>2. permit' = [permit EXCEPT ![o] = cost]
  BY DEF Schedule, acquire, cost
<1>3. permit[o] = 0
  BY DEF IInv, RequestInv, LoopInv
<1>4. QuotaInv'
  BY <1>3, acquireInv DEF IInv, Schedule
<1>5. permit \in [Ops -> Nat]
  BY QuotaAssumption DEF IInv, QuotaInv, QuotaType, Costs
<1>6. RequestType'
  BY DEF IInv, RequestInv, RequestType, Schedule
<1>7. LoopInv'
  BY <1>1, <1>2, <1>5
     DEF IInv, RequestInv, RequestType, LoopInv, RetriesAreBought, Schedule
<1>8. RetriesAreBought' /\ OneShotSentOnce'
  BY DEF IInv, RequestInv, RetriesAreBought, OneShotSentOnce, Schedule
<1>9. SleepFitsBudget'
  <2>1. /\ now \in Int /\ started[o] \in Int /\ delay \in Int
        /\ wake' = [wake EXCEPT ![o] = now + delay]
    BY DEF IInv, RequestInv, RequestType, Schedule
  <2>2. now + delay <= started[o] + MaxElapsed /\ now + delay < Deadline
    BY <2>1, PolicyAssumption, TimeAssumption DEF Deadline
  <2>3. QED
    BY <1>1, <1>2, <1>5, <2>1, <2>2
       DEF IInv, RequestInv, RequestType, QuotaInv, QuotaType, SleepFitsBudget, Schedule
<1>10. QED
  BY <1>4, <1>6, <1>7, <1>8, <1>9 DEF IInv, RequestInv

(* An attempt fails. *)
LEMMA FailAttemptInv ==
    ASSUME IInv, NEW o \in Ops, NEW classification \in Classifications,
           NEW retry_after \in RetryAfterHeaders,
           FailAttempt(o, classification, retry_after)
    PROVE  IInv'
<1> DEFINE delays == delay_for(classification, attempts[o], now - started[o], retry_after)
           stop == stop_reason(o, classification, delays)
<1>1. pc[o] = "sent" /\ UNCHANGED now
  BY DEF FailAttempt
<1>2. now - started[o] \in Int /\ now \in Int /\ attempts[o] \in Int
  BY DEF IInv, RequestInv, RequestType
<1>3. stop \in StopReasons \cup {"none"}
  BY DEF stop_reason, StopReasons
<1>4. stop = "none" => replayable[o] /\ ~(attempts[o] >= MaxAttempts)
  BY DEF stop_reason
<1>5. CASE stop # "none"
  <2>1. Stop(o, stop)
    BY <1>5 DEF FailAttempt
  <2>2. stop \in StopReasons
    BY <1>3, <1>5
  <2>3. QED
    BY <1>1, <2>1, <2>2, StopInv
<1>6. CASE stop = "none"
  <2>1. PICK delay \in delays :
            IF delay >= Deadline - now THEN Stop(o, "Deadline")
            ELSE IF ~CanAcquire(classification) THEN Stop(o, "RetryQuota")
            ELSE Schedule(o, classification, delay)
    BY <1>6 DEF FailAttempt
  <2>2. delay \in Nat /\ delay <= MaxElapsed - (now - started[o])
    BY <1>2, <2>1, DelayFits
  <2>3. CASE Stop(o, "Deadline") \/ Stop(o, "RetryQuota")
    BY <1>1, <2>3, StopInv DEF StopReasons
  <2>4. CASE ~(delay >= Deadline - now) /\ Schedule(o, classification, delay)
    <3>1. delay < Deadline - now /\ attempts[o] < MaxAttempts
      BY <1>2, <1>4, <1>6, <2>2, <2>4, PolicyAssumption, TimeAssumption DEF Deadline
    <3> HIDE DEF delays, stop
    <3>2. QED
      BY <1>1, <1>4, <1>6, <2>2, <2>4, <3>1, ScheduleInv
  <2>5. QED
    BY <2>1, <2>3, <2>4
<1>7. QED
  BY <1>5, <1>6

(* The clock advances. *)
LEMMA TickInv ==
    ASSUME IInv, Tick
    PROVE  IInv'
<1>1. QuotaInv'
  BY UnchangedQuota DEF IInv, Tick
<1>2. RequestType'
  BY TimeAssumption DEF IInv, RequestInv, RequestType, Tick, exec
<1>3. LoopInv'
  BY DEF IInv, RequestInv, RequestType, LoopInv, Tick, exec, quota
<1>4. RetriesAreBought' /\ OneShotSentOnce' /\ SleepFitsBudget'
  BY DEF IInv, RequestInv, RetriesAreBought, OneShotSentOnce, SleepFitsBudget, Deadline,
         Tick, exec, quota
<1>5. QED
  BY <1>1, <1>2, <1>3, <1>4 DEF IInv, RequestInv

-------------------------------------------------------------------------------
(* The inductive invariant. *)

(* The bucket starts full and every request outside the loop. *)
LEMMA InitInv == Init => IInv
<1> SUFFICES ASSUME Init PROVE IInv
  OBVIOUS
<1>1. QuotaType
  BY QuotaAssumption DEF Init, QuotaInit, QuotaType
<1>2. TakenTokensAreHeldOrSpent
  <2>1. HeldTokens = {}
    BY DEF Init, QuotaInit, HeldTokens
  <2>2. QED
    BY <2>1, FS_EmptySet DEF Init, QuotaInit, TakenTokensAreHeldOrSpent
<1>3. QuotaConserved
  BY QuotaAssumption DEF Init, QuotaInit, QuotaConserved
<1>4. RequestType
  BY PolicyAssumption, TimeAssumption DEF Init, RequestType
<1>5. LoopInv
  BY PolicyAssumption DEF Init, QuotaInit, LoopInv
<1>6. RetriesAreBought /\ OneShotSentOnce /\ SleepFitsBudget
  BY DEF Init, RetriesAreBought, OneShotSentOnce, SleepFitsBudget
<1>7. QED
  BY <1>1, <1>2, <1>3, <1>4, <1>5, <1>6 DEF IInv, RequestInv, QuotaInv

(* Every step of every request preserves it. *)
LEMMA StepInv == IInv /\ [Next]_vars => IInv'
<1> SUFFICES ASSUME IInv, [Next]_vars PROVE IInv'
  OBVIOUS
<1>1. CASE Tick
  BY <1>1, TickInv
<1>2. ASSUME NEW o \in Ops, Step(o) PROVE IInv'
  BY <1>2, BeginInv, StartAttemptInv, FailBeforeAttemptInv, SucceedInv, RedirectInv, WakeUpInv,
     FailAttemptInv DEF Step
<1>3. ASSUME NEW o \in Ops, DropRequest(o) PROVE IInv'
  BY <1>3, DropRequestInv
<1>4. CASE UNCHANGED vars
  <2>1. QuotaInv'
    BY <1>4, UnchangedQuota DEF IInv, vars
  <2>2. RequestInv'
    BY <1>4 DEF IInv, RequestInv, RequestType, LoopInv, RetriesAreBought, OneShotSentOnce,
                SleepFitsBudget, Deadline, vars, exec, quota
  <2>3. QED
    BY <2>1, <2>2 DEF IInv
<1>5. QED
  BY <1>1, <1>2, <1>3, <1>4 DEF Next

(* IInv is invariant. *)
LEMMA Invariance == Spec => []IInv
BY InitInv, StepInv, PTL DEF Spec

-------------------------------------------------------------------------------
(* Every variable keeps its type: in particular the shared token count       *)
(* neither underflows nor exceeds its capacity under concurrent requests.    *)
THEOREM TypeCorrect == Spec => []TypeOK
<1>1. IInv => TypeOK
  BY DEF IInv, RequestInv, RequestType, QuotaInv, QuotaType, TypeOK
<1>2. QED
  BY <1>1, Invariance, PTL

(* The bucket neither loses nor mints tokens.  The argument counts the       *)
(* tokens in the permits of all requests: a permit that is dropped was owed. *)
THEOREM QuotaIsConserved == Spec => []QuotaConserved
<1>1. IInv => QuotaConserved
  BY DEF IInv, QuotaInv
<1>2. QED
  BY <1>1, Invariance, PTL

(* Every token that was taken is in exactly one permit or was spent on a     *)
(* retry that was sent.                                                      *)
THEOREM TokensAreHeldOrSpent == Spec => []TakenTokensAreHeldOrSpent
<1>1. IInv => TakenTokensAreHeldOrSpent
  BY DEF IInv, QuotaInv
<1>2. QED
  BY <1>1, Invariance, PTL

(* A request that ended holds no permit.                                     *)
THEOREM FinishedHoldNoPermit == Spec => []FinishedHoldsNoPermit
<1>1. IInv => FinishedHoldsNoPermit
  BY DEF IInv, RequestInv, LoopInv, FinishedHoldsNoPermit
<1>2. QED
  BY <1>1, Invariance, PTL

(* Every attempt but the first and the redirected one was paid for.          *)
THEOREM RetriesBought == Spec => []RetriesAreBought
<1>1. IInv => RetriesAreBought
  BY DEF IInv, RequestInv
<1>2. QED
  BY <1>1, Invariance, PTL

(* A body that can be read once is sent once.                                *)
THEOREM OneShotOnce == Spec => []OneShotSentOnce
<1>1. IInv => OneShotSentOnce
  BY DEF IInv, RequestInv
<1>2. QED
  BY <1>1, Invariance, PTL

(* A backoff ends within the elapsed limit and before the deadline.          *)
THEOREM SleepFits == Spec => []SleepFitsBudget
<1>1. IInv => SleepFitsBudget
  BY DEF IInv, RequestInv
<1>2. QED
  BY <1>1, Invariance, PTL

-------------------------------------------------------------------------------
(* The events. *)

EventKinds == {"none", "AttemptStarted", "AttemptSucceeded", "AttemptFailed", "RetryScheduled", "RegionRedirected"}

EventType ==
    /\ pc \in [Ops -> {"prepare", "sign", "sent", "sleep", "done"}]
    /\ attempts \in [Ops -> Nat] /\ reported \in [Ops -> Nat]
    /\ redirected \in [Ops -> BOOLEAN]
    /\ result \in [Ops -> {"none", "ok", "error", "dropped"}]
    /\ reason \in [Ops -> StopReasons \cup {"none"}]
    /\ event \in [Ops -> [kind : EventKinds, attempt : Nat]]

(* Where a request stands and what its observer has seen. *)
Stands(o) ==
    /\ event[o].attempt = attempts[o]
    /\ pc[o] # "done" => result[o] = "none" /\ reason[o] = "none"
    /\ pc[o] = "sent" => event[o].kind = "AttemptStarted"
    /\ pc[o] \in {"prepare", "sign", "sleep"} =>
          event[o].kind \in {"none", "RetryScheduled", "RegionRedirected"} /\ attempts[o] < MaxAttempts
    /\ reason[o] # "none" => event[o].kind = "AttemptFailed" /\ event[o].attempt = reported[o]

EventInv == EventType /\ \A o \in Ops : Stands(o)

-------------------------------------------------------------------------------
(* A failed attempt ends the request or puts it to sleep below the limit.    *)
LEMMA FailAttemptForks ==
    ASSUME EventInv, NEW o \in Ops, NEW classification \in Classifications,
           NEW retry_after \in RetryAfterHeaders,
           FailAttempt(o, classification, retry_after)
    PROVE  /\ pc[o] = "sent"
           /\ \/ \E why \in StopReasons : Stop(o, why)
              \/ attempts[o] < MaxAttempts /\ \E delay : Schedule(o, classification, delay)
<1> DEFINE delays == delay_for(classification, attempts[o], now - started[o], retry_after)
           stop == stop_reason(o, classification, delays)
<1>1. pc[o] = "sent"
  BY DEF FailAttempt
<1>2. attempts[o] \in Nat
  BY DEF EventInv, EventType
<1>3. stop \in StopReasons \cup {"none"}
  BY DEF stop_reason, StopReasons
<1>4. stop = "none" => attempts[o] < MaxAttempts
  BY <1>2, PolicyAssumption DEF stop_reason
<1>5. CASE stop # "none"
  <2>1. Stop(o, stop)
    BY <1>5 DEF FailAttempt
  <2>2. stop \in StopReasons
    BY <1>3, <1>5
  <2> HIDE DEF stop
  <2>3. QED
    BY <1>1, <2>1, <2>2
<1>6. CASE stop = "none"
  <2>1. PICK delay \in delays :
            IF delay >= Deadline - now THEN Stop(o, "Deadline")
            ELSE IF ~CanAcquire(classification) THEN Stop(o, "RetryQuota")
            ELSE Schedule(o, classification, delay)
    BY <1>6 DEF FailAttempt
  <2>2. attempts[o] < MaxAttempts
    BY <1>4, <1>6
  <2>3. "Deadline" \in StopReasons /\ "RetryQuota" \in StopReasons
    BY DEF StopReasons
  <2>4. CASE Stop(o, "Deadline")
    BY <1>1, <2>3, <2>4
  <2>5. CASE Stop(o, "RetryQuota")
    BY <1>1, <2>3, <2>5
  <2>6. CASE Schedule(o, classification, delay)
    BY <1>1, <2>2, <2>6
  <2>7. QED
    BY <2>1, <2>4, <2>5, <2>6
<1>7. QED
  BY <1>5, <1>6

(* Every step is a step of the request loop: the observer is passive. *)
LEMMA StepIsPassive == [ONext]_ovars => [Next]_vars
BY DEF ONext, OTick, OStep, ODrop, Started, Succeeded, Redirected, Failed, Unobserved,
       Next, Step, ovars

(* What one step does to the observed part of one request, named by the      *)
(* steps of RequestLifecycle: nothing, or a step of it.                      *)
Same == UNCHANGED <<event, redirected, result>>

LEMMA StartedStands ==
    ASSUME EventInv, NEW o \in Ops, Started(o)
    PROVE  EventInv' /\ Lifecycle!Start(o)
<1>1. /\ pc[o] = "sign" /\ pc' = [pc EXCEPT ![o] = "sent"]
      /\ attempts' = [attempts EXCEPT ![o] = @ + 1]
      /\ UNCHANGED <<redirected, result, reason, reported>>
      /\ event' = [event EXCEPT ![o] = [kind |-> "AttemptStarted", attempt |-> attempts[o] + 1]]
  BY DEF Started, StartAttempt, observe
<1>2. EventType' /\ \A p \in Ops : Stands(p)'
  <2>1. EventType'
    BY <1>1 DEF EventInv, EventType, EventKinds
  <2>2. ASSUME NEW p \in Ops PROVE Stands(p)'
    <3>1. CASE p = o
      BY <1>1, <3>1 DEF EventInv, EventType, Stands
    <3>2. CASE p # o
      BY <1>1, <3>2 DEF EventInv, EventType, Stands
    <3>3. QED
      BY <3>1, <3>2
  <2>3. QED
    BY <2>1, <2>2
<1>3. Lifecycle!Start(o)
  BY <1>1 DEF EventInv, EventType, Stands, Lifecycle!Start, Lifecycle!Between, Lifecycle!Announce
<1>4. QED
  BY <1>2, <1>3 DEF EventInv

LEMMA SucceededStands ==
    ASSUME EventInv, NEW o \in Ops, Succeeded(o)
    PROVE  EventInv' /\ Lifecycle!End(o)
<1>1. /\ pc[o] = "sent" /\ pc' = [pc EXCEPT ![o] = "done"]
      /\ result' = [result EXCEPT ![o] = "ok"]
      /\ UNCHANGED <<attempts, redirected, reason, reported>>
      /\ event' = [event EXCEPT ![o] = [kind |-> "AttemptSucceeded", attempt |-> attempts[o]]]
  BY DEF Succeeded, Succeed, observe
<1>2. EventType' /\ \A p \in Ops : Stands(p)'
  <2>1. EventType'
    BY <1>1 DEF EventInv, EventType, EventKinds
  <2>2. ASSUME NEW p \in Ops PROVE Stands(p)'
    <3>1. CASE p = o
      BY <1>1, <3>1 DEF EventInv, EventType, Stands
    <3>2. CASE p # o
      BY <1>1, <3>2 DEF EventInv, EventType, Stands
    <3>3. QED
      BY <3>1, <3>2
  <2>3. QED
    BY <2>1, <2>2
<1>3. Lifecycle!End(o)
  BY <1>1 DEF EventInv, EventType, Stands, Lifecycle!End, Lifecycle!Announce, Lifecycle!Answer
<1>4. QED
  BY <1>2, <1>3 DEF EventInv

LEMMA RedirectedStands ==
    ASSUME EventInv, NEW o \in Ops, Redirected(o)
    PROVE  EventInv' /\ Lifecycle!Continue(o)
<1>1. /\ pc[o] = "sent" /\ pc' = [pc EXCEPT ![o] = "sign"]
      /\ ~redirected[o] /\ redirected' = [redirected EXCEPT ![o] = TRUE]
      /\ attempts[o] < MaxAttempts
      /\ UNCHANGED <<attempts, result, reason, reported>>
      /\ event' = [event EXCEPT ![o] = [kind |-> "RegionRedirected", attempt |-> attempts[o]]]
  BY DEF Redirected, Redirect, observe
<1>2. EventType' /\ \A p \in Ops : Stands(p)'
  <2>1. EventType'
    BY <1>1 DEF EventInv, EventType, EventKinds
  <2>2. ASSUME NEW p \in Ops PROVE Stands(p)'
    <3>1. CASE p = o
      BY <1>1, <3>1 DEF EventInv, EventType, Stands
    <3>2. CASE p # o
      BY <1>1, <3>2 DEF EventInv, EventType, Stands
    <3>3. QED
      BY <3>1, <3>2
  <2>3. QED
    BY <2>1, <2>2
<1>3. Lifecycle!Continue(o)
  BY <1>1 DEF EventInv, EventType, Stands, Lifecycle!Continue, Lifecycle!Announce
<1>4. QED
  BY <1>2, <1>3 DEF EventInv

LEMMA FailedStands ==
    ASSUME EventInv, NEW o \in Ops, NEW classification \in Classifications,
           NEW retry_after \in RetryAfterHeaders, Failed(o, classification, retry_after)
    PROVE  EventInv' /\ (Lifecycle!End(o) \/ Lifecycle!Continue(o))
<1>1. FailAttempt(o, classification, retry_after)
  BY DEF Failed
<1>2. event' = [event EXCEPT ![o] = [kind |-> IF pc'[o] = "sleep" THEN "RetryScheduled" ELSE "AttemptFailed",
                                     attempt |-> attempts[o]]]
  BY DEF Failed, observe
<1>3. pc[o] = "sent"
  BY <1>1, FailAttemptForks
<1>4. ASSUME NEW why \in StopReasons, Stop(o, why)
      PROVE  EventInv' /\ Lifecycle!End(o)
  <2>1. /\ pc' = [pc EXCEPT ![o] = "done"]
        /\ result' = [result EXCEPT ![o] = "error"]
        /\ reason' = [reason EXCEPT ![o] = why]
        /\ reported' = [reported EXCEPT ![o] = attempts[o]]
        /\ UNCHANGED <<attempts, redirected>>
    BY <1>4 DEF Stop
  <2>2. event' = [event EXCEPT ![o] = [kind |-> "AttemptFailed", attempt |-> attempts[o]]]
    BY <1>2, <2>1 DEF EventInv, EventType
  <2>3. EventType'
    BY <2>1, <2>2 DEF EventInv, EventType, EventKinds
  <2>4. ASSUME NEW p \in Ops PROVE Stands(p)'
    <3>1. CASE p = o
      BY <2>1, <2>2, <3>1 DEF EventInv, EventType, Stands
    <3>2. CASE p # o
      BY <2>1, <2>2, <3>2 DEF EventInv, EventType, Stands
    <3>3. QED
      BY <3>1, <3>2
  <2>5. Lifecycle!End(o)
    BY <1>3, <2>1, <2>2 DEF EventInv, EventType, Stands, Lifecycle!End, Lifecycle!Announce, Lifecycle!Answer
  <2>6. QED
    BY <2>3, <2>4, <2>5 DEF EventInv
<1>5. ASSUME attempts[o] < MaxAttempts, NEW delay, Schedule(o, classification, delay)
      PROVE  EventInv' /\ Lifecycle!Continue(o)
  <2>1. /\ pc' = [pc EXCEPT ![o] = "sleep"]
        /\ UNCHANGED <<attempts, redirected, result, reason, reported>>
    BY <1>5 DEF Schedule
  <2>2. event' = [event EXCEPT ![o] = [kind |-> "RetryScheduled", attempt |-> attempts[o]]]
    BY <1>2, <2>1 DEF EventInv, EventType
  <2>3. EventType'
    BY <2>1, <2>2 DEF EventInv, EventType, EventKinds
  <2>4. ASSUME NEW p \in Ops PROVE Stands(p)'
    <3>1. CASE p = o
      BY <1>3, <1>5, <2>1, <2>2, <3>1 DEF EventInv, EventType, Stands
    <3>2. CASE p # o
      BY <2>1, <2>2, <3>2 DEF EventInv, EventType, Stands
    <3>3. QED
      BY <3>1, <3>2
  <2>5. Lifecycle!Continue(o)
    BY <1>3, <1>5, <2>1, <2>2 DEF EventInv, EventType, Stands, Lifecycle!Continue, Lifecycle!Announce
  <2>6. QED
    BY <2>3, <2>4, <2>5 DEF EventInv
<1>6. QED
  BY <1>1, <1>4, <1>5, FailAttemptForks

LEMMA UnobservedStands ==
    ASSUME EventInv, NEW o \in Ops, Unobserved(o)
    PROVE  EventInv' /\ (Same \/ Lifecycle!FailSilently(o))
<1>1. UNCHANGED event
  BY DEF Unobserved
<1>2. ASSUME Begin(o) \/ WakeUp(o) PROVE EventInv' /\ Same
  <2>1. /\ pc[o] \in {"prepare", "sleep"} /\ pc' = [pc EXCEPT ![o] = "sign"]
        /\ UNCHANGED <<attempts, redirected, result, reason, reported>>
    BY <1>2 DEF Begin, WakeUp
  <2>2. EventType'
    BY <1>1, <2>1 DEF EventInv, EventType
  <2>3. ASSUME NEW p \in Ops PROVE Stands(p)'
    BY <1>1, <2>1 DEF EventInv, EventType, Stands
  <2>4. QED
    BY <1>1, <2>1, <2>2, <2>3 DEF EventInv, Same
<1>3. ASSUME FailBeforeAttempt(o) PROVE EventInv' /\ Lifecycle!FailSilently(o)
  <2>1. /\ pc[o] \in {"prepare", "sign"} /\ pc' = [pc EXCEPT ![o] = "done"]
        /\ result' = [result EXCEPT ![o] = "error"]
        /\ UNCHANGED <<attempts, redirected, reason, reported>>
    BY <1>3 DEF FailBeforeAttempt
  <2>2. EventType'
    BY <1>1, <2>1 DEF EventInv, EventType
  <2>3. ASSUME NEW p \in Ops PROVE Stands(p)'
    BY <1>1, <2>1 DEF EventInv, EventType, Stands
  <2>4. Lifecycle!FailSilently(o)
    BY <1>1, <2>1 DEF EventInv, EventType, Stands, Lifecycle!FailSilently, Lifecycle!Between, Lifecycle!Answer
  <2>5. QED
    BY <2>2, <2>3, <2>4 DEF EventInv
<1>4. QED
  BY <1>2, <1>3 DEF Unobserved

LEMMA DropStands ==
    ASSUME EventInv, NEW o \in Ops, ODrop(o)
    PROVE  EventInv' /\ Lifecycle!Drop(o)
<1>1. /\ pc[o] # "done" /\ pc' = [pc EXCEPT ![o] = "done"]
      /\ result' = [result EXCEPT ![o] = "dropped"]
      /\ UNCHANGED <<attempts, redirected, reason, reported, event>>
  BY DEF ODrop, DropRequest
<1>2. EventType'
  BY <1>1 DEF EventInv, EventType
<1>3. ASSUME NEW p \in Ops PROVE Stands(p)'
  BY <1>1 DEF EventInv, EventType, Stands
<1>4. Lifecycle!Drop(o)
  BY <1>1 DEF EventInv, EventType, Stands, Lifecycle!Drop, Lifecycle!Answer
<1>5. QED
  BY <1>2, <1>3, <1>4 DEF EventInv

(* Where the observed variables stay, so does the invariant. *)
LEMMA IdleStands ==
    ASSUME EventInv, UNCHANGED <<pc, attempts, redirected, result, reason, reported, event>>
    PROVE  EventInv' /\ Same
BY DEF EventInv, EventType, Stands, Same

(* A step keeps the invariant and is a step or a stutter of the lifecycle. *)
LEMMA StepStands ==
    ASSUME EventInv, [ONext]_ovars
    PROVE  EventInv' /\ (Same \/ \E o \in Ops : \/ Lifecycle!Start(o) \/ Lifecycle!Continue(o) \/ Lifecycle!End(o)
                                               \/ Lifecycle!FailSilently(o) \/ Lifecycle!Drop(o))
<1>1. CASE OTick
  BY <1>1, IdleStands DEF OTick, Tick, exec
<1>2. ASSUME NEW o \in Ops, OStep(o)
      PROVE  EventInv' /\ (Same \/ Lifecycle!Start(o) \/ Lifecycle!Continue(o) \/ Lifecycle!End(o)
                             \/ Lifecycle!FailSilently(o))
  BY <1>2, StartedStands, SucceededStands, RedirectedStands, UnobservedStands, FailedStands DEF OStep
<1>3. ASSUME NEW o \in Ops, ODrop(o) PROVE EventInv' /\ Lifecycle!Drop(o)
  BY <1>3, DropStands
<1>4. CASE UNCHANGED ovars
  BY <1>4, IdleStands DEF ovars, vars, exec
<1>5. QED
  BY <1>1, <1>2, <1>3, <1>4 DEF ONext

LEMMA InitStands == OInit => EventInv
BY PolicyAssumption DEF OInit, Init, EventInv, EventType, EventKinds, Stands

LEMMA Observed == OSpec => []EventInv
<1>1. EventInv /\ [ONext]_ovars => EventInv'
  BY StepStands
<1>2. QED
  BY <1>1, InitStands, PTL DEF OSpec

-------------------------------------------------------------------------------
(* Requests that are observed are the requests of RequestExecution: no       *)
(* event, and no observer, changes what a request does.                      *)
THEOREM ObservationIsPassive == OSpec => Spec
<1>1. OInit => Init
  BY DEF OInit
<1>2. QED
  BY <1>1, StepIsPassive, PTL DEF OSpec, Spec

(* The numbers in the events are the numbers of the attempts, and of the     *)
(* error that the caller gets.                                               *)
THEOREM EventsCount == OSpec => []EventsCountAttempts
<1>1. EventInv => EventsCountAttempts
  BY DEF EventInv, Stands, EventsCountAttempts
<1>2. QED
  BY <1>1, Observed, PTL

(* The events keep the promise of RequestLifecycle. *)
THEOREM LifecycleIsKept == OSpec => ImplementsLifecycle
<1>1. OInit => Lifecycle!Init
  BY DEF OInit, Init, Lifecycle!Init
<1>2. EventInv /\ [ONext]_ovars => [Lifecycle!Next]_Lifecycle!vars
  BY StepStands DEF Same, Lifecycle!Next, Lifecycle!vars
<1>3. QED
  BY <1>1, <1>2, Observed, PTL DEF OSpec, ImplementsLifecycle, Lifecycle!Spec
===============================================================================

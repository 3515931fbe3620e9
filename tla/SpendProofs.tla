------------------------------ MODULE SpendProofs ------------------------------
(***************************************************************************)
(* What may be spent (Budgets) and how far it may be delegated             *)
(* (SubDispatch), for any number of bets, roles and runs.                  *)
(*                                                                         *)
(* The loop of enforce_budgets keeps the caps, gives every bet the verdict *)
(* that the caps call for, and stops for good at the first refusal by the  *)
(* session cap.  The tree of runs below a plan keeps its chains and its    *)
(* depth, and every caller in it keeps within the session cap.             *)
(***************************************************************************)
EXTENDS Budgets, SubDispatch, FiniteSetTheorems, TLAPS

-------------------------------------------------------------------------------
(* Budgets.                                                                *)

LEMMA RoundedType == ASSUME NEW cost \in Nat PROVE Rounded(cost) \in Nat
  BY DEF Rounded, Cents

\* Rounding moves an amount by at most half a cent.
LEMMA RoundedNear ==
  ASSUME NEW cost \in Nat
  PROVE  Rounded(cost) <= cost + 50 /\ cost <= Rounded(cost) + 49
  BY DEF Rounded, Cents

LEMMA SeqFacts ==
  ASSUME NEW S, NEW s \in Seq(S), NEW v \in S
  PROVE  /\ Len(s) \in Nat
         /\ DOMAIN s = 1 .. Len(s)
         /\ \A i \in DOMAIN s : s[i] \in S
         /\ Append(s, v) \in Seq(S)
         /\ Len(Append(s, v)) = Len(s) + 1
         /\ DOMAIN Append(s, v) = 1 .. Len(s) + 1
         /\ Append(s, v)[Len(s) + 1] = v
         /\ \A i \in 1 .. Len(s) : Append(s, v)[i] = s[i]
  OBVIOUS

LEMMA LoopTypes ==
  ASSUME BudgetTypeOK
  PROVE  /\ verdicts \in Seq(Verdicts) /\ Len(verdicts) \in Nat
         /\ DOMAIN verdicts = 1 .. Len(verdicts)
         /\ Len(batch) \in Nat /\ \A i \in 1 .. Len(batch) : batch[i] \in PlannedBets
<1>1. batch \in Seq(PlannedBets)
  BY BudgetAssumption DEF BudgetTypeOK
<1>2. Len(batch) \in Nat /\ \A i \in 1 .. Len(batch) : batch[i] \in PlannedBets
  BY <1>1
<1>3. QED
  BY <1>2, SeqFacts DEF BudgetTypeOK

\* While the loop goes on there is a bet of some role to deal with.
LEMMA BetType ==
  ASSUME BudgetTypeOK, More
  PROVE  Bet.role \in Roles /\ Usd \in Nat
<1>1. Len(verdicts) + 1 \in 1 .. Len(batch)
  BY LoopTypes DEF BudgetTypeOK, More
<1>2. Bet \in PlannedBets
  BY <1>1, LoopTypes DEF Bet
<1>3. Bet.role \in Roles /\ Bet.cost \in Nat
  BY <1>2 DEF PlannedBets
<1>4. QED
  BY <1>3, RoundedType DEF Usd

LEMMA BudgetTypeInit == BudgetInit => BudgetTypeOK
<1> SUFFICES ASSUME BudgetInit PROVE BudgetTypeOK
  OBVIOUS
<1>1. batch \in Seq(PlannedBets) /\ history \in [Roles -> Nat] /\ base \in Nat
  BY BudgetAssumption DEF BudgetInit
<1>2. verdicts \in Seq(Verdicts) /\ Len(verdicts) = 0
  BY DEF BudgetInit
<1>3. Len(batch) \in Nat
  BY <1>1
<1>4. Len(verdicts) <= Len(batch)
  BY <1>2, <1>3
<1>5. session_capped \in BOOLEAN
  BY DEF BudgetInit
<1>6. QED
  BY <1>1, <1>2, <1>4, <1>5 DEF BudgetInit, BudgetTypeOK

\* A decision adds one verdict, if the loop goes on.
LEMMA DecideStep ==
  ASSUME BudgetTypeOK, More, NEW v \in Verdicts, Decide(v)
  PROVE  /\ verdicts' \in Seq(Verdicts)
         /\ Len(verdicts') = Len(verdicts) + 1
         /\ Len(verdicts') <= Len(batch)
         /\ UNCHANGED <<batch, budgets, history, base>>
         /\ DOMAIN verdicts' = DOMAIN verdicts \cup {Len(verdicts) + 1}
         /\ Len(verdicts) + 1 \notin DOMAIN verdicts
         /\ DOMAIN verdicts = 1 .. Len(verdicts) /\ Len(verdicts) \in Nat
         /\ verdicts'[Len(verdicts) + 1] = v
         /\ \A i \in DOMAIN verdicts : verdicts'[i] = verdicts[i]
<1>1. verdicts' = Append(verdicts, v) /\ UNCHANGED <<batch, budgets, history, base>>
  BY DEF Decide, inputs
<1>2. /\ verdicts' \in Seq(Verdicts)
      /\ Len(verdicts') = Len(verdicts) + 1
      /\ DOMAIN verdicts' = 1 .. Len(verdicts) + 1
      /\ verdicts'[Len(verdicts) + 1] = v
      /\ \A i \in 1 .. Len(verdicts) : verdicts'[i] = verdicts[i]
  BY <1>1, LoopTypes, SeqFacts
<1>3. QED
  BY <1>1, <1>2, LoopTypes DEF More

LEMMA BudgetTypeNext == BudgetTypeOK /\ [BudgetNext]_budgetVars => BudgetTypeOK'
<1> SUFFICES ASSUME BudgetTypeOK, [BudgetNext]_budgetVars PROVE BudgetTypeOK'
  OBVIOUS
<1>1. CASE UNCHANGED budgetVars
  BY <1>1 DEF budgetVars, BudgetTypeOK
<1>2. CASE BudgetNext
  <2>1. More
    BY <1>2 DEF BudgetNext
  <2>2. \E v \in Verdicts : Decide(v)
    BY <1>2 DEF BudgetNext, RefusePerRun, RefusePerSession, RefuseUpstream, RefusePerRole,
      Allow, Verdicts
  <2>3. session_total' \in Nat
    BY <1>2, <2>1, BetType DEF BudgetNext, RefusePerRun, RefusePerSession, RefuseUpstream,
      RefusePerRole, Allow, BudgetTypeOK
  <2>4. session_capped' = session_capped \/ session_capped' = TRUE
    BY <1>2, Zenon DEF BudgetNext, RefusePerRun, RefusePerSession, RefuseUpstream,
      RefusePerRole, Allow
  <2>5. session_capped' \in BOOLEAN
    BY <2>4 DEF BudgetTypeOK
  <2>6. running_role_spend' \in [Roles -> Nat]
    BY <1>2, <2>1, BetType DEF BudgetNext, RefusePerRun, RefusePerSession, RefuseUpstream,
      RefusePerRole, Allow, BudgetTypeOK
  <2>7. /\ verdicts' \in Seq(Verdicts) /\ Len(verdicts') <= Len(batch)
        /\ UNCHANGED <<batch, budgets, history, base>>
    BY <2>1, <2>2, DecideStep
  <2>8. QED
    BY <2>3, <2>6, <2>7, <2>5 DEF BudgetTypeOK
<1>3. QED
  BY <1>1, <1>2

\* Every state of the loop is well typed; no amount is ever negative.
THEOREM BudgetTypes == BudgetSpec => []BudgetTypeOK
  BY BudgetTypeInit, BudgetTypeNext, PTL DEF BudgetSpec

\* A refusal adds nothing to what is allowed.
LEMMA RefusalAllowsNothing ==
  ASSUME BudgetTypeOK, More, NEW v \in Verdicts \ {"allowed"}, Decide(v)
  PROVE  Allowed' = Allowed /\ \A r \in Roles : AllowedOf(r)' = AllowedOf(r)
<1>1. Allowed' = Allowed
  BY DecideStep DEF Allowed
<1>2. batch' = batch
  BY DecideStep
<1>3. QED
  BY <1>1, <1>2 DEF AllowedOf

\* Allowing adds the bet to what is allowed, and to no other role.
LEMMA AllowanceOfOneRole ==
  ASSUME BudgetTypeOK, More, Decide("allowed"), NEW r \in Roles, r # Bet.role
  PROVE  AllowedOf(r)' = AllowedOf(r)
<1>1. "allowed" \in Verdicts
  BY DEF Verdicts
<1>2. Allowed' = Allowed \cup {Len(verdicts) + 1} /\ batch' = batch
  BY <1>1, DecideStep DEF Allowed
<1>3. QED
  BY <1>2 DEF AllowedOf, Bet

CapsHold == SessionCapHolds /\ RoleCapHolds

LEMMA CapsNext == BudgetTypeOK /\ CapsHold /\ [BudgetNext]_budgetVars => CapsHold'
<1> SUFFICES ASSUME BudgetTypeOK, CapsHold, [BudgetNext]_budgetVars PROVE CapsHold'
  OBVIOUS
<1>1. CASE UNCHANGED budgetVars
  BY <1>1 DEF budgetVars, CapsHold, SessionCapHolds, RoleCapHolds, Allowed, AllowedOf, Exceeds
<1>2. ASSUME More, NEW v \in Verdicts \ {"allowed"}, Decide(v),
             UNCHANGED <<session_total, running_role_spend>>
      PROVE  CapsHold'
  <2>1. budgets' = budgets
    BY <1>2 DEF Decide, inputs
  <2>2. QED
    BY <1>2, <2>1, RefusalAllowsNothing
      DEF CapsHold, SessionCapHolds, RoleCapHolds, Exceeds
<1>3. ASSUME More, Allow PROVE CapsHold'
  <2>1. budgets' = budgets /\ Decide("allowed")
    BY <1>3 DEF Allow, Decide, inputs
  <2>2. SessionCapHolds'
    BY <1>3, <2>1 DEF Allow, OverSession, SessionCapHolds, Exceeds
  <2>3. ASSUME NEW r \in Roles, r # Bet.role
        PROVE  AllowedOf(r)' # {} => ~Exceeds(running_role_spend[r], budgets.perRole[r])'
    <3>1. running_role_spend'[r] = running_role_spend[r]
      BY <1>3, <2>3 DEF Allow, BudgetTypeOK
    <3>2. QED
      BY <1>3, <2>1, <2>3, <3>1, AllowanceOfOneRole DEF CapsHold, RoleCapHolds, Exceeds
  <2>4. ~Exceeds(running_role_spend[Bet.role] + Usd, budgets.perRole[Bet.role])
    BY <1>3 DEF Allow, OverRole
  <2>5. running_role_spend'[Bet.role] = running_role_spend[Bet.role] + Usd
    BY <1>3, BetType DEF Allow, BudgetTypeOK
  <2>6. ASSUME NEW r \in Roles, r = Bet.role
        PROVE  ~Exceeds(running_role_spend[r], budgets.perRole[r])'
    BY <2>1, <2>4, <2>5, <2>6 DEF Exceeds
  <2>7. RoleCapHolds'
    BY <2>3, <2>6 DEF RoleCapHolds
  <2>8. QED
    BY <2>2, <2>7 DEF CapsHold
<1>4. QED
  BY <1>1, <1>2, <1>3 DEF BudgetNext, RefusePerRun, RefusePerSession, RefuseUpstream,
    RefusePerRole, Verdicts

LEMMA CapsInit == BudgetInit => CapsHold
<1> SUFFICES ASSUME BudgetInit PROVE CapsHold
  OBVIOUS
<1>1. Allowed = {}
  BY DEF BudgetInit, Allowed
<1>2. QED
  BY <1>1 DEF CapsHold, SessionCapHolds, RoleCapHolds, AllowedOf

\* The session's spend stays within its cap once something is allowed.
THEOREM SessionCapAlwaysHolds == BudgetSpec => []SessionCapHolds
<1>1. CapsHold => SessionCapHolds
  BY DEF CapsHold
<1>2. QED
  BY <1>1, CapsInit, CapsNext, BudgetTypes, PTL DEF BudgetSpec

\* So does the last day's spend of every role.
THEOREM RoleCapAlwaysHolds == BudgetSpec => []RoleCapHolds
<1>1. CapsHold => RoleCapHolds
  BY DEF CapsHold
<1>2. QED
  BY <1>1, CapsInit, CapsNext, BudgetTypes, PTL DEF BudgetSpec

\* The flag remembers every refusal by the session cap; it makes the rest inductive.
FlagRemembers ==
  /\ \A i \in DOMAIN verdicts : verdicts[i] = "per_session" => session_capped
  /\ SessionRefusalIsFinal

LEMMA FlagNext == BudgetTypeOK /\ FlagRemembers /\ [BudgetNext]_budgetVars => FlagRemembers'
<1> SUFFICES ASSUME BudgetTypeOK, FlagRemembers, [BudgetNext]_budgetVars PROVE FlagRemembers'
  OBVIOUS
<1>1. CASE UNCHANGED budgetVars
  BY <1>1 DEF budgetVars, FlagRemembers, SessionRefusalIsFinal
<1>2. ASSUME More, NEW v \in Verdicts, Decide(v),
             session_capped => session_capped' /\ v \in {"per_run", "per_session"},
             v = "per_session" => session_capped'
      PROVE  FlagRemembers'
  <2>1. \A i \in DOMAIN verdicts' : verdicts'[i] = "per_session" => session_capped'
    BY <1>2, DecideStep DEF FlagRemembers
  <2>2. ASSUME NEW i \in DOMAIN verdicts', NEW j \in DOMAIN verdicts', i < j,
               verdicts'[i] = "per_session"
        PROVE  verdicts'[j] \in {"per_run", "per_session"}
    <3>1. i \in DOMAIN verdicts
      BY <1>2, <2>2, DecideStep
    <3>2. CASE j \in DOMAIN verdicts
      BY <1>2, <2>2, <3>1, <3>2, DecideStep DEF FlagRemembers, SessionRefusalIsFinal
    <3>3. CASE j = Len(verdicts) + 1
      BY <1>2, <2>2, <3>1, <3>3, DecideStep DEF FlagRemembers
    <3>4. QED
      BY <1>2, <3>2, <3>3, DecideStep
  <2>3. QED
    BY <2>1, <2>2 DEF FlagRemembers, SessionRefusalIsFinal
<1>3. QED
  BY <1>1, <1>2 DEF BudgetNext, RefusePerRun, RefusePerSession, RefuseUpstream, RefusePerRole,
    Allow, Verdicts, BudgetTypeOK

\* After the first refusal by the session cap nothing more is allowed.
THEOREM SessionRefusalStaysFinal == BudgetSpec => []SessionRefusalIsFinal
<1>1. BudgetInit => FlagRemembers
  BY DEF BudgetInit, FlagRemembers, SessionRefusalIsFinal
<1>2. FlagRemembers => SessionRefusalIsFinal
  BY DEF FlagRemembers
<1>3. QED
  BY <1>1, <1>2, FlagNext, BudgetTypes, PTL DEF BudgetSpec
-------------------------------------------------------------------------------
\* Every bet of the batch costs a whole number of cents.
LEMMA BatchCosts ==
  ASSUME BudgetTypeOK, NEW i \in 1 .. Len(batch)
  PROVE  /\ batch[i].role \in Roles /\ batch[i].cost \in Nat
         /\ Cents(batch[i].cost) \in Nat
         /\ Rounded(batch[i].cost) = 100 * Cents(batch[i].cost)
<1>1. batch[i] \in PlannedBets
  BY LoopTypes
<1>2. batch[i].role \in Roles /\ batch[i].cost \in Nat
  BY <1>1 DEF PlannedBets
<1>3. QED
  BY <1>2 DEF Rounded, Cents

\* Units told apart by what they belong to: finitely many for finitely many things.
LEMMA UnitsFinite ==
  ASSUME NEW S, IsFiniteSet(S), NEW n \in [S -> Nat]
  PROVE  IsFiniteSet(UNION {{i} \X (1 .. n[i]) : i \in S})
<1> DEFINE f == [i \in S |-> {i} \X (1 .. n[i])]
           T == {{i} \X (1 .. n[i]) : i \in S}
<1>1. f \in Surjection(S, T)
  BY DEF Surjection
<1>2. IsFiniteSet(T)
  BY <1>1, FS_Surjection DEF ExistsSurjection
<1>3. ASSUME NEW i \in S PROVE IsFiniteSet({i} \X (1 .. n[i]))
  <2>1. IsFiniteSet({i}) /\ 1 \in Int /\ n[i] \in Int
    BY FS_Singleton
  <2>2. IsFiniteSet(1 .. n[i])
    BY <2>1, FS_Interval
  <2>3. QED
    BY <2>1, <2>2, FS_Product
<1>4. \A t \in T : IsFiniteSet(t)
  BY <1>3
<1>5. QED
  BY <1>2, <1>4, FS_UNION

\* One thing more adds its units.
LEMMA UnitsAdd ==
  ASSUME NEW S, IsFiniteSet(S), NEW x, x \notin S, NEW n \in [S \cup {x} -> Nat]
  PROVE  Cardinality(UNION {{i} \X (1 .. n[i]) : i \in S \cup {x}})
           = Cardinality(UNION {{i} \X (1 .. n[i]) : i \in S}) + n[x]
<1> DEFINE U == UNION {{i} \X (1 .. n[i]) : i \in S}
           V == {x} \X (1 .. n[x])
<1>1. UNION {{i} \X (1 .. n[i]) : i \in S \cup {x}} = U \cup V
  OBVIOUS
<1>2. U \cap V = {}
  OBVIOUS
<1>3. IsFiniteSet(U)
  <2> DEFINE m == [i \in S |-> n[i]]
  <2>1. m \in [S -> Nat] /\ \A i \in S : m[i] = n[i]
    OBVIOUS
  <2> HIDE DEF m
  <2>2. IsFiniteSet(UNION {{i} \X (1 .. m[i]) : i \in S})
    BY <2>1, UnitsFinite
  <2>3. {{i} \X (1 .. m[i]) : i \in S} = {{i} \X (1 .. n[i]) : i \in S}
    BY <2>1
  <2>4. QED
    BY <2>2, <2>3
<1>4. IsFiniteSet(V) /\ Cardinality(V) = n[x]
  <2>1. IsFiniteSet({x}) /\ Cardinality({x}) = 1
    BY FS_Singleton
  <2>2. IsFiniteSet(1 .. n[x]) /\ Cardinality(1 .. n[x]) = n[x]
    BY FS_Interval
  <2>3. IsFiniteSet(V) /\ Cardinality(V) = Cardinality({x}) * Cardinality(1 .. n[x])
    BY <2>1, <2>2, FS_Product
  <2>4. QED
    BY <2>1, <2>2, <2>3
<1>5. Cardinality(U \cup V) = Cardinality(U) + Cardinality(V) - Cardinality(U \cap V)
  BY <1>3, <1>4, FS_Union
<1>6. Cardinality(U) \in Nat /\ Cardinality({}) = 0 /\ n[x] \in Nat
  BY <1>3, FS_CardinalityType, FS_EmptySet
<1> HIDE DEF U, V
<1>7. Cardinality(U \cup V) = Cardinality(U) + n[x]
  <2>1. Cardinality(U \cap V) = 0
    BY <1>2, <1>6
  <2>2. Cardinality(V) = n[x] /\ n[x] \in Nat /\ Cardinality(U) \in Nat
    BY <1>4, <1>6
  <2>3. QED
    BY <1>5, <2>1, <2>2
<1>8. QED
  BY <1>1, <1>7 DEF U, V

\* Bets of the batch come to a sum, to which one bet more adds its estimate.
LEMMA SpentAdds ==
  ASSUME BudgetTypeOK, NEW S \in SUBSET (1 .. Len(batch))
  PROVE  /\ Spent(S) \in Nat
         /\ \A x \in 1 .. Len(batch) :
              x \notin S => Spent(S \cup {x}) = Spent(S) + Rounded(batch[x].cost)
<1>1. IsFiniteSet(S)
  <2>1. 1 \in Int /\ Len(batch) \in Int
    BY LoopTypes
  <2>2. IsFiniteSet(1 .. Len(batch))
    BY <2>1, FS_Interval
  <2>3. QED
    BY <2>2, FS_Subset
<1>2. \A i \in 1 .. Len(batch) :
        Cents(batch[i].cost) \in Nat /\ Rounded(batch[i].cost) = 100 * Cents(batch[i].cost)
  BY BatchCosts
<1>3. Spent(S) \in Nat /\ Cardinality(CentsOf(S)) \in Nat
  <2> DEFINE n == [i \in S |-> Cents(batch[i].cost)]
  <2>1. n \in [S -> Nat]
    BY <1>2
  <2>2. IsFiniteSet(UNION {{i} \X (1 .. n[i]) : i \in S})
    BY <1>1, <2>1, UnitsFinite
  <2>3. {{i} \X (1 .. n[i]) : i \in S} = {{i} \X (1 .. Cents(batch[i].cost)) : i \in S}
    OBVIOUS
  <2>4. IsFiniteSet(CentsOf(S))
    BY <2>2, <2>3 DEF CentsOf
  <2>5. QED
    BY <2>4, FS_CardinalityType DEF Spent
<1>4. ASSUME NEW x \in 1 .. Len(batch), x \notin S
      PROVE  Spent(S \cup {x}) = Spent(S) + Rounded(batch[x].cost)
  <2> DEFINE n == [i \in S \cup {x} |-> Cents(batch[i].cost)]
  <2>1. n \in [S \cup {x} -> Nat]
    BY <1>2
  <2>2. Cardinality(UNION {{i} \X (1 .. n[i]) : i \in S \cup {x}})
          = Cardinality(UNION {{i} \X (1 .. n[i]) : i \in S}) + n[x]
    BY <1>1, <1>4, <2>1, UnitsAdd
  <2>3. /\ {{i} \X (1 .. n[i]) : i \in S} = {{i} \X (1 .. Cents(batch[i].cost)) : i \in S}
        /\ {{i} \X (1 .. n[i]) : i \in S \cup {x}}
             = {{i} \X (1 .. Cents(batch[i].cost)) : i \in S \cup {x}}
        /\ n[x] = Cents(batch[x].cost)
    OBVIOUS
  <2>4. Cardinality(CentsOf(S \cup {x})) = Cardinality(CentsOf(S)) + Cents(batch[x].cost)
    BY <2>2, <2>3 DEF CentsOf
  <2>5. QED
    BY <1>2, <1>3, <2>4 DEF Spent
<1>5. QED
  BY <1>3, <1>4

\* The totals are what the loop has let through, and the flag tells that a bet before
\* went beyond the session cap: the loop carries the reference along.
Tally ==
  /\ session_total = base + Spent(Allowed)
  /\ \A r \in Roles : running_role_spend[r] = history[r] + Spent(AllowedOf(r))
  /\ session_capped <=> \E j \in DOMAIN verdicts : BreachesSession(j)

LEMMA TallyInit == BudgetInit => Tally
<1> SUFFICES ASSUME BudgetInit PROVE Tally
  OBVIOUS
<1>1. DOMAIN verdicts = {} /\ Allowed = {} /\ \A r : AllowedOf(r) = {}
  BY DEF BudgetInit, Allowed, AllowedOf
<1>2. Spent({}) = 0
  <2>1. CentsOf({}) = {}
    BY DEF CentsOf
  <2>2. QED
    BY <2>1, FS_EmptySet DEF Spent
<1>3. base \in Nat /\ history \in [Roles -> Nat]
  BY BudgetTypeInit DEF BudgetTypeOK
<1>4. session_total = base + Spent(Allowed)
  BY <1>1, <1>2, <1>3 DEF BudgetInit
<1>5. ASSUME NEW r \in Roles PROVE running_role_spend[r] = history[r] + Spent(AllowedOf(r))
  <2>1. Spent(AllowedOf(r)) = 0 /\ history[r] \in Nat
    BY <1>1, <1>2, <1>3
  <2>2. QED
    BY <2>1 DEF BudgetInit
<1>6. session_capped <=> \E j \in DOMAIN verdicts : BreachesSession(j)
  BY <1>1 DEF BudgetInit
<1>7. QED
  BY <1>4, <1>5, <1>6 DEF Tally

\* What the reference says of a bet depends on the verdicts before it only.
LEMMA ReferenceStays ==
  ASSUME BudgetTypeOK, More, NEW v \in Verdicts, Decide(v), NEW i \in 1 .. Len(verdicts) + 1
  PROVE  /\ BreachesRun(i)' <=> BreachesRun(i)
         /\ BreachesSession(i)' <=> BreachesSession(i)
         /\ BreachesRole(i)' <=> BreachesRole(i)
<1>1. UNCHANGED <<batch, budgets, history, base>>
  BY DecideStep
<1>2. \A j \in DOMAIN verdicts' : j \in Before(i) => j \in DOMAIN verdicts /\ verdicts'[j] = verdicts[j]
  BY DecideStep DEF Before
<1>3. \A j \in DOMAIN verdicts : j \in DOMAIN verdicts' /\ verdicts'[j] = verdicts[j]
  BY DecideStep
<1>4. Allowed' \cap Before(i) = Allowed \cap Before(i)
  BY <1>2, <1>3 DEF Allowed
<1>5. \A r : AllowedOf(r)' \cap Before(i) = AllowedOf(r) \cap Before(i)
  BY <1>1, <1>4 DEF AllowedOf
<1>6. BreachesRun(i)' <=> BreachesRun(i)
  BY <1>1 DEF BreachesRun, Exceeds
<1>7. BreachesSession(i)' <=> BreachesSession(i)
  BY <1>1, <1>4, <1>6 DEF BreachesSession, Spent, CentsOf, Exceeds
<1>8. BreachesRole(i)' <=> BreachesRole(i)
  BY <1>1, <1>5 DEF BreachesRole, Spent, CentsOf, Exceeds
<1>9. QED
  BY <1>6, <1>7, <1>8

LEMMA ReferenceFrozen ==
  ASSUME UNCHANGED budgetVars
  PROVE  /\ Spent(Allowed)' = Spent(Allowed)
         /\ \A r : Spent(AllowedOf(r))' = Spent(AllowedOf(r))
         /\ \A i : BreachesRun(i)' <=> BreachesRun(i)
         /\ \A i : BreachesSession(i)' <=> BreachesSession(i)
         /\ \A i : BreachesRole(i)' <=> BreachesRole(i)
<1>1. UNCHANGED <<batch, budgets, history, base, verdicts>>
  BY DEF budgetVars
<1>2. Allowed' = Allowed /\ \A r : AllowedOf(r)' = AllowedOf(r)
  BY <1>1 DEF Allowed, AllowedOf
<1>3. Spent(Allowed)' = Spent(Allowed) /\ \A r : Spent(AllowedOf(r))' = Spent(AllowedOf(r))
  BY <1>1, <1>2 DEF Spent, CentsOf
<1>4. \A i : BreachesRun(i)' <=> BreachesRun(i)
  BY <1>1 DEF BreachesRun, Exceeds
<1>5. \A i : BreachesSession(i)' <=> BreachesSession(i)
  BY <1>1, <1>2, <1>4 DEF BreachesSession, Spent, CentsOf, Before, Exceeds
<1>6. \A i : BreachesRole(i)' <=> BreachesRole(i)
  BY <1>1, <1>2 DEF BreachesRole, Spent, CentsOf, Before, Exceeds
<1>7. QED
  BY <1>3, <1>4, <1>5, <1>6

\* The tests of the loop are those of the reference.
LEMMA TestsAgree ==
  ASSUME BudgetTypeOK, Tally, More
  PROVE  LET n == Len(verdicts) + 1 IN
         /\ n \in 1 .. Len(batch) /\ Before(n) = DOMAIN verdicts
         /\ OverRun <=> BreachesRun(n)
         /\ ~OverRun => (OverSession <=> BreachesSession(n))
         /\ OverRole <=> BreachesRole(n)
<1> DEFINE n == Len(verdicts) + 1
<1>1. n \in 1 .. Len(batch) /\ Before(n) = DOMAIN verdicts
  BY LoopTypes DEF More, Before, BudgetTypeOK
<1>2. Allowed \cap Before(n) = Allowed /\ \A r : AllowedOf(r) \cap Before(n) = AllowedOf(r)
  BY <1>1 DEF Allowed, AllowedOf
<1>3. Bet = batch[n] /\ Usd = Rounded(batch[n].cost) /\ Bet.role \in Roles
  BY BetType DEF Bet, Usd
<1>4. OverRun <=> BreachesRun(n)
  BY <1>3 DEF OverRun, BreachesRun
<1>5. ASSUME ~OverRun PROVE OverSession <=> BreachesSession(n)
  BY <1>2, <1>3, <1>4, <1>5 DEF OverSession, BreachesSession, Tally
<1>6. OverRole <=> BreachesRole(n)
  BY <1>2, <1>3 DEF OverRole, BreachesRole, Tally
<1>7. QED
  BY <1>1, <1>4, <1>5, <1>6

LEMMA TallyNext == BudgetTypeOK /\ Tally /\ [BudgetNext]_budgetVars => Tally'
<1> SUFFICES ASSUME BudgetTypeOK, Tally, [BudgetNext]_budgetVars PROVE Tally'
  OBVIOUS
<1> DEFINE n == Len(verdicts) + 1
<1>1. CASE UNCHANGED budgetVars
  <2>1. UNCHANGED <<session_total, base, running_role_spend, history, session_capped, verdicts>>
    BY <1>1 DEF budgetVars
  <2>2. QED
    BY <1>1, <2>1, ReferenceFrozen DEF Tally
<1>2. ASSUME NEW v \in Verdicts, More, Decide(v),
             session_capped' <=> session_capped \/ (~OverRun /\ OverSession)
      PROVE  session_capped' <=> \E j \in DOMAIN verdicts' : BreachesSession(j)'
  <2>1. DOMAIN verdicts' = DOMAIN verdicts \cup {n} /\ DOMAIN verdicts = 1 .. Len(verdicts)
    BY <1>2, DecideStep
  <2>2. \A j \in DOMAIN verdicts' : BreachesSession(j)' <=> BreachesSession(j)
    BY <1>2, <2>1, LoopTypes, ReferenceStays
  <2>3. ~OverRun /\ OverSession <=> BreachesSession(n)
    BY <1>2, TestsAgree DEF BreachesSession
  <2>4. QED
    BY <1>2, <2>1, <2>2, <2>3 DEF Tally
<1>3. ASSUME NEW v \in Verdicts \ {"allowed"}, More, Decide(v),
             UNCHANGED <<session_total, running_role_spend>>,
             session_capped' <=> session_capped \/ (~OverRun /\ OverSession)
      PROVE  Tally'
  <2>1. Allowed' = Allowed /\ \A r \in Roles : AllowedOf(r)' = AllowedOf(r)
    BY <1>3, RefusalAllowsNothing
  <2>2. UNCHANGED <<batch, budgets, history, base>>
    BY <1>3, DecideStep
  <2>3. QED
    BY <1>2, <1>3, <2>1, <2>2 DEF Tally, Spent, CentsOf
<1>4. ASSUME More, Allow PROVE Tally'
  <2>1. "allowed" \in Verdicts /\ Decide("allowed")
    BY <1>4 DEF Verdicts, Allow
  <2>2. UNCHANGED <<batch, budgets, history, base>>
    BY <1>4, <2>1, DecideStep
  <2>3. /\ n \in 1 .. Len(batch) /\ n \notin Allowed /\ Allowed \in SUBSET (1 .. Len(batch))
        /\ Allowed' = Allowed \cup {n}
    BY <1>4, <2>1, DecideStep, LoopTypes, TestsAgree DEF Allowed, BudgetTypeOK
  <2>4. Bet.role \in Roles /\ Bet = batch[n] /\ Usd = Rounded(batch[n].cost) /\ Usd \in Nat
    BY <1>4, BetType DEF Bet, Usd
  <2>5. base \in Nat /\ history \in [Roles -> Nat] /\ running_role_spend \in [Roles -> Nat]
    BY DEF BudgetTypeOK
  <2>6. session_total' = base' + Spent(Allowed)'
    <3>1. Spent(Allowed \cup {n}) = Spent(Allowed) + Usd /\ Spent(Allowed) \in Nat
      BY <2>3, <2>4, SpentAdds
    <3>2. Spent(Allowed)' = Spent(Allowed \cup {n})
      BY <2>2, <2>3 DEF Spent, CentsOf
    <3>3. session_total' = session_total + Usd
      BY <1>4 DEF Allow
    <3>4. QED
      BY <2>2, <2>4, <2>5, <3>1, <3>2, <3>3 DEF Tally
  <2>7. ASSUME NEW r \in Roles
        PROVE  running_role_spend'[r] = history'[r] + Spent(AllowedOf(r))'
    <3>1. running_role_spend' = [running_role_spend EXCEPT ![Bet.role] = @ + Usd]
      BY <1>4 DEF Allow
    <3>2. CASE r # Bet.role
      <4>1. AllowedOf(r)' = AllowedOf(r)
        BY <1>4, <2>1, <3>2, AllowanceOfOneRole
      <4>2. running_role_spend'[r] = running_role_spend[r]
        BY <2>5, <3>1, <3>2
      <4>3. QED
        BY <2>2, <4>1, <4>2 DEF Tally, Spent, CentsOf
    <3>3. CASE r = Bet.role
      <4>1. AllowedOf(r)' = AllowedOf(r) \cup {n} /\ n \notin AllowedOf(r)
            /\ AllowedOf(r) \in SUBSET (1 .. Len(batch))
        BY <2>2, <2>3, <2>4, <3>3 DEF AllowedOf
      <4>2. Spent(AllowedOf(r) \cup {n}) = Spent(AllowedOf(r)) + Usd /\ Spent(AllowedOf(r)) \in Nat
        BY <2>3, <2>4, <4>1, SpentAdds
      <4>3. Spent(AllowedOf(r))' = Spent(AllowedOf(r) \cup {n})
        BY <2>2, <4>1 DEF Spent, CentsOf
      <4>4. running_role_spend'[r] = running_role_spend[r] + Usd
        BY <2>5, <3>1, <3>3
      <4>5. history[r] \in Nat
        BY <2>5
      <4>6. QED
        BY <2>2, <2>4, <4>2, <4>3, <4>4, <4>5 DEF Tally
    <3>4. QED
      BY <3>2, <3>3
  <2>8. session_capped' <=> session_capped \/ (~OverRun /\ OverSession)
    BY <1>4 DEF Allow
  <2>9. QED
    BY <1>2, <1>4, <2>1, <2>6, <2>7, <2>8 DEF Tally
<1>5. ASSUME More, RefusePerRun \/ RefusePerSession \/ RefuseUpstream \/ RefusePerRole
      PROVE  Tally'
  <2>1. \E v \in Verdicts \ {"allowed"} : Decide(v)
    BY <1>5 DEF RefusePerRun, RefusePerSession, RefuseUpstream, RefusePerRole, Verdicts
  <2>2. UNCHANGED <<session_total, running_role_spend>>
    BY <1>5 DEF RefusePerRun, RefusePerSession, RefuseUpstream, RefusePerRole
  <2>3. session_capped' <=> session_capped \/ (~OverRun /\ OverSession)
    <3>1. ASSUME UNCHANGED session_capped, OverRun \/ ~OverSession
          PROVE  session_capped' <=> session_capped \/ (~OverRun /\ OverSession)
      BY <3>1
    <3>2. ASSUME session_capped' = TRUE, ~OverRun, OverSession
          PROVE  session_capped' <=> session_capped \/ (~OverRun /\ OverSession)
      BY <3>2
    <3>3. \/ UNCHANGED session_capped /\ (OverRun \/ ~OverSession)
          \/ session_capped' = TRUE /\ ~OverRun /\ OverSession
      BY <1>5 DEF RefusePerRun, RefusePerSession, RefuseUpstream, RefusePerRole
    <3>4. QED
      BY <3>1, <3>2, <3>3
  <2>4. QED
    BY <1>3, <1>5, <2>1, <2>2, <2>3
<1>6. QED
  BY <1>1, <1>4, <1>5 DEF BudgetNext

LEMMA FollowNext ==
  BudgetTypeOK /\ Tally /\ VerdictsFollowCaps /\ [BudgetNext]_budgetVars => VerdictsFollowCaps'
<1> SUFFICES ASSUME BudgetTypeOK, Tally, VerdictsFollowCaps, [BudgetNext]_budgetVars
             PROVE  VerdictsFollowCaps'
  OBVIOUS
<1> DEFINE n == Len(verdicts) + 1
           capped == \E j \in Before(n) \cup {n} : BreachesSession(j)
<1>1. CASE UNCHANGED budgetVars
  <2>1. verdicts' = verdicts
    BY <1>1 DEF budgetVars
  <2>2. QED
    BY <1>1, <2>1, ReferenceFrozen DEF VerdictsFollowCaps, Before
<1>2. CASE BudgetNext
  <2>1. More
    BY <1>2 DEF BudgetNext
  <2>2. PICK v \in Verdicts :
          /\ Decide(v)
          /\ \/ v = "per_run" /\ OverRun
             \/ v = "per_session" /\ ~OverRun /\ (OverSession \/ session_capped)
             \/ v = "per_role" /\ ~OverRun /\ ~(OverSession \/ session_capped) /\ OverRole
             \/ v = "allowed" /\ ~OverRun /\ ~(OverSession \/ session_capped) /\ ~OverRole
    BY <1>2 DEF BudgetNext, RefusePerRun, RefusePerSession, RefuseUpstream, RefusePerRole,
      Allow, Verdicts
  <2>3. /\ OverRun <=> BreachesRun(n)
        /\ OverRole <=> BreachesRole(n)
        /\ Before(n) = DOMAIN verdicts
        /\ ~OverRun => (OverSession <=> BreachesSession(n))
    BY <2>1, TestsAgree
  <2>4. ~OverRun => (capped <=> OverSession \/ session_capped)
    BY <2>3 DEF Tally
  <2>5. /\ DOMAIN verdicts' = DOMAIN verdicts \cup {n} /\ DOMAIN verdicts = 1 .. Len(verdicts)
        /\ Len(verdicts) \in Nat /\ verdicts'[n] = v
        /\ \A i \in DOMAIN verdicts : verdicts'[i] = verdicts[i]
    BY <2>1, <2>2, DecideStep
  <2>6. \A i \in DOMAIN verdicts' :
          /\ BreachesRun(i)' <=> BreachesRun(i)
          /\ BreachesSession(i)' <=> BreachesSession(i)
          /\ BreachesRole(i)' <=> BreachesRole(i)
    BY <2>1, <2>2, <2>5, ReferenceStays
  <2>7. ASSUME NEW i \in DOMAIN verdicts'
        PROVE  /\ (\E j \in Before(i) \cup {i} : BreachesSession(j)')
                    <=> \E j \in Before(i) \cup {i} : BreachesSession(j)
               /\ BreachesRun(i)' <=> BreachesRun(i)
               /\ BreachesRole(i)' <=> BreachesRole(i)
    <3>1. \A j \in Before(i) \cup {i} : j \in DOMAIN verdicts'
      BY <2>5 DEF Before
    <3>2. QED
      BY <2>6, <3>1
  <2>8. ASSUME NEW i \in DOMAIN verdicts', i # n
        PROVE  verdicts'[i] =
                 CASE BreachesRun(i) -> "per_run"
                   [] ~BreachesRun(i) /\ (\E j \in Before(i) \cup {i} : BreachesSession(j)) -> "per_session"
                   [] ~BreachesRun(i) /\ ~(\E j \in Before(i) \cup {i} : BreachesSession(j))
                      /\ BreachesRole(i) -> "per_role"
                   [] OTHER -> "allowed"
    BY <2>5, <2>8 DEF VerdictsFollowCaps
  <2>9. verdicts'[n] =
          CASE BreachesRun(n) -> "per_run"
            [] ~BreachesRun(n) /\ capped -> "per_session"
            [] ~BreachesRun(n) /\ ~capped /\ BreachesRole(n) -> "per_role"
            [] OTHER -> "allowed"
    <3> HIDE DEF capped
    <3>1. QED
      BY <2>2, <2>3, <2>4, <2>5
  <2>10. ASSUME NEW i \in DOMAIN verdicts'
         PROVE  verdicts'[i] =
                 CASE BreachesRun(i)' -> "per_run"
                   [] ~BreachesRun(i)' /\ (\E j \in Before(i) \cup {i} : BreachesSession(j)') -> "per_session"
                   [] ~BreachesRun(i)' /\ ~(\E j \in Before(i) \cup {i} : BreachesSession(j)')
                      /\ BreachesRole(i)' -> "per_role"
                   [] OTHER -> "allowed"
    BY <2>7, <2>8, <2>9
  <2>11. QED
    BY <2>10 DEF VerdictsFollowCaps, Before
<1>3. QED
  BY <1>1, <1>2

\* Every verdict is the one that the caps call for, told from what was let through
\* before the bet: the order of the checks, the totals and the flag come to that.
THEOREM VerdictsAlwaysFollowCaps == BudgetSpec => []VerdictsFollowCaps
<1>1. BudgetInit => VerdictsFollowCaps
  BY DEF BudgetInit, VerdictsFollowCaps
<1>2. QED
  BY <1>1, TallyInit, TallyNext, FollowNext, BudgetTypes, PTL DEF BudgetSpec

\* What bets of the batch come to before their estimates are rounded.
Unrounded(S) == Cardinality(UNION {{i} \X (1 .. batch[i].cost) : i \in S})

\* The rounding of each estimate hides less than half a cent.
RoundingIsSmall ==
  /\ IsFiniteSet(Allowed)
  /\ Unrounded(Allowed) \in Nat
  /\ Unrounded(Allowed) <= Spent(Allowed) + 49 * Cardinality(Allowed)

LEMMA UnroundedAdds ==
  ASSUME BudgetTypeOK, NEW S \in SUBSET (1 .. Len(batch)), IsFiniteSet(S),
         NEW x \in 1 .. Len(batch), x \notin S
  PROVE  Unrounded(S \cup {x}) = Unrounded(S) + batch[x].cost
<1> DEFINE n == [i \in S \cup {x} |-> batch[i].cost]
<1>1. n \in [S \cup {x} -> Nat]
  BY BatchCosts
<1>2. Cardinality(UNION {{i} \X (1 .. n[i]) : i \in S \cup {x}})
        = Cardinality(UNION {{i} \X (1 .. n[i]) : i \in S}) + n[x]
  BY <1>1, UnitsAdd
<1>3. /\ {{i} \X (1 .. n[i]) : i \in S} = {{i} \X (1 .. batch[i].cost) : i \in S}
      /\ {{i} \X (1 .. n[i]) : i \in S \cup {x}} = {{i} \X (1 .. batch[i].cost) : i \in S \cup {x}}
      /\ n[x] = batch[x].cost
  OBVIOUS
<1>4. QED
  BY <1>2, <1>3 DEF Unrounded

LEMMA RoundingInit == BudgetInit => RoundingIsSmall
<1> SUFFICES ASSUME BudgetInit PROVE RoundingIsSmall
  OBVIOUS
<1>1. Allowed = {}
  BY DEF BudgetInit, Allowed
<1>2. UNION {{i} \X (1 .. batch[i].cost) : i \in {}} = {} /\ CentsOf({}) = {}
  BY DEF CentsOf
<1>3. Unrounded({}) = 0 /\ Spent({}) = 0 /\ Cardinality({}) = 0 /\ IsFiniteSet({})
  BY <1>2, FS_EmptySet DEF Unrounded, Spent
<1>4. QED
  BY <1>1, <1>3 DEF RoundingIsSmall

\* One more allowed bet adds at most 49 hundredths of a cent of rounding.
LEMMA RoundingSum ==
  ASSUME NEW u \in Nat, NEW s \in Nat, NEW k \in Nat, NEW c \in Nat, NEW r \in Nat,
         u <= s + 49 * k, c <= r + 49
  PROVE  u + c \in Nat /\ u + c <= s + r + 49 * (k + 1)
OBVIOUS

LEMMA RoundingNext == BudgetTypeOK /\ RoundingIsSmall /\ [BudgetNext]_budgetVars => RoundingIsSmall'
<1> SUFFICES ASSUME BudgetTypeOK, RoundingIsSmall, [BudgetNext]_budgetVars PROVE RoundingIsSmall'
  OBVIOUS
<1> DEFINE n == Len(verdicts) + 1
<1>1. ASSUME Allowed' = Allowed, batch' = batch PROVE RoundingIsSmall'
  BY <1>1 DEF RoundingIsSmall, Unrounded, Spent, CentsOf
<1>2. ASSUME More, NEW v \in Verdicts \ {"allowed"}, Decide(v) PROVE RoundingIsSmall'
  BY <1>1, <1>2, RefusalAllowsNothing, DecideStep
<1>3. ASSUME More, Decide("allowed") PROVE RoundingIsSmall'
  <2>1. "allowed" \in Verdicts
    BY DEF Verdicts
  <2>2. /\ batch' = batch /\ Allowed' = Allowed \cup {n}
        /\ n \in 1 .. Len(batch) /\ n \notin Allowed /\ Allowed \in SUBSET (1 .. Len(batch))
    BY <1>3, <2>1, DecideStep, LoopTypes DEF Allowed, More, BudgetTypeOK
  <2>3. Unrounded(Allowed \cup {n}) = Unrounded(Allowed) + batch[n].cost
    BY <2>2, UnroundedAdds DEF RoundingIsSmall
  <2>4. Spent(Allowed \cup {n}) = Spent(Allowed) + Rounded(batch[n].cost) /\ Spent(Allowed) \in Nat
    BY <2>2, SpentAdds
  <2>5. IsFiniteSet(Allowed \cup {n}) /\ Cardinality(Allowed \cup {n}) = Cardinality(Allowed) + 1
        /\ Cardinality(Allowed) \in Nat
    BY <2>2, FS_AddElement, FS_CardinalityType DEF RoundingIsSmall
  <2>6. batch[n].cost \in Nat /\ batch[n].cost <= Rounded(batch[n].cost) + 49
        /\ Rounded(batch[n].cost) \in Nat
    BY <2>2, BatchCosts, RoundedNear, RoundedType
  <2>7. /\ Unrounded(Allowed \cup {n}) \in Nat
        /\ Unrounded(Allowed \cup {n}) <= Spent(Allowed \cup {n}) + 49 * Cardinality(Allowed \cup {n})
    <3>1. /\ Unrounded(Allowed) \in Nat
          /\ Unrounded(Allowed) <= Spent(Allowed) + 49 * Cardinality(Allowed)
      BY DEF RoundingIsSmall
    <3>2. /\ Unrounded(Allowed) + batch[n].cost \in Nat
          /\ Unrounded(Allowed) + batch[n].cost
               <= Spent(Allowed) + Rounded(batch[n].cost) + 49 * (Cardinality(Allowed) + 1)
      BY <2>4, <2>5, <2>6, <3>1, RoundingSum
    <3>3. QED
      BY <2>3, <2>4, <2>5, <3>2
  <2>8. Unrounded(Allowed)' = Unrounded(Allowed \cup {n}) /\ Spent(Allowed)' = Spent(Allowed \cup {n})
    BY <2>2 DEF Unrounded, Spent, CentsOf
  <2>9. Allowed' = Allowed \cup {n}
    BY <2>2
  <2> HIDE DEF n
  <2>10. IsFiniteSet(Allowed') /\ Unrounded(Allowed)' \in Nat
    BY <2>5, <2>7, <2>8, <2>9
  <2>11. Unrounded(Allowed)' <= Spent(Allowed)' + 49 * Cardinality(Allowed')
    BY <2>7, <2>8, <2>9
  <2>12. QED
    BY <2>10, <2>11 DEF RoundingIsSmall
<1>4. CASE UNCHANGED budgetVars
  BY <1>1, <1>4 DEF budgetVars, Allowed
<1>5. CASE BudgetNext
  BY <1>2, <1>3, <1>5 DEF BudgetNext, RefusePerRun, RefusePerSession, RefuseUpstream,
    RefusePerRole, Allow, Verdicts
<1>6. QED
  BY <1>4, <1>5

\* The caps are held against estimates rounded to cents.  What the bets let through
\* really cost takes the session above its cap by less than half a cent a bet.
SessionCapNearlyHolds ==
  Allowed # {} => \A c \in budgets.perSession :
                    base + Unrounded(Allowed) <= c + 49 * Cardinality(Allowed)

THEOREM SessionCapAlwaysNearlyHolds == BudgetSpec => []SessionCapNearlyHolds
<1>1. BudgetTypeOK /\ SessionCapHolds /\ Tally /\ RoundingIsSmall => SessionCapNearlyHolds
  <2> SUFFICES ASSUME BudgetTypeOK, SessionCapHolds, Tally, RoundingIsSmall,
                      Allowed # {}, NEW c \in budgets.perSession
               PROVE  base + Unrounded(Allowed) <= c + 49 * Cardinality(Allowed)
    BY DEF SessionCapNearlyHolds
  <2>1. c \in Nat
    BY BudgetAssumption DEF BudgetTypeOK, IsCap
  <2>2. session_total \in Nat /\ base \in Nat
    BY DEF BudgetTypeOK
  <2>3. session_total <= c
    BY <2>1, <2>2 DEF SessionCapHolds, Exceeds
  <2>4. Spent(Allowed) \in Nat
    BY SpentAdds, LoopTypes DEF Allowed, BudgetTypeOK
  <2>5. Cardinality(Allowed) \in Nat
    BY FS_CardinalityType DEF RoundingIsSmall
  <2>6. QED
    BY <2>1, <2>2, <2>3, <2>4, <2>5 DEF Tally, RoundingIsSmall
<1>2. QED
  BY <1>1, BudgetTypes, SessionCapAlwaysHolds, TallyInit, TallyNext, RoundingInit, RoundingNext,
    PTL DEF BudgetSpec

-------------------------------------------------------------------------------
(* SubDispatch.                                                            *)

\* What the proofs need of sequences, for one opaque set of elements.
LEMMA ChainFacts ==
  ASSUME NEW S, NEW s \in Seq(S), NEW r \in S
  PROVE  /\ Len(s) \in Nat /\ DOMAIN s = 1 .. Len(s)
         /\ Append(s, r) \in Seq(S)
         /\ Len(Append(s, r)) = Len(s) + 1
         /\ DOMAIN Append(s, r) = 1 .. Len(s) + 1
         /\ Append(s, r)[Len(s) + 1] = r
         /\ \A i \in 1 .. Len(s) : Append(s, r)[i] = s[i]
OBVIOUS

LEMMA OneHop ==
  ASSUME NEW S, NEW r \in S
  PROVE  <<r>> \in Seq(S) /\ Len(<<r>>) = 1 /\ DOMAIN <<r>> = {1}
OBVIOUS

LEMMA TypeInit == Init => TypeOK
<1> SUFFICES ASSUME Init PROVE TypeOK
  OBVIOUS
<1>1. MaxRuns \in Nat
  BY SubDispatchAssumption
<1>2. chain \in [RunIds -> Seq(Roles)]
  BY DEF Init
<1>3. QED
  BY <1>1, <1>2 DEF Init, TypeOK, Started

\* What a step that starts a run does.
StartsRun(n, r, e, p, hops) ==
  /\ n = runs + 1 /\ n \in RunIds
  /\ r \in Roles /\ e \in Nat /\ p \in 0 .. runs /\ hops \in Seq(Roles)
  /\ Start(n, r, e, p, hops)

LEMMA StartedNext ==
  ASSUME TypeOK, NEW n, NEW r, NEW e, NEW p, NEW hops,
         StartsRun(n, r, e, p, hops)
  PROVE  /\ Started' = Started \cup {n} /\ n \notin Started
         /\ Started \subseteq RunIds
         /\ role'[n] = r /\ parent'[n] = p /\ chain'[n] = hops
         /\ est'[n] = e
         /\ \A m \in Started :
              /\ m # n
              /\ role'[m] = role[m] /\ parent'[m] = parent[m] /\ chain'[m] = chain[m]
              /\ est'[m] = est[m]
<1>1. runs \in Nat /\ n = runs + 1 /\ n \in RunIds /\ runs' = n
  BY SubDispatchAssumption DEF TypeOK, StartsRun, Start
<1>2. Started' = Started \cup {n} /\ n \notin Started /\ Started \subseteq RunIds
  BY <1>1, SubDispatchAssumption DEF Started, RunIds
<1>3. QED
  BY <1>1, <1>2 DEF TypeOK, StartsRun, Start

LEMMA StartTypes ==
  ASSUME TypeOK, NEW n, NEW r, NEW e, NEW p, NEW hops,
         StartsRun(n, r, e, p, hops), told' \in [RunIds -> Nat]
  PROVE  TypeOK'
<1>1. runs \in Nat /\ runs' \in 0 .. MaxRuns /\ p \in 0 .. MaxRuns
  BY SubDispatchAssumption DEF TypeOK, StartsRun, Start, RunIds
<1>2. ended' \subseteq Started'
  <2>1. ended' = ended /\ ended \subseteq Started
    BY DEF TypeOK, StartsRun, Start
  <2>2. Started' = Started \cup {n}
    BY StartedNext, Zenon
  <2>3. QED
    BY <2>1, <2>2
<1>3. reports_to' \in Trees
  BY DEF TypeOK, StartsRun, Start
<1>4. role' \in [RunIds -> Roles \cup {NoRole}] /\ parent' \in [RunIds -> 0 .. MaxRuns]
  BY <1>1 DEF TypeOK, StartsRun, Start
<1>5. chain' \in [RunIds -> Seq(Roles)]
  BY DEF TypeOK, StartsRun, Start
<1>6. est' \in [RunIds -> Nat]
  BY DEF TypeOK, StartsRun, Start
<1>7. QED
  BY <1>1, <1>2, <1>3, <1>4, <1>5, <1>6 DEF TypeOK

\* A planned run.
LEMMA Planned ==
  ASSUME TypeOK, NEW n \in RunIds, NEW r \in Roles, NEW e \in Estimates,
         DispatchPlanned(n, r, e)
  PROVE  StartsRun(n, r, e, 0, <<r>>) /\ told' = told
BY OneHop, SubDispatchAssumption DEF DispatchPlanned, StartsRun, Start, TypeOK

\* A run that the leader of run p starts.
LEMMA Delegated ==
  ASSUME TypeOK, NEW n \in RunIds, NEW p \in RunIds, NEW r \in Roles, NEW e \in Estimates,
         DispatchSubordinate(n, p, r, e)
  PROVE  /\ StartsRun(n, r, e, p, Append(chain[p], r))
         /\ p \in Started /\ p # 0
         /\ chain[p] \in Seq(Roles) /\ told[p] \in Nat /\ e \in Nat
         /\ told' = [told EXCEPT ![p] = told[p] + e]
         /\ told' \in [RunIds -> Nat]
<1>1. p \in Started /\ p # 0 /\ p \in 0 .. runs
  BY DEF DispatchSubordinate, Started, RunIds, TypeOK
<1>2. chain[p] \in Seq(Roles) /\ told[p] \in Nat /\ e \in Nat /\ told[p] + e \in Nat
  BY SubDispatchAssumption DEF TypeOK
<1>3. Append(chain[p], r) \in Seq(Roles)
  BY <1>2, ChainFacts
<1>4. told' = [told EXCEPT ![p] = told[p] + e]
  BY DEF DispatchSubordinate, Total
<1>5. Start(n, r, e, p, Append(chain[p], r))
  BY DEF DispatchSubordinate
<1>6. StartsRun(n, r, e, p, Append(chain[p], r))
  BY <1>1, <1>2, <1>3, <1>5 DEF StartsRun, Start
<1>7. told' \in [RunIds -> Nat]
  BY <1>2, <1>4 DEF TypeOK
<1>8. QED
  BY <1>1, <1>2, <1>4, <1>6, <1>7

LEMMA TypeNext == TypeOK /\ [Next]_vars => TypeOK'
<1> SUFFICES ASSUME TypeOK, [Next]_vars PROVE TypeOK'
  OBVIOUS
<1>1. CASE UNCHANGED vars
  BY <1>1 DEF vars, TypeOK, Started
<1>2. CASE Reorganise
  BY <1>2 DEF Reorganise, runVars, TypeOK, Started
<1>3. ASSUME NEW n \in RunIds, End(n) PROVE TypeOK'
  BY <1>3 DEF End, runVars, TypeOK, Started
<1>4. ASSUME NEW n \in RunIds, NEW r \in Roles, NEW e \in Estimates, DispatchPlanned(n, r, e)
      PROVE  TypeOK'
  <2>1. told' \in [RunIds -> Nat]
    BY <1>4, Planned DEF TypeOK
  <2>2. QED
    BY <1>4, <2>1, Planned, StartTypes
<1>5. ASSUME NEW n \in RunIds, NEW p \in RunIds, NEW r \in Roles, NEW e \in Estimates,
             DispatchSubordinate(n, p, r, e)
      PROVE  TypeOK'
  BY <1>5, Delegated, StartTypes
<1>6. QED
  BY <1>1, <1>2, <1>3, <1>4, <1>5 DEF Next

\* Every state of the tree of runs is well typed.
THEOREM SubDispatchTypes == Spec => []TypeOK
BY TypeInit, TypeNext, PTL DEF Spec

-------------------------------------------------------------------------------
LEMMA DepthNext == TypeOK /\ DepthIsBounded /\ [Next]_vars => DepthIsBounded'
<1> SUFFICES ASSUME TypeOK, DepthIsBounded, [Next]_vars PROVE DepthIsBounded'
  OBVIOUS
<1>0. MaxDepth \in Nat \ {0} /\ runs \in Nat
  BY SubDispatchAssumption DEF TypeOK
<1>1. CASE UNCHANGED <<runs, role, parent, chain>>
  BY <1>1 DEF DepthIsBounded, Started, Subordinate
<1>2. ASSUME NEW n, NEW r, NEW e, NEW p, NEW hops,
             StartsRun(n, r, e, p, hops),
             p # 0 => p \in Started,
             hops = (IF p # 0 THEN Append(chain[p], r) ELSE <<r>>),
             Len(hops) <= MaxDepth
      PROVE  DepthIsBounded'
  <2>1. /\ Started' = Started \cup {n}
        /\ role'[n] = r /\ parent'[n] = p /\ chain'[n] = hops
        /\ \A m \in Started : role'[m] = role[m] /\ parent'[m] = parent[m] /\ chain'[m] = chain[m]
    BY <1>2, StartedNext
  <2>2. p # 0 => p < n
    BY <1>0, <1>2 DEF StartsRun, Started
  <2>3. ASSUME NEW m \in Started
        PROVE  /\ Subordinate(m)' => parent'[m] < m
               /\ chain'[m] = IF Subordinate(m)' THEN Append(chain'[parent'[m]], role'[m])
                              ELSE <<role'[m]>>
               /\ Len(chain'[m]) <= MaxDepth
    <3>1. parent'[m] = parent[m] /\ chain'[m] = chain[m] /\ role'[m] = role[m]
      BY <2>1
    <3>2. Subordinate(m) => parent[m] \in Started
      <4>1. m \in RunIds /\ parent[m] \in 0 .. MaxRuns
        BY <1>2, StartedNext DEF TypeOK
      <4>2. Subordinate(m) => parent[m] < m
        BY DEF DepthIsBounded
      <4>3. QED
        BY <1>0, <4>1, <4>2, SubDispatchAssumption DEF Started, Subordinate
    <3>3. Subordinate(m) => chain'[parent[m]] = chain[parent[m]]
      BY <2>1, <3>2
    <3>4. QED
      BY <3>1, <3>3 DEF DepthIsBounded, Subordinate
  <2>4. /\ Subordinate(n)' => parent'[n] < n
        /\ chain'[n] = IF Subordinate(n)' THEN Append(chain'[parent'[n]], role'[n]) ELSE <<role'[n]>>
        /\ Len(chain'[n]) <= MaxDepth
    <3>1. p # 0 => chain'[p] = chain[p]
      BY <1>2, <2>1
    <3>2. QED
      BY <1>2, <2>1, <2>2, <3>1 DEF Subordinate
  <2>5. QED
    BY <2>1, <2>3, <2>4 DEF DepthIsBounded
<1>3. ASSUME NEW n \in RunIds, NEW r \in Roles, NEW e \in Estimates, DispatchPlanned(n, r, e)
      PROVE  DepthIsBounded'
  <2>1. StartsRun(n, r, e, 0, <<r>>)
    BY <1>3, Planned
  <2>2. Len(<<r>>) <= MaxDepth
    BY <1>0, OneHop
  <2>3. QED
    BY <1>2, <2>1, <2>2
<1>4. ASSUME NEW n \in RunIds, NEW p \in RunIds, NEW r \in Roles, NEW e \in Estimates,
             DispatchSubordinate(n, p, r, e)
      PROVE  DepthIsBounded'
  <2>1. /\ StartsRun(n, r, e, p, Append(chain[p], r))
        /\ p \in Started /\ p # 0 /\ chain[p] \in Seq(Roles)
    BY <1>4, Delegated
  <2>2. Len(Append(chain[p], r)) <= MaxDepth
    BY <1>0, <1>4, <2>1, ChainFacts DEF DispatchSubordinate, TooDeep
  <2>3. QED
    BY <1>2, <2>1, <2>2
<1>5. QED
  BY <1>1, <1>3, <1>4 DEF Next, Reorganise, End, runVars, vars

\* No run is deeper than max_dispatch_depth, counted along the real tree of runs.
THEOREM DepthAlwaysBounded == Spec => []DepthIsBounded
<1>1. Init => DepthIsBounded
  BY DEF Init, DepthIsBounded, Started
<1>2. QED
  BY <1>1, DepthNext, SubDispatchTypes, PTL DEF Spec

-------------------------------------------------------------------------------
LEMMA RolesNext == TypeOK /\ NoRoleBelowItself /\ [Next]_vars => NoRoleBelowItself'
<1> SUFFICES ASSUME TypeOK, NoRoleBelowItself, [Next]_vars PROVE NoRoleBelowItself'
  OBVIOUS
<1>1. CASE UNCHANGED <<runs, chain>>
  BY <1>1 DEF NoRoleBelowItself, Started
<1>2. ASSUME NEW n, NEW r, NEW e, NEW p, NEW hops,
             StartsRun(n, r, e, p, hops),
             \A i, j \in DOMAIN hops : i # j => hops[i] # hops[j]
      PROVE  NoRoleBelowItself'
  <2>1. /\ Started' = Started \cup {n} /\ chain'[n] = hops
        /\ \A m \in Started : chain'[m] = chain[m]
    BY <1>2, StartedNext
  <2>2. QED
    BY <1>2, <2>1 DEF NoRoleBelowItself
<1>3. ASSUME NEW n \in RunIds, NEW r \in Roles, NEW e \in Estimates, DispatchPlanned(n, r, e)
      PROVE  NoRoleBelowItself'
  <2>1. StartsRun(n, r, e, 0, <<r>>) /\ DOMAIN <<r>> = {1}
    BY <1>3, Planned, OneHop
  <2>2. QED
    BY <1>2, <2>1
<1>4. ASSUME NEW n \in RunIds, NEW p \in RunIds, NEW r \in Roles, NEW e \in Estimates,
             DispatchSubordinate(n, p, r, e)
      PROVE  NoRoleBelowItself'
  <2>1. /\ StartsRun(n, r, e, p, Append(chain[p], r))
        /\ p \in Started /\ chain[p] \in Seq(Roles)
    BY <1>4, Delegated
  <2>2. \A i \in DOMAIN chain[p] : chain[p][i] # r
    BY <1>4 DEF DispatchSubordinate, Repeats
  <2>3. \A i, j \in DOMAIN chain[p] : i # j => chain[p][i] # chain[p][j]
    BY <2>1 DEF NoRoleBelowItself
  <2>4. /\ DOMAIN chain[p] = 1 .. Len(chain[p]) /\ Len(chain[p]) \in Nat
        /\ DOMAIN Append(chain[p], r) = 1 .. Len(chain[p]) + 1
        /\ Append(chain[p], r)[Len(chain[p]) + 1] = r
        /\ \A i \in 1 .. Len(chain[p]) : Append(chain[p], r)[i] = chain[p][i]
    BY <2>1, ChainFacts
  <2>5. ASSUME NEW i \in DOMAIN Append(chain[p], r), NEW j \in DOMAIN Append(chain[p], r), i # j
        PROVE  Append(chain[p], r)[i] # Append(chain[p], r)[j]
    <3>1. \/ i \in 1 .. Len(chain[p]) /\ j \in 1 .. Len(chain[p])
          \/ i = Len(chain[p]) + 1 /\ j \in 1 .. Len(chain[p])
          \/ j = Len(chain[p]) + 1 /\ i \in 1 .. Len(chain[p])
      BY <2>4, <2>5
    <3>2. QED
      BY <2>2, <2>3, <2>4, <2>5, <3>1
  <2>6. QED
    BY <1>2, <2>1, <2>5
<1>5. QED
  BY <1>1, <1>3, <1>4 DEF Next, Reorganise, End, runVars, vars

\* No role ever works below itself, however the role tree is edited meanwhile.
THEOREM NoRoleEverBelowItself == Spec => []NoRoleBelowItself
<1>1. Init => NoRoleBelowItself
  BY DEF Init, NoRoleBelowItself, Started
<1>2. QED
  BY <1>1, RolesNext, SubDispatchTypes, PTL DEF Spec
-------------------------------------------------------------------------------
\* Every leader has been told what its own team comes to; one whose run has not
\* begun has been told nothing.
ToldTeam ==
  /\ \A n \in Started : parent[n] \in Started \cup {0}
  /\ \A p \in Started : told[p] = Estimated(Team(p))
  /\ \A p \in RunIds \ Started : told[p] = 0

\* The estimates of finitely many runs come to a number.
LEMMA EstimatedType ==
  ASSUME TypeOK, NEW S \in SUBSET Started
  PROVE  IsFiniteSet(S) /\ Estimated(S) \in Nat
<1> DEFINE f == [i \in S |-> est[i]]
<1>1. runs \in Nat /\ Started \subseteq RunIds
  BY SubDispatchAssumption DEF TypeOK, Started, RunIds
<1>2. IsFiniteSet(S)
  <2>1. IsFiniteSet(Started)
    BY <1>1, FS_Interval DEF Started
  <2>2. QED
    BY <2>1, FS_Subset
<1>3. f \in [S -> Nat] /\ \A i \in S : f[i] = est[i]
  BY <1>1 DEF TypeOK
<1> HIDE DEF f
<1>4. IsFiniteSet(UNION {{i} \X (1 .. f[i]) : i \in S})
  BY <1>2, <1>3, UnitsFinite
<1>5. {{i} \X (1 .. f[i]) : i \in S} = {{i} \X (1 .. est[i]) : i \in S}
  BY <1>3
<1>6. QED
  BY <1>2, <1>4, <1>5, FS_CardinalityType DEF Estimated, UnitsOf

\* The team of the leader that starts a run grows by it and by its estimate; every
\* other team, the empty one of the new run among them, stays as it is.
LEMMA TeamGrows ==
  ASSUME TypeOK, ToldTeam, NEW n, NEW r, NEW e, NEW p, NEW hops, StartsRun(n, r, e, p, hops)
  PROVE  /\ Estimated(Team(p))' = Estimated(Team(p)) + e
         /\ \A q \in Started \cup {0} : q # p => Estimated(Team(q))' = Estimated(Team(q))
         /\ Estimated(Team(n))' = 0
<1>1. /\ Started' = Started \cup {n} /\ n \notin Started /\ Started \subseteq RunIds
      /\ parent'[n] = p /\ est'[n] = e
      /\ \A m \in Started : parent'[m] = parent[m] /\ est'[m] = est[m]
  BY StartedNext
<1>2. n \in Nat \ {0} /\ p \in 0 .. runs /\ p # n /\ e \in Nat /\ n \in RunIds
  BY SubDispatchAssumption DEF StartsRun, RunIds, TypeOK
<1>3. Team(p)' = Team(p) \cup {n} /\ n \notin Team(p)
  BY <1>1 DEF Team
<1>4. \A q \in Started \cup {0} : q # p => Team(q)' = Team(q)
  BY <1>1 DEF Team
<1>5. Team(n)' = {}
  <2>1. \A m \in Started : parent[m] # n
    BY <1>1, <1>2 DEF ToldTeam
  <2>2. QED
    BY <1>1, <1>2, <2>1 DEF Team
<1>6. \A q : q \in Started \cup {0} => Team(q) \subseteq Started
  BY DEF Team
<1>7. \A S \in SUBSET Started : {{i} \X (1 .. est'[i]) : i \in S} = {{i} \X (1 .. est[i]) : i \in S}
  BY <1>1
<1>8. Estimated(Team(p))' = Estimated(Team(p)) + e
  <2> DEFINE S == Team(p)
             f == [i \in S \cup {n} |-> est'[i]]
  <2>1. S \subseteq Started /\ IsFiniteSet(S) /\ n \notin S
    BY <1>3, EstimatedType DEF Team
  <2>2. \A i \in S \cup {n} : est'[i] \in Nat
    BY <1>1, <1>2, <2>1 DEF TypeOK
  <2>3. f \in [S \cup {n} -> Nat] /\ f[n] = e /\ \A i \in S \cup {n} : f[i] = est'[i]
    BY <1>1, <2>2
  <2> HIDE DEF S, f
  <2>4. Cardinality(UNION {{i} \X (1 .. f[i]) : i \in S \cup {n}})
          = Cardinality(UNION {{i} \X (1 .. f[i]) : i \in S}) + f[n]
    BY <2>1, <2>3, UnitsAdd
  <2>5. {{i} \X (1 .. f[i]) : i \in S \cup {n}} = {{i} \X (1 .. est'[i]) : i \in S \cup {n}}
    BY <2>3
  <2>6. {{i} \X (1 .. f[i]) : i \in S} = {{i} \X (1 .. est[i]) : i \in S}
    <3>1. \A i \in S : f[i] = est[i]
      BY <1>1, <2>1, <2>3
    <3>2. QED
      BY <3>1
  <2>7. Cardinality(UNION {{i} \X (1 .. est'[i]) : i \in Team(p)'})
          = Cardinality(UNION {{i} \X (1 .. est[i]) : i \in Team(p)}) + e
    BY <1>3, <2>3, <2>4, <2>5, <2>6 DEF S
  <2>8. QED
    BY <2>7 DEF Estimated, UnitsOf
<1>9. ASSUME NEW q \in Started \cup {0}, q # p PROVE Estimated(Team(q))' = Estimated(Team(q))
  BY <1>4, <1>6, <1>7, <1>9 DEF Estimated, UnitsOf
<1>10. Estimated(Team(n))' = 0
  <2>1. {{i} \X (1 .. est'[i]) : i \in Team(n)'} = {}
    BY <1>5
  <2>2. UNION {{i} \X (1 .. est'[i]) : i \in Team(n)'} = {}
    BY <2>1
  <2>3. QED
    BY <2>2, FS_EmptySet DEF Estimated, UnitsOf
<1>11. QED
  BY <1>8, <1>9, <1>10

LEMMA TeamsInit == Init => ToldTeam /\ TeamWithinCap
<1> SUFFICES ASSUME Init PROVE ToldTeam /\ TeamWithinCap
  OBVIOUS
<1>1. Started = {}
  BY DEF Init, Started
<1>2. Estimated(Team(0)) = 0
  <2>1. {{i} \X (1 .. est[i]) : i \in Team(0)} = {}
    BY <1>1 DEF Team
  <2>2. UNION {{i} \X (1 .. est[i]) : i \in Team(0)} = {}
    BY <2>1
  <2>3. QED
    BY <2>2, FS_EmptySet DEF Estimated, UnitsOf
<1>3. ~Exceeds(0, SessionCap)
  BY SubDispatchAssumption DEF Exceeds, IsCap
<1>4. QED
  BY <1>1, <1>2, <1>3 DEF Init, ToldTeam, TeamWithinCap

LEMMA TeamsNext == TypeOK /\ ToldTeam /\ TeamWithinCap /\ [Next]_vars => ToldTeam' /\ TeamWithinCap'
<1> SUFFICES ASSUME TypeOK, ToldTeam, TeamWithinCap, [Next]_vars PROVE ToldTeam' /\ TeamWithinCap'
  OBVIOUS
<1>1. CASE UNCHANGED <<runs, parent, est, told>>
  <2>1. Started' = Started /\ \A p : Team(p)' = Team(p)
    BY <1>1 DEF Started, Team
  <2>2. \A p : Estimated(Team(p))' = Estimated(Team(p))
    BY <1>1, <2>1 DEF Estimated, UnitsOf
  <2>3. QED
    BY <1>1, <2>1, <2>2 DEF ToldTeam, TeamWithinCap, Exceeds
<1>2. ASSUME NEW n, NEW r, NEW e, NEW p, NEW hops, StartsRun(n, r, e, p, hops),
             p \in Started \cup {0},
             ~Exceeds(Estimated(Team(p)) + e, SessionCap),
             p # 0 => told'[p] = told[p] + e,
             \A m \in RunIds : m # p => told'[m] = told[m]
      PROVE  ToldTeam' /\ TeamWithinCap'
  <2>1. /\ Started' = Started \cup {n} /\ n \notin Started /\ Started \subseteq RunIds
        /\ parent'[n] = p /\ \A m \in Started : parent'[m] = parent[m]
    BY <1>2, StartedNext
  <2>2. n \in RunIds /\ n # 0 /\ p # n /\ 0 \notin Started /\ 0 \notin RunIds
    BY <1>2, <2>1, SubDispatchAssumption DEF StartsRun, Started, RunIds
  <2>3. /\ Estimated(Team(p))' = Estimated(Team(p)) + e
        /\ \A q \in Started \cup {0} : q # p => Estimated(Team(q))' = Estimated(Team(q))
        /\ Estimated(Team(n))' = 0
    BY <1>2, TeamGrows
  <2>4. ToldTeam'
    <3>1. \A m \in Started' : parent'[m] \in Started' \cup {0}
      BY <1>2, <2>1 DEF ToldTeam
    <3>2. ASSUME NEW q \in Started' PROVE told'[q] = Estimated(Team(q))'
      <4>1. CASE q = n
        BY <1>2, <2>1, <2>2, <2>3, <4>1 DEF ToldTeam
      <4>2. CASE q = p
        BY <1>2, <2>1, <2>2, <2>3, <3>2, <4>2 DEF ToldTeam
      <4>3. CASE q # n /\ q # p
        BY <1>2, <2>1, <2>3, <3>2, <4>3 DEF ToldTeam
      <4>4. QED
        BY <4>1, <4>2, <4>3
    <3>3. ASSUME NEW q \in RunIds \ Started' PROVE told'[q] = 0
      BY <1>2, <2>1, <2>2, <3>3 DEF ToldTeam
    <3>4. QED
      <4>1. (\A q \in Started' : told'[q] = Estimated(Team(q))')
            /\ (\A q \in RunIds \ Started' : told'[q] = 0)
        BY <3>2, <3>3
      <4>2. QED
        BY <3>1, <4>1 DEF ToldTeam
  <2>5. TeamWithinCap'
    <3>1. ASSUME NEW q \in Started' \cup {0} PROVE ~Exceeds(Estimated(Team(q))', SessionCap)
      <4>1. CASE q = n
        BY <2>3, <4>1, SubDispatchAssumption DEF Exceeds, IsCap
      <4>2. CASE q = p
        BY <1>2, <2>3, <4>2
      <4>3. CASE q # n /\ q # p
        BY <2>1, <2>3, <3>1, <4>3 DEF TeamWithinCap
      <4>4. QED
        BY <4>1, <4>2, <4>3
    <3>2. QED
      BY <3>1 DEF TeamWithinCap, Exceeds
  <2>6. QED
    BY <2>4, <2>5
<1>3. ASSUME NEW n \in RunIds, NEW r \in Roles, NEW e \in Estimates, DispatchPlanned(n, r, e)
      PROVE  ToldTeam' /\ TeamWithinCap'
  <2>1. StartsRun(n, r, e, 0, <<r>>) /\ told' = told
    BY <1>3, Planned
  <2>2. ~Exceeds(Estimated(Team(0)) + e, SessionCap)
    BY <1>3 DEF DispatchPlanned
  <2>3. QED
    BY <1>2, <2>1, <2>2
<1>4. ASSUME NEW n \in RunIds, NEW p \in RunIds, NEW r \in Roles, NEW e \in Estimates,
             DispatchSubordinate(n, p, r, e)
      PROVE  ToldTeam' /\ TeamWithinCap'
  <2>1. /\ StartsRun(n, r, e, p, Append(chain[p], r))
        /\ p \in Started /\ told[p] \in Nat /\ e \in Nat
        /\ told' = [told EXCEPT ![p] = told[p] + e]
    BY <1>4, Delegated
  <2>2. told[p] = Estimated(Team(p)) /\ ~Exceeds(told[p] + e, SessionCap)
    BY <1>4, <2>1 DEF ToldTeam, DispatchSubordinate
  <2>3. told \in [RunIds -> Nat]
    BY DEF TypeOK
  <2>4. told'[p] = told[p] + e /\ \A m \in RunIds : m # p => told'[m] = told[m]
    BY <2>1, <2>3
  <2>5. QED
    BY <1>2, <2>1, <2>2, <2>4
<1>5. QED
  BY <1>1, <1>3, <1>4 DEF Next, Reorganise, End, runVars, vars

\* What one caller starts, the plan or a leader, is within the session cap, however
\* many calls it makes and whatever runs and edits come in between.
THEOREM TeamsStayWithinCap == Spec => []TeamWithinCap
BY TeamsInit, TeamsNext, SubDispatchTypes, PTL DEF Spec
===============================================================================

--------------------------- MODULE ContractProofs ---------------------------
(***************************************************************************)
(* Proofs about Contract, for any contracts, e-mails, requests, workers,   *)
(* calendar and bounds: while no charge is rolled back and no two actors   *)
(* cross, a month is charged once and a contract is started once, paid;    *)
(* and whatever fails or crosses, no month is forgotten.                   *)
(***************************************************************************)
EXTENDS Contract, FiniteSetTheorems, WellFoundedInduction, TLAPS

-----------------------------------------------------------------------------
(* The calendar: every day of the model is in one month, and months follow *)
(* one another.                                                            *)

Days == FirstDay[1]..LastDay

\* There are as many months after the last day as the next payment may look ahead.
LEMMA CalendarType ==
    /\ Cardinality(Months) \in Nat /\ Cardinality(Months) > 3
    /\ Months = 1..Cardinality(Months)
    /\ \A m \in Months : FirstDay[m] \in Nat
    /\ \A m \in Months : m + 1 \in Months => FirstDay[m] < FirstDay[m + 1]
    /\ LastDay \in Nat /\ LastDay < FirstDay[Cardinality(Months) - 2]
    /\ FirstDay[1] \in Days /\ Days \subseteq Nat /\ Starts \subseteq Days
<1>1. Cardinality(Months) \in Nat
  BY ContractAssumption, FS_CardinalityType
<1>2. 1 \in Months
  BY <1>1, ContractAssumption
<1>3. FirstDay[1] \in Nat
  BY <1>2, ContractAssumption
<1> QED
  BY <1>1, <1>3, ContractAssumption DEF Days

LEMMA LeastExists ==
    ASSUME NEW S \in SUBSET Nat, S # {}
    PROVE  \E n \in S : \A m \in S : n <= m
<1>1. PICK n \in S : \A m \in S : ~(<<m, n>> \in OpToRel(<, Nat))
  BY NatLessThanWellFounded, WFMin
<1>2. ASSUME NEW m \in S PROVE n <= m
  <2>1. m \in Nat /\ n \in Nat
    OBVIOUS
  <2>2. ~(m < n)
    BY <1>1, <2>1 DEF OpToRel
  <2> QED
    BY <2>1, <2>2
<1> QED
  BY <1>2

LEMMA CalendarGrows ==
    ASSUME NEW i \in Months, NEW j \in Months, i < j
    PROVE  FirstDay[i] < FirstDay[j]
<1> DEFINE Bad == {n \in Nat : n \in Months /\ i < n /\ ~(FirstDay[i] < FirstDay[n])}
<1> SUFFICES ASSUME j \in Bad PROVE FALSE
  BY CalendarType
<1>1. PICK n \in Bad : \A m \in Bad : n <= m
  <2>1. Bad \in SUBSET Nat /\ Bad # {}
    OBVIOUS
  <2> HIDE DEF Bad
  <2> QED
    BY <2>1, LeastExists
<1>2. n \in Nat /\ i \in Nat /\ n - 1 \in Nat /\ n - 1 \in Months /\ n - 1 \notin Bad
  BY <1>1, CalendarType
<1>3. i = n - 1 \/ FirstDay[i] < FirstDay[n - 1]
  BY <1>1, <1>2
<1>4. FirstDay[n - 1] < FirstDay[n]
  <2>1. (n - 1) + 1 = n
    BY <1>2
  <2> QED
    BY <1>1, <1>2, <2>1, CalendarType
<1>5. FirstDay[i] \in Nat /\ FirstDay[n - 1] \in Nat /\ FirstDay[n] \in Nat
  BY <1>1, <1>2, CalendarType
<1> QED
  BY <1>1, <1>3, <1>4, <1>5

\* The months whose first day has come, and those after them.
LEMMA MonthsAround ==
    ASSUME NEW m \in Months, NEW n \in Months, NEW day \in Nat,
           FirstDay[m] <= day, day < FirstDay[n]
    PROVE  m < n
<1>1. m \in Nat /\ n \in Nat /\ FirstDay[m] \in Nat /\ FirstDay[n] \in Nat
  BY CalendarType
<1>2. CASE n < m
  BY <1>1, <1>2, CalendarGrows
<1> QED
  BY <1>1, <1>2

LEMMA MonthExists ==
    ASSUME NEW day \in Days
    PROVE  \E m \in Months : /\ m + 1 \in Months
                             /\ FirstDay[m] <= day /\ day < FirstDay[m + 1]
<1> DEFINE After == {m \in Nat : m \in Months /\ day < FirstDay[m]}
           C == Cardinality(Months)
<1>1. C \in Nat /\ C > 3 /\ C - 2 \in Months /\ 1 \in Months
  BY CalendarType
<1>2. /\ day \in Nat /\ FirstDay[1] \in Nat /\ FirstDay[1] <= day
      /\ day <= LastDay /\ LastDay \in Nat /\ LastDay < FirstDay[C - 2] /\ FirstDay[C - 2] \in Nat
  BY <1>1, CalendarType DEF Days
<1>3. C - 2 \in After
  BY <1>1, <1>2
<1>4. PICK n \in After : \A m \in After : n <= m
  <2>1. After \in SUBSET Nat /\ After # {}
    BY <1>3
  <2> HIDE DEF After
  <2> QED
    BY <2>1, LeastExists
<1>5. n # 1 /\ n \in Nat /\ n \in Months /\ day < FirstDay[n]
  BY <1>2, <1>4
<1>6. n - 1 \in Nat /\ n - 1 \in Months /\ (n - 1) + 1 = n /\ n - 1 \notin After
  BY <1>1, <1>4, <1>5, CalendarType
<1>7. FirstDay[n - 1] <= day
  BY <1>2, <1>6, CalendarType
<1> QED
  BY <1>5, <1>6, <1>7

\* The month of a day, after which there are three more.
LEMMA MonthIs ==
    ASSUME NEW day \in Days
    PROVE  /\ MonthOf(day) \in Months /\ MonthOf(day) \in Nat /\ MonthOf(day) >= 1
           /\ MonthOf(day) + 1 \in Months /\ MonthOf(day) + 2 \in Months
           /\ MonthOf(day) + 3 \in Months
           /\ FirstDay[MonthOf(day)] <= day /\ day < FirstDay[MonthOf(day) + 1]
<1> DEFINE In(m) == FirstDay[m] <= day /\ (m + 1 \in Months => day < FirstDay[m + 1])
           C == Cardinality(Months)
<1>1. \E m \in Months : In(m)
  BY MonthExists
<1>2. PICK m \in Months : m = MonthOf(day) /\ In(m)
  BY <1>1 DEF MonthOf
<1>3. /\ C \in Nat /\ C > 3 /\ C - 2 \in Months /\ m \in Nat /\ m >= 1
      /\ day \in Nat /\ day <= LastDay /\ LastDay \in Nat
      /\ LastDay < FirstDay[C - 2] /\ FirstDay[C - 2] \in Nat
  BY CalendarType DEF Days
<1>4. day < FirstDay[C - 2]
  BY <1>3
<1>5. m < C - 2
  BY <1>2, <1>3, <1>4, MonthsAround
<1>6. m + 1 \in Months /\ m + 2 \in Months /\ m + 3 \in Months
  BY <1>3, <1>5, CalendarType
<1> QED
  BY <1>2, <1>3, <1>6

LEMMA MonthUnique ==
    ASSUME NEW day \in Days, NEW m \in Months, m + 1 \in Months,
           FirstDay[m] <= day, day < FirstDay[m + 1]
    PROVE  MonthOf(day) = m
<1> DEFINE n == MonthOf(day)
<1>1. n \in Months /\ n + 1 \in Months /\ FirstDay[n] <= day /\ day < FirstDay[n + 1]
  BY MonthIs
<1>2. day \in Nat /\ n \in Nat /\ m \in Nat
  BY <1>1, CalendarType
<1> HIDE DEF n
<1>3. n < m + 1 /\ m < n + 1
  BY <1>1, <1>2, MonthsAround
<1>4. n = m
  BY <1>2, <1>3
<1> QED
  BY <1>4 DEF n

LEMMA MonthsInOrder ==
    ASSUME NEW d \in Days, NEW e \in Days, d <= e
    PROVE  MonthOf(d) <= MonthOf(e)
<1> DEFINE m == MonthOf(d)
           n == MonthOf(e)
<1>1. m \in Months /\ n + 1 \in Months /\ FirstDay[m] <= d /\ e < FirstDay[n + 1]
  BY MonthIs
<1>2. d \in Nat /\ e \in Nat /\ n \in Nat /\ m \in Nat /\ FirstDay[m] \in Nat /\ FirstDay[n + 1] \in Nat
  BY <1>1, MonthIs, CalendarType
<1> HIDE DEF m, n
<1>3. d < FirstDay[n + 1]
  BY <1>1, <1>2
<1>4. m < n + 1
  BY <1>1, <1>2, <1>3, MonthsAround
<1>5. m <= n
  BY <1>2, <1>4
<1> QED
  BY <1>5 DEF m, n

\* The next day is in the same month, or the first of the month after it.
LEMMA NextDay ==
    ASSUME NEW d \in Days, d + 1 \in Days
    PROVE  \/ MonthOf(d + 1) = MonthOf(d)
           \/ MonthOf(d + 1) = MonthOf(d) + 1 /\ FirstDay[MonthOf(d) + 1] = d + 1
<1> DEFINE m == MonthOf(d)
<1>1. /\ m \in Months /\ m + 1 \in Months /\ m + 2 \in Months /\ m \in Nat
      /\ FirstDay[m] <= d /\ d < FirstDay[m + 1]
  BY MonthIs
<1>2. d \in Nat /\ FirstDay[m] \in Nat /\ FirstDay[m + 1] \in Nat /\ FirstDay[m + 2] \in Nat
  BY <1>1, CalendarType
<1>3. (m + 1) + 1 = m + 2 /\ FirstDay[m + 1] < FirstDay[m + 2]
  <2>1. (m + 1) + 1 = m + 2
    BY <1>1
  <2> QED
    BY <1>1, <2>1, CalendarType
<1> HIDE DEF m
<1>4. CASE d + 1 < FirstDay[m + 1]
  <2>1. FirstDay[m] <= d + 1
    BY <1>1, <1>2
  <2>2. MonthOf(d + 1) = m
    BY <1>1, <1>4, <2>1, MonthUnique
  <2> QED
    BY <2>2 DEF m
<1>5. CASE ~(d + 1 < FirstDay[m + 1])
  <2>1. FirstDay[m + 1] = d + 1
    BY <1>1, <1>2, <1>5
  <2>2. FirstDay[m + 1] <= d + 1 /\ d + 1 < FirstDay[(m + 1) + 1]
    BY <1>2, <1>3, <2>1
  <2>3. MonthOf(d + 1) = m + 1
    <3>1. (m + 1) + 1 \in Months
      BY <1>1, <1>3
    <3> QED
      BY <1>1, <2>2, <3>1, MonthUnique
  <2> QED
    BY <2>1, <2>3 DEF m
<1> QED
  BY <1>4, <1>5

LEMMA TodayInit == Init => today \in Days
BY CalendarType DEF Init

LEMMA TodayStep == today \in Days /\ [Next]_vars => (today \in Days)'
<1> SUFFICES ASSUME today \in Days, [Next]_vars PROVE today' \in Days
  OBVIOUS
<1>1. CASE Tick
  BY <1>1, CalendarType DEF Tick, Days
<1>2. ASSUME NEW r \in Runs, Working(r) PROVE UNCHANGED today
  BY <1>2 DEF Working, Start, CheckNext, SetNext, Done, RunFails, Take, FeeCaptured, FeePending,
              FeeLost
<1>3. ASSUME NEW q \in Requests, Requested(q) PROVE UNCHANGED today
  BY <1>3 DEF Requested, PayRead, CallbackRead, PayCaptured, PayRedirected, PayLost, CallbackWrite,
              Activate, RequestFails
<1> QED
  BY <1>1, <1>2, <1>3 DEF Next, Create, CustomerFinishes, vars

-----------------------------------------------------------------------------
(* The fees of the months.                                                 *)

RunStates ==
    {Idle} \cup [pc : {"next"}, todo : SUBSET Contracts]
           \cup [pc : {"pay"}, todo : SUBSET Contracts,
                 contract : Contracts, months : SUBSET Months]
           \cup [pc : {"set"}, todo : SUBSET Contracts, contract : Contracts, now : Months]

FeesAgree ==
    \A k \in Contracts, m \in Months : charged[k][m] = IF m \in paid[k] THEN 1 ELSE 0

\* One worker is at the job, and the months it is about to charge are not paid.
RunsAgree ==
    \A r \in Runs :
        /\ \A s \in Runs : run[r] # Idle /\ run[s] # Idle => r = s
        /\ run[r].pc = "pay" => run[r].months \cap paid[run[r].contract] = {}

FeeInv ==
    /\ slips \in Nat
    /\ paid \in [Contracts -> SUBSET Months]
    /\ charged \in [Contracts -> [Months -> Nat]]
    /\ run \in [Runs -> RunStates]
    /\ slips = 0 => FeesAgree /\ RunsAgree

-----------------------------------------------------------------------------
(* The start of a contract.                                                *)

RequestStates ==
    {Idle} \cup [pc : {"pay"}, contract : Contracts, email : Emails]
           \cup [pc : {"write"}, contract : Contracts, try : Tries]
           \cup [pc : {"activate"}, contract : Contracts]

Row == [of : Contracts \cup {Nobody}, row : {"none", "PENDING", "PAID"},
        gmo : {"none", "redirected", "captured"}]

PaidFor(k) == \E t \in Tries : initial[t] = [of |-> k, row |-> "PAID", gmo |-> "captured"]

\* What is known of a contract's row, whose days do not matter here.
ContractsOK ==
    /\ contract = [k \in Contracts |-> contract[k]]
    /\ \A k \in Contracts :
        /\ contract[k] = [status |-> contract[k].status, start |-> contract[k].start,
                          next |-> contract[k].next, email |-> contract[k].email]
        /\ contract[k].status \in {"none", "NOT_STARTED", "STARTED"}

\* Who has a payment has given an e-mail.
PaymentsOK ==
    /\ initial \in [Tries -> Row]
    /\ \A t \in Tries : initial[t].row # "none" =>
          initial[t].of \in Contracts /\ contract[initial[t].of].email \in Emails

\* A callback that is under way is of a payment that GMO has collected.
CallbackOK(q) ==
    /\ At(q, "write") =>
          /\ initial[request[q].try].of = request[q].contract
          /\ initial[request[q].try].row # "none"
          /\ initial[request[q].try].gmo = "captured"
    /\ At(q, "activate") => PaidFor(request[q].contract)

RequestsOK ==
    /\ request \in [Requests -> RequestStates]
    /\ \A q \in Requests : CallbackOK(q)

\* A started contract has the account of its e-mail and no other.
AccountsAgree ==
    \A k \in Contracts :
        IF contract[k].status = "STARTED"
        THEN /\ contract[k].email \in Emails
             /\ account[contract[k].email] = k
             /\ \A e \in Emails : account[e] = k => e = contract[k].email
             /\ PaidFor(k)
        ELSE \A e \in Emails : account[e] # k

StartInv ==
    /\ slips \in Nat
    /\ ContractsOK
    /\ account \in [Emails -> Contracts \cup {Nobody}]
    /\ PaymentsOK
    /\ RequestsOK
    /\ slips = 0 => AccountsAgree

-----------------------------------------------------------------------------
(* Slips only grow.                                                        *)

LEMMA SlipsGrow ==
    ASSUME slips \in Nat, NEW crossed \in BOOLEAN, CountsIf(crossed)
    PROVE  slips' \in Nat /\ (slips' = 0 => slips = 0 /\ ~crossed)
<1>1. CASE crossed
  BY <1>1 DEF CountsIf
<1>2. CASE ~crossed
  BY <1>2 DEF CountsIf
<1> QED
  BY <1>1, <1>2

-----------------------------------------------------------------------------
(* The fees: one lemma per step of the job, and one for all else.          *)

LEMMA FeeInit == Init => FeeInv
BY DEF Init, FeeInv, FeesAgree, RunsAgree, RunStates, Idle

LEMMA FeeFrame ==
    ASSUME FeeInv, UNCHANGED <<paid, charged, run>>, slips' \in Nat, slips' = 0 => slips = 0
    PROVE  FeeInv'
BY DEF FeeInv, FeesAgree, RunsAgree

LEMMA StartKeepsFees ==
    ASSUME FeeInv, NEW r \in Runs, Start(r)
    PROVE  FeeInv'
<1>1. slips' \in Nat /\ (slips' = 0 => slips = 0 /\ Active = {})
  BY SlipsGrow DEF FeeInv, Start
<1>2. run' \in [Runs -> RunStates]
  BY DEF FeeInv, Start, RunStates, Targets
<1>3. ASSUME slips' = 0 PROVE FeesAgree' /\ RunsAgree'
  <2>1. \A s \in Runs : run[s] = Idle
    BY <1>1, <1>3 DEF Active
  <2>2. \A s \in Runs : run'[s] # Idle => s = r
    BY <2>1 DEF Start, FeeInv
  <2>3. \A s \in Runs : run'[s].pc # "pay"
    BY <2>1 DEF Start, FeeInv, Idle
  <2> QED
    BY <1>1, <1>3, <2>2, <2>3 DEF FeeInv, FeesAgree, RunsAgree, Start, fees
<1> QED
  BY <1>1, <1>2, <1>3 DEF FeeInv, Start, fees

\* A worker that is at the job goes on with less or with what is unpaid, or stops.
LEMMA GoesOn ==
    ASSUME FeeInv, NEW r \in Runs, NEW state \in RunStates,
           run[r] # Idle,
           run' = [run EXCEPT ![r] = state],
           state.pc = "pay" => state.months \cap paid[state.contract] = {} \/ slips # 0,
           UNCHANGED <<paid, charged, slips>>
    PROVE  FeeInv'
<1>1. run' \in [Runs -> RunStates]
  BY DEF FeeInv
<1>2. ASSUME slips = 0 PROVE RunsAgree'
  <2>1. \A s \in Runs : s # r => run'[s] = run[s] /\ run[s] = Idle
    BY <1>2 DEF FeeInv, RunsAgree
  <2>2. run'[r] = state
    BY DEF FeeInv
  <2>3. \A s \in Runs : s # r => run'[s].pc # "pay"
    BY <2>1 DEF Idle
  <2> QED
    BY <1>2, <2>1, <2>2, <2>3 DEF RunsAgree
<1> QED
  BY <1>1, <1>2 DEF FeeInv, FeesAgree

LEMMA TakeKeepsFees ==
    ASSUME FeeInv, NEW r \in Runs, NEW k \in Contracts, Take(r, k)
    PROVE  FeeInv'
<1> DEFINE state == [pc |-> "pay", todo |-> run[r].todo \ {k},
                     contract |-> k, months |-> UnpaidMonths(k, MonthOf(today))]
<1>1. run[r] \in RunStates /\ run[r].pc = "next" /\ run[r] # Idle
  BY DEF Take, FeeInv, Idle
<1>2. run[r].todo \in SUBSET Contracts
  BY <1>1 DEF RunStates, Idle
<1>3. /\ UnpaidMonths(k, MonthOf(today)) \in SUBSET Months
      /\ UnpaidMonths(k, MonthOf(today)) \cap paid[k] = {}
  BY DEF UnpaidMonths
<1>4. state \in RunStates
  BY <1>2, <1>3 DEF RunStates
<1>5. run' = [run EXCEPT ![r] = state] /\ UNCHANGED <<paid, charged, slips>>
  BY DEF Take, fees
<1>6. state.months \cap paid[state.contract] = {}
  BY <1>3
<1> HIDE DEF state
<1> QED
  BY <1>1, <1>4, <1>5, <1>6, GoesOn

\* What is known of a worker that is about to charge a month.
LEMMA Charging ==
    ASSUME FeeInv, NEW r \in Runs, NEW k \in Contracts, NEW m \in Months, Charges(r, k, m)
    PROVE  /\ run[r] \in [pc : {"pay"}, todo : SUBSET Contracts,
                          contract : Contracts, months : SUBSET Months]
           /\ run[r] # Idle /\ run[r].contract = k
           /\ slips = 0 => m \notin paid[k] /\ run[r].months \cap paid[k] = {}
<1>1. run[r] \in RunStates /\ run[r].pc = "pay"
  BY DEF Charges, FeeInv
<1> QED
  BY <1>1 DEF Charges, FeeInv, RunsAgree, RunStates, Idle

LEMMA PendingKeepsFees ==
    ASSUME FeeInv, NEW r \in Runs, NEW k \in Contracts, NEW m \in Months, FeePending(r, k, m)
    PROVE  FeeInv'
<1> DEFINE state == [run[r] EXCEPT !.months = @ \ {m}]
<1>1. Charges(r, k, m)
  BY DEF FeePending
<1>2. /\ run[r] \in [pc : {"pay"}, todo : SUBSET Contracts,
                     contract : Contracts, months : SUBSET Months]
      /\ run[r] # Idle /\ run[r].contract = k
      /\ slips = 0 => run[r].months \cap paid[k] = {}
  BY <1>1, Charging
<1>3. /\ state \in [pc : {"pay"}, todo : SUBSET Contracts,
                    contract : Contracts, months : SUBSET Months]
      /\ state.contract = k /\ state.months = run[r].months \ {m}
  BY <1>2
<1>4. state \in RunStates /\ (state.months \cap paid[state.contract] = {} \/ slips # 0)
  BY <1>2, <1>3 DEF RunStates
<1>5. run' = [run EXCEPT ![r] = state] /\ UNCHANGED <<paid, charged, slips>>
  BY DEF FeePending, fees
<1> HIDE DEF state
<1> QED
  BY <1>2, <1>4, <1>5, GoesOn

LEMMA CapturedKeepsFees ==
    ASSUME FeeInv, NEW r \in Runs, NEW k \in Contracts, NEW m \in Months, FeeCaptured(r, k, m)
    PROVE  FeeInv'
<1>1. Charges(r, k, m)
  BY DEF FeeCaptured
<1>2. /\ run[r] \in [pc : {"pay"}, todo : SUBSET Contracts,
                     contract : Contracts, months : SUBSET Months]
      /\ run[r] # Idle /\ run[r].contract = k
      /\ slips = 0 => m \notin paid[k] /\ run[r].months \cap paid[k] = {}
  BY <1>1, Charging
<1>3. /\ run'[r] \in [pc : {"pay"}, todo : SUBSET Contracts,
                      contract : Contracts, months : SUBSET Months]
      /\ run'[r].contract = k /\ run'[r].months = run[r].months \ {m}
      /\ run' = [run EXCEPT ![r] = run'[r]]
  BY <1>2 DEF FeeCaptured, FeeInv
<1>4. run' \in [Runs -> RunStates]
  BY <1>3 DEF FeeInv, RunStates
<1>5. /\ paid' = [paid EXCEPT ![k] = @ \cup {m}]
      /\ charged' = [charged EXCEPT ![k] = [charged[k] EXCEPT ![m] = @ + 1]]
      /\ UNCHANGED slips
  BY DEF FeeCaptured
<1>6. paid' \in [Contracts -> SUBSET Months] /\ charged' \in [Contracts -> [Months -> Nat]]
  BY <1>5 DEF FeeInv
<1>7. ASSUME slips = 0 PROVE FeesAgree'
  <2> SUFFICES ASSUME NEW l \in Contracts, NEW n \in Months
               PROVE  charged'[l][n] = IF n \in paid'[l] THEN 1 ELSE 0
    BY DEF FeesAgree
  <2>1. charged[l][n] = IF n \in paid[l] THEN 1 ELSE 0
    BY <1>7 DEF FeeInv, FeesAgree
  <2>2. CASE l = k /\ n = m
    <3>1. charged'[k][m] = charged[k][m] + 1 /\ m \in paid'[k]
      BY <1>5 DEF FeeInv
    <3> QED
      BY <1>2, <1>7, <2>1, <2>2, <3>1
  <2>3. CASE ~(l = k /\ n = m)
    BY <1>5, <2>1, <2>3 DEF FeeInv
  <2> QED
    BY <2>2, <2>3
<1>8. ASSUME slips = 0 PROVE RunsAgree'
  <2>1. \A s \in Runs : s # r => run'[s] = Idle
    BY <1>2, <1>3, <1>8 DEF FeeInv, RunsAgree
  <2>2. run'[r].months \cap paid'[k] = {}
    BY <1>2, <1>3, <1>5, <1>8 DEF FeeInv
  <2> QED
    BY <1>3, <2>1, <2>2 DEF RunsAgree, Idle
<1> QED
  BY <1>4, <1>5, <1>6, <1>7, <1>8 DEF FeeInv

LEMMA LostKeepsFees ==
    ASSUME FeeInv, NEW r \in Runs, NEW k \in Contracts, NEW m \in Months, FeeLost(r, k, m)
    PROVE  FeeInv'
<1>1. slips' \in Nat /\ slips' # 0
  BY SlipsGrow DEF FeeInv, FeeLost
<1>2. charged' \in [Contracts -> [Months -> Nat]]
  <2>1. charged' = [charged EXCEPT ![k] = [charged[k] EXCEPT ![m] = @ + 1]]
    BY DEF FeeLost
  <2> QED
    BY <2>1 DEF FeeInv
<1>3. run' \in [Runs -> RunStates] /\ UNCHANGED paid
  BY DEF FeeLost, FeeInv, RunStates
<1> QED
  BY <1>1, <1>2, <1>3 DEF FeeInv

LEMMA EndsKeepFees ==
    ASSUME FeeInv, today \in Days, NEW r \in Runs,
           CheckNext(r) \/ SetNext(r) \/ Done(r) \/ RunFails(r)
    PROVE  FeeInv'
<1>0. CASE CheckNext(r)
  <2> DEFINE state == [pc |-> "set", todo |-> run[r].todo,
                       contract |-> run[r].contract, now |-> MonthOf(today)]
  <2>1. run[r] \in RunStates /\ run[r].pc = "pay" /\ run[r] # Idle
    BY <1>0 DEF CheckNext, FeeInv, Idle
  <2>2. state \in RunStates /\ state.pc # "pay"
    BY <2>1, MonthIs DEF RunStates, Idle
  <2>3. run' = [run EXCEPT ![r] = state] /\ UNCHANGED <<paid, charged, slips>>
    BY <1>0 DEF CheckNext, fees
  <2> HIDE DEF state
  <2> QED
    BY <2>1, <2>2, <2>3, GoesOn
<1>1. CASE SetNext(r)
  <2> DEFINE state == [pc |-> "next", todo |-> run[r].todo]
  <2>1. run[r] \in RunStates /\ run[r].pc = "set" /\ run[r] # Idle
    BY <1>1 DEF SetNext, FeeInv, Idle
  <2>2. state \in RunStates /\ state.pc # "pay"
    BY <2>1 DEF RunStates, Idle
  <2>3. run' = [run EXCEPT ![r] = state] /\ UNCHANGED <<paid, charged, slips>>
    BY <1>1 DEF SetNext, fees
  <2> HIDE DEF state
  <2> QED
    BY <2>1, <2>2, <2>3, GoesOn
<1>2. CASE Done(r) \/ RunFails(r)
  <2>1. run[r] # Idle /\ run' = [run EXCEPT ![r] = Idle] /\ UNCHANGED <<paid, charged, slips>>
    BY <1>2 DEF Done, RunFails, fees, Idle
  <2>2. Idle \in RunStates /\ Idle.pc # "pay"
    BY DEF RunStates, Idle
  <2> QED
    BY <2>1, <2>2, GoesOn
<1> QED
  BY <1>0, <1>1, <1>2

LEMMA RestKeepsFees ==
    ASSUME FeeInv,
           \/ Tick
           \/ \E k \in Contracts : Create(k)
           \/ \E t \in Tries : CustomerFinishes(t)
           \/ \E q \in Requests : Requested(q)
           \/ UNCHANGED vars
    PROVE  FeeInv'
<1>1. CASE UNCHANGED slips /\ UNCHANGED <<paid, charged, run>>
  BY <1>1, FeeFrame DEF FeeInv
<1>2. ASSUME NEW q \in Requests, PayCaptured(q) \/ PayRedirected(q) \/ PayLost(q)
      PROVE  FeeInv'
  <2>1. slips' \in Nat /\ (slips' = 0 => slips = 0)
    BY <1>2, SlipsGrow DEF FeeInv, PayCaptured, PayRedirected, PayLost
  <2>2. UNCHANGED <<paid, charged, run>>
    BY <1>2 DEF PayCaptured, PayRedirected, PayLost, fees, jobs
  <2> QED
    BY <2>1, <2>2, FeeFrame
<1> QED
  BY <1>1, <1>2
     DEF Tick, Create, CustomerFinishes, Requested, PayRead, CallbackRead, CallbackWrite,
         Activate, RequestFails, vars, fees, jobs

LEMMA FeeStep == today \in Days /\ FeeInv /\ [Next]_vars => FeeInv'
<1> SUFFICES ASSUME today \in Days, FeeInv, [Next]_vars PROVE FeeInv'
  OBVIOUS
<1>1. ASSUME NEW r \in Runs, Working(r) PROVE FeeInv'
  BY <1>1, StartKeepsFees, TakeKeepsFees, PendingKeepsFees, CapturedKeepsFees, LostKeepsFees,
     EndsKeepFees DEF Working
<1> QED
  BY <1>1, RestKeepsFees DEF Next

\* Until a charge is rolled back or two deliveries overlap, the card is charged once for
\* each month, and exactly for the months on record, however often the job is run again.
THEOREM MonthsAreChargedOnce == Spec => []FeeOncePerMonth
<1>1. FeeInv => FeeOncePerMonth
  BY DEF FeeInv, FeesAgree, FeeOncePerMonth
<1> QED
  BY <1>1, TodayInit, TodayStep, FeeInit, FeeStep, PTL DEF Spec

-----------------------------------------------------------------------------
(* The start of a contract.                                                *)

LEMMA StartInit == Init => StartInv
BY ContractAssumption
   DEF Init, StartInv, ContractsOK, PaymentsOK, RequestsOK, CallbackOK, AccountsAgree, Row, RequestStates,
       Idle, At, PaidFor

LEMMA StartFrame ==
    ASSUME StartInv, UNCHANGED <<contract, account, initial, request>>,
           slips' \in Nat, slips' = 0 => slips = 0
    PROVE  StartInv'
BY DEF StartInv, ContractsOK, PaymentsOK, RequestsOK, CallbackOK, AccountsAgree, PaidFor, At

\* What a request in each of its places has.
LEMMA RequestAt ==
    ASSUME StartInv, NEW q \in Requests
    PROVE  /\ At(q, "pay") => request[q].contract \in Contracts /\ request[q].email \in Emails
           /\ At(q, "write") => request[q].contract \in Contracts /\ request[q].try \in Tries
           /\ At(q, "activate") => request[q].contract \in Contracts
<1>1. request[q] \in RequestStates
  BY DEF StartInv, RequestsOK
<1> QED
  BY <1>1 DEF RequestStates, Idle, At

\* A payment that is collected and on record stays so, and a callback keeps its payment, when
\* payments are only added.
LEMMA PaymentsStay ==
    ASSUME StartInv, NEW t \in Fresh, NEW row \in Row,
           initial' = [initial EXCEPT ![t] = row]
    PROVE  /\ \A k \in Contracts : PaidFor(k) => PaidFor(k)'
           /\ \A q \in Requests : At(q, "write") => request[q].try # t
<1>1. initial[t].of = Nobody /\ t \in Tries
  BY DEF Fresh
<1>2. ASSUME NEW k \in Contracts, PaidFor(k) PROVE PaidFor(k)'
  <2>1. PICK s \in Tries : initial[s] = [of |-> k, row |-> "PAID", gmo |-> "captured"]
    BY <1>2 DEF PaidFor
  <2>2. s # t
    BY <1>1, <2>1, ContractAssumption
  <2> QED
    BY <2>1, <2>2 DEF PaidFor, StartInv, PaymentsOK
<1>3. ASSUME NEW q \in Requests, At(q, "write") PROVE request[q].try # t
  BY <1>1, <1>3, RequestAt, ContractAssumption DEF StartInv, RequestsOK, CallbackOK
<1> QED
  BY <1>2, <1>3

\* The requests are as they should be after one of them ends and a payment is added.
LEMMA RequestsStay ==
    ASSUME StartInv, NEW q \in Requests, Ends(q),
           NEW t \in Fresh, NEW row \in Row, initial' = [initial EXCEPT ![t] = row]
    PROVE  RequestsOK'
<1>1. request' \in [Requests -> RequestStates]
  BY DEF Ends, StartInv, RequestsOK, RequestStates
<1>2. ASSUME NEW p \in Requests PROVE CallbackOK(p)'
  <2>1. CASE p = q
    BY <2>1 DEF Ends, StartInv, RequestsOK, CallbackOK, At, Idle
  <2>2. CASE p # q
    <3>1. request'[p] = request[p] /\ CallbackOK(p)
      BY <2>2 DEF Ends, StartInv, RequestsOK
    <3>2. At(p, "write") => initial'[request[p].try] = initial[request[p].try]
      BY PaymentsStay, RequestAt DEF StartInv, PaymentsOK
    <3>3. At(p, "activate") => PaidFor(request[p].contract)'
      <4> SUFFICES ASSUME At(p, "activate") PROVE PaidFor(request[p].contract)'
        OBVIOUS
      <4>1. PICK k \in Contracts : k = request[p].contract
        BY RequestAt
      <4>2. PaidFor(k)'
        BY <3>1, <4>1, PaymentsStay DEF CallbackOK
      <4> QED
        BY <3>1, <4>1, <4>2
    <3> QED
      BY <3>1, <3>2, <3>3 DEF CallbackOK, At
  <2> QED
    BY <2>1, <2>2
<1> QED
  BY <1>1, <1>2 DEF RequestsOK

\* The rows of contracts after a change of one of them.
LEMMA ContractsStay ==
    ASSUME ContractsOK, NEW k \in Contracts, NEW status \in {"none", "NOT_STARTED", "STARTED"},
           NEW start, NEW next, NEW email,
           contract' = [l \in Contracts |-> contract'[l]],
           \A l \in Contracts : l # k => contract'[l] = contract[l],
           contract'[k] = [status |-> status, start |-> start, next |-> next, email |-> email]
    PROVE  ContractsOK'
<1>1. ASSUME NEW l \in Contracts
      PROVE  /\ contract'[l] = [status |-> contract'[l].status, start |-> contract'[l].start,
                                next |-> contract'[l].next, email |-> contract'[l].email]
             /\ contract'[l].status \in {"none", "NOT_STARTED", "STARTED"}
  BY DEF ContractsOK
<1> QED
  BY <1>1 DEF ContractsOK

\* What the activation does to the rows, given that the e-mail was free.
LEMMA ActivatedAgrees ==
    ASSUME StartInv, NEW k \in Contracts, NEW e \in Emails, Activated(k, e)
    PROVE  /\ ContractsOK' /\ account' \in [Emails -> Contracts \cup {Nobody}]
           /\ contract'[k].status = "STARTED" /\ contract'[k].email = e
           /\ \A l \in Contracts : l # k => contract'[l] = contract[l]
           /\ account[e] = Nobody /\ account' = [account EXCEPT ![e] = k]
           /\ contract'[k].start = contract[k].start /\ contract'[k].next = contract[k].start
<1> DEFINE started == [contract EXCEPT ![k].status = "STARTED"]
           named   == [started EXCEPT ![k].email = e]
<1>1. contract' = [named EXCEPT ![k].next = contract[k].start]
  BY DEF Activated
<1>2. /\ started = [l \in Contracts |-> started[l]]
      /\ \A l \in Contracts : l # k => started[l] = contract[l]
      /\ started[k] = [status |-> "STARTED", start |-> contract[k].start,
                       next |-> contract[k].next, email |-> contract[k].email]
  BY DEF StartInv, ContractsOK
<1> HIDE DEF started
<1>3. /\ named = [l \in Contracts |-> named[l]]
      /\ \A l \in Contracts : l # k => named[l] = contract[l]
      /\ named[k] = [status |-> "STARTED", start |-> contract[k].start,
                     next |-> contract[k].next, email |-> e]
  BY <1>2
<1> HIDE DEF named
<1>4. /\ contract' = [l \in Contracts |-> contract'[l]]
      /\ \A l \in Contracts : l # k => contract'[l] = contract[l]
      /\ contract'[k] = [status |-> "STARTED", start |-> contract[k].start,
                         next |-> contract[k].start, email |-> e]
  BY <1>1, <1>3
<1>5. ContractsOK'
  BY <1>4, ContractsStay DEF StartInv
<1>6. /\ account[e] = Nobody /\ account' = [account EXCEPT ![e] = k]
      /\ account' \in [Emails -> Contracts \cup {Nobody}]
  BY DEF Activated, MayOpen, StartInv
<1>7. /\ contract'[k].status = "STARTED" /\ contract'[k].email = e
      /\ contract'[k].start = contract[k].start /\ contract'[k].next = contract[k].start
  BY <1>4
<1> QED
  BY <1>4, <1>5, <1>6, <1>7

LEMMA CapturedStarts ==
    ASSUME StartInv, NEW q \in Requests, PayCaptured(q)
    PROVE  StartInv'
<1>1. PICK k \in Contracts, e \in Emails : k = request[q].contract /\ e = request[q].email
  BY RequestAt DEF PayCaptured
<1>2. slips' \in Nat /\ (slips' = 0 => slips = 0 /\ contract[k].status = "NOT_STARTED")
  BY <1>1, SlipsGrow DEF PayCaptured, StartInv
<1>3. PICK t \in Fresh :
         initial' = [initial EXCEPT ![t] = [of |-> k, row |-> "PAID", gmo |-> "captured"]]
  BY <1>1 DEF PayCaptured
<1>4. [of |-> k, row |-> "PAID", gmo |-> "captured"] \in Row /\ t \in Tries
  BY <1>1 DEF Row, Fresh
<1>5. RequestsOK'
  BY <1>3, <1>4, RequestsStay DEF PayCaptured
<1>6. /\ ContractsOK' /\ account' \in [Emails -> Contracts \cup {Nobody}]
      /\ contract'[k].status = "STARTED" /\ contract'[k].email = e
      /\ \A l \in Contracts : l # k => contract'[l] = contract[l]
      /\ account[e] = Nobody /\ account' = [account EXCEPT ![e] = k]
  BY <1>1, ActivatedAgrees DEF PayCaptured
<1>7. PaymentsOK'
  <2>1. initial' \in [Tries -> Row]
    BY <1>3, <1>4 DEF StartInv, PaymentsOK
  <2>2. ASSUME NEW s \in Tries, initial'[s].row # "none"
        PROVE  initial'[s].of \in Contracts /\ contract'[initial'[s].of].email \in Emails
    BY <1>1, <1>3, <1>4, <1>6, <2>2 DEF StartInv, PaymentsOK
  <2> QED
    BY <2>1, <2>2 DEF PaymentsOK
<1>8. ASSUME slips' = 0 PROVE AccountsAgree'
  <2>1. PaidFor(k)'
    BY <1>3, <1>4 DEF PaidFor, StartInv, PaymentsOK
  <2>2. \A l \in Contracts : PaidFor(l) => PaidFor(l)'
    BY <1>3, <1>4, PaymentsStay
  <2>3. slips = 0 /\ contract[k].status = "NOT_STARTED" /\ AccountsAgree
    BY <1>2, <1>8 DEF StartInv
  <2>4. account'[e] = k /\ \A f \in Emails : f # e => account'[f] = account[f]
    BY <1>1, <1>6 DEF StartInv
  <2>5. \A f \in Emails : account[f] # k
    BY <1>1, <2>3 DEF AccountsAgree
  <2>6. ASSUME NEW l \in Contracts, l # k
        PROVE  IF contract'[l].status = "STARTED"
               THEN /\ contract'[l].email \in Emails
                    /\ account'[contract'[l].email] = l
                    /\ \A f \in Emails : account'[f] = l => f = contract'[l].email
                    /\ PaidFor(l)'
               ELSE \A f \in Emails : account'[f] # l
    <3>1. contract'[l] = contract[l]
      BY <1>6, <2>6
    <3>2. l # Nobody
      BY ContractAssumption
    <3> QED
      BY <1>6, <2>2, <2>3, <2>4, <2>6, <3>1, <3>2 DEF AccountsAgree
  <2> QED
    BY <1>1, <1>6, <2>1, <2>4, <2>5, <2>6 DEF AccountsAgree
<1> QED
  BY <1>2, <1>5, <1>6, <1>7, <1>8 DEF StartInv

LEMMA RedirectedStarts ==
    ASSUME StartInv, NEW q \in Requests, PayRedirected(q)
    PROVE  StartInv'
<1>1. PICK k \in Contracts, e \in Emails : k = request[q].contract /\ e = request[q].email
  BY RequestAt DEF PayRedirected
<1>2. slips' \in Nat /\ (slips' = 0 => slips = 0 /\ contract[k].status = "NOT_STARTED")
  BY <1>1, SlipsGrow DEF PayRedirected, StartInv
<1>3. PICK t \in Fresh :
         initial' = [initial EXCEPT ![t] = [of |-> k, row |-> "PENDING", gmo |-> "redirected"]]
  BY <1>1 DEF PayRedirected
<1>4. [of |-> k, row |-> "PENDING", gmo |-> "redirected"] \in Row /\ t \in Tries
  BY <1>1 DEF Row, Fresh
<1>5. RequestsOK'
  BY <1>3, <1>4, RequestsStay DEF PayRedirected
<1>6. /\ ContractsOK'
      /\ contract'[k].status = contract[k].status /\ contract'[k].email = e
      /\ \A l \in Contracts : l # k => contract'[l] = contract[l]
  <2>1. /\ contract' = [l \in Contracts |-> contract'[l]]
        /\ \A l \in Contracts : l # k => contract'[l] = contract[l]
        /\ contract'[k] = [status |-> contract[k].status, start |-> contract[k].start,
                           next |-> contract[k].next, email |-> e]
    BY <1>1 DEF PayRedirected, StartInv, ContractsOK
  <2>2. contract[k].status \in {"none", "NOT_STARTED", "STARTED"} /\ ContractsOK
    BY DEF StartInv, ContractsOK
  <2>3. ContractsOK'
    BY <2>1, <2>2, ContractsStay
  <2> QED
    BY <2>1, <2>3
<1>7. PaymentsOK'
  <2>1. initial' \in [Tries -> Row]
    BY <1>3, <1>4 DEF StartInv, PaymentsOK
  <2>2. ASSUME NEW s \in Tries, initial'[s].row # "none"
        PROVE  initial'[s].of \in Contracts /\ contract'[initial'[s].of].email \in Emails
    BY <1>1, <1>3, <1>4, <1>6, <2>2 DEF StartInv, PaymentsOK
  <2> QED
    BY <2>1, <2>2 DEF PaymentsOK
<1>8. UNCHANGED account
  BY DEF PayRedirected
<1>9. ASSUME slips' = 0 PROVE AccountsAgree'
  <2>1. \A l \in Contracts : PaidFor(l) => PaidFor(l)'
    BY <1>3, <1>4, PaymentsStay
  <2>2. contract[k].status = "NOT_STARTED" /\ AccountsAgree
    BY <1>2, <1>9 DEF StartInv
  <2> QED
    BY <1>1, <1>6, <1>8, <2>1, <2>2 DEF AccountsAgree
<1> QED
  BY <1>2, <1>5, <1>6, <1>7, <1>8, <1>9 DEF StartInv

LEMMA PayLostStarts ==
    ASSUME StartInv, NEW q \in Requests, PayLost(q)
    PROVE  StartInv'
<1>1. PICK k \in Contracts : k = request[q].contract
  BY RequestAt DEF PayLost
<1>2. slips' \in Nat /\ slips' # 0
  BY SlipsGrow DEF PayLost, StartInv
<1>3. PICK t \in Fresh :
         initial' = [initial EXCEPT ![t] = [of |-> k, row |-> "none", gmo |-> "captured"]]
  BY <1>1 DEF PayLost
<1>4. [of |-> k, row |-> "none", gmo |-> "captured"] \in Row /\ t \in Tries
  BY <1>1 DEF Row, Fresh
<1>5. RequestsOK'
  BY <1>3, <1>4, RequestsStay DEF PayLost
<1>6. PaymentsOK'
  BY <1>3, <1>4 DEF StartInv, PaymentsOK, PayLost
<1> QED
  BY <1>2, <1>5, <1>6 DEF StartInv, ContractsOK, PayLost

LEMMA CreateStarts ==
    ASSUME StartInv, NEW k \in Contracts, Create(k)
    PROVE  StartInv'
<1>1. PICK start \in Starts :
         contract' = [contract EXCEPT ![k].status = "NOT_STARTED", ![k].start = start]
  BY DEF Create
<1> DEFINE created == [contract EXCEPT ![k].status = "NOT_STARTED"]
<1>2. /\ created = [l \in Contracts |-> created[l]]
      /\ \A l \in Contracts : l # k => created[l] = contract[l]
      /\ created[k] = [status |-> "NOT_STARTED", start |-> contract[k].start,
                       next |-> contract[k].next, email |-> contract[k].email]
  BY DEF StartInv, ContractsOK
<1>3. /\ ContractsOK'
      /\ contract'[k].status = "NOT_STARTED" /\ contract'[k].email = contract[k].email
      /\ \A l \in Contracts : l # k => contract'[l] = contract[l]
  <2>1. contract' = [created EXCEPT ![k].start = start]
    BY <1>1
  <2> HIDE DEF created
  <2>2. /\ contract' = [l \in Contracts |-> contract'[l]]
        /\ \A l \in Contracts : l # k => contract'[l] = contract[l]
        /\ contract'[k] = [status |-> "NOT_STARTED", start |-> start,
                           next |-> contract[k].next, email |-> contract[k].email]
    BY <1>2, <2>1
  <2>3. ContractsOK'
    BY <2>2, ContractsStay DEF StartInv
  <2> QED
    BY <2>2, <2>3
<1>4. UNCHANGED <<account, initial, request, slips>> /\ contract[k].status # "STARTED"
  BY DEF Create
<1>5. PaymentsOK' /\ RequestsOK'
  BY <1>3, <1>4 DEF StartInv, PaymentsOK, RequestsOK, CallbackOK, PaidFor, At
<1>6. slips = 0 => AccountsAgree'
  BY <1>3, <1>4 DEF StartInv, AccountsAgree, PaidFor
<1> QED
  BY <1>3, <1>4, <1>5, <1>6 DEF StartInv

\* A payment that only becomes collected, or is marked as paid, stays whose it is.
LEMMA PaymentAdvances ==
    ASSUME StartInv, NEW t \in Tries, NEW row \in Row,
           initial' = [initial EXCEPT ![t] = row],
           row.of = initial[t].of,
           row.row = "none" <=> initial[t].row = "none",
           initial[t].row = "PAID" => row.row = "PAID",
           initial[t].gmo = "captured" => row.gmo = "captured",
           UNCHANGED <<contract, account, slips>>
    PROVE  /\ PaymentsOK' /\ (slips = 0 => AccountsAgree')
           /\ \A k \in Contracts : PaidFor(k) => PaidFor(k)'
           /\ \A s \in Tries : /\ initial'[s].of = initial[s].of
                               /\ initial[s].row # "none" => initial'[s].row # "none"
                               /\ initial[s].gmo = "captured" => initial'[s].gmo = "captured"
<1>1. initial \in [Tries -> Row] /\ initial' \in [Tries -> Row]
  BY DEF StartInv, PaymentsOK
<1>2. \A s \in Tries : /\ initial'[s].of = initial[s].of
                       /\ initial'[s].row = "none" <=> initial[s].row = "none"
                       /\ initial[s].row = "PAID" => initial'[s].row = "PAID"
                       /\ initial[s].gmo = "captured" => initial'[s].gmo = "captured"
  BY <1>1
<1>3. \A k \in Contracts, s \in Tries :
         initial[s] = [of |-> k, row |-> "PAID", gmo |-> "captured"]
           => initial'[s] = [of |-> k, row |-> "PAID", gmo |-> "captured"]
  BY <1>1, <1>2 DEF Row
<1>4. \A k \in Contracts : PaidFor(k) => PaidFor(k)'
  BY <1>3 DEF PaidFor
<1>5. PaymentsOK'
  BY <1>1, <1>2 DEF StartInv, PaymentsOK
<1>6. slips = 0 => AccountsAgree'
  BY <1>4 DEF StartInv, AccountsAgree
<1> QED
  BY <1>2, <1>4, <1>5, <1>6

LEMMA FinishesStarts ==
    ASSUME StartInv, NEW t \in Tries, CustomerFinishes(t)
    PROVE  StartInv'
<1> DEFINE row == [initial[t] EXCEPT !.gmo = "captured"]
<1>1. /\ row \in Row /\ initial' = [initial EXCEPT ![t] = row]
      /\ row.of = initial[t].of /\ row.row = initial[t].row /\ row.gmo = "captured"
  BY DEF CustomerFinishes, StartInv, PaymentsOK, Row
<1>2. UNCHANGED <<contract, account, request, slips>>
  BY DEF CustomerFinishes
<1>3. /\ PaymentsOK' /\ (slips = 0 => AccountsAgree')
      /\ \A k \in Contracts : PaidFor(k) => PaidFor(k)'
      /\ \A s \in Tries : /\ initial'[s].of = initial[s].of
                          /\ initial[s].row # "none" => initial'[s].row # "none"
                          /\ initial[s].gmo = "captured" => initial'[s].gmo = "captured"
  <2> HIDE DEF row
  <2> QED
    BY <1>1, <1>2, PaymentAdvances
<1>4. RequestsOK'
  <2>1. ASSUME NEW q \in Requests, CallbackOK(q) PROVE CallbackOK(q)'
    <3>1. At(q, "write") => request[q].try \in Tries
      BY RequestAt
    <3>2. At(q, "activate") => PaidFor(request[q].contract)'
      <4> SUFFICES ASSUME At(q, "activate") PROVE PaidFor(request[q].contract)'
        OBVIOUS
      <4>1. PICK k \in Contracts : k = request[q].contract
        BY RequestAt
      <4>2. PaidFor(k)'
        BY <1>3, <2>1, <4>1 DEF CallbackOK
      <4> QED
        BY <1>2, <4>1, <4>2
    <3> QED
      BY <1>2, <1>3, <2>1, <3>1, <3>2 DEF CallbackOK, At
  <2> QED
    BY <1>2, <2>1 DEF StartInv, RequestsOK
<1> QED
  BY <1>2, <1>3, <1>4 DEF StartInv, ContractsOK

LEMMA WriteStarts ==
    ASSUME StartInv, NEW q \in Requests, CallbackWrite(q)
    PROVE  StartInv'
<1>1. PICK k \in Contracts, t \in Tries : k = request[q].contract /\ t = request[q].try
  BY RequestAt DEF CallbackWrite
<1> DEFINE row == [initial[t] EXCEPT !.row = "PAID"]
<1>2. /\ initial[t] \in Row
      /\ initial[t].of = k /\ initial[t].row # "none" /\ initial[t].gmo = "captured"
  BY <1>1 DEF CallbackWrite, StartInv, RequestsOK, CallbackOK, PaymentsOK
<1>3. /\ row \in Row /\ initial' = [initial EXCEPT ![t] = row]
      /\ row.of = k /\ row.row = "PAID" /\ row.gmo = "captured"
  BY <1>1, <1>2 DEF CallbackWrite, Row
<1>4. UNCHANGED <<contract, account, slips>>
  BY DEF CallbackWrite
<1> HIDE DEF row
<1>5. /\ PaymentsOK' /\ (slips = 0 => AccountsAgree')
      /\ \A l \in Contracts : PaidFor(l) => PaidFor(l)'
      /\ \A s \in Tries : /\ initial'[s].of = initial[s].of
                          /\ initial[s].row # "none" => initial'[s].row # "none"
                          /\ initial[s].gmo = "captured" => initial'[s].gmo = "captured"
  BY <1>2, <1>3, <1>4, PaymentAdvances
<1>6. request' = [request EXCEPT ![q] = [pc |-> "activate", contract |-> k]]
  BY <1>1 DEF CallbackWrite
<1>7. PaidFor(k)'
  <2>1. initial'[t] = row
    BY <1>3 DEF StartInv, PaymentsOK
  <2>2. row = [of |-> k, row |-> "PAID", gmo |-> "captured"]
    BY <1>3 DEF Row
  <2> QED
    BY <2>1, <2>2 DEF PaidFor
<1>8. RequestsOK'
  <2>1. request' \in [Requests -> RequestStates]
    BY <1>6 DEF StartInv, RequestsOK, RequestStates
  <2>2. ASSUME NEW p \in Requests PROVE CallbackOK(p)'
    <3>1. CASE p = q
      <4>1. request'[p] = [pc |-> "activate", contract |-> k]
        BY <1>6, <3>1 DEF StartInv, RequestsOK
      <4> QED
        BY <1>7, <4>1 DEF CallbackOK, At
    <3>2. CASE p # q
      <4>1. request'[p] = request[p] /\ CallbackOK(p)
        BY <1>6, <3>2 DEF StartInv, RequestsOK
      <4>2. At(p, "write") => request[p].try \in Tries
        BY RequestAt
      <4>3. At(p, "activate") => PaidFor(request[p].contract)'
        <5> SUFFICES ASSUME At(p, "activate") PROVE PaidFor(request[p].contract)'
          OBVIOUS
        <5>1. PICK l \in Contracts : l = request[p].contract
          BY RequestAt
        <5>2. PaidFor(l)'
          BY <1>5, <4>1, <5>1 DEF CallbackOK
        <5> QED
          BY <4>1, <5>1, <5>2
      <4> QED
        BY <1>5, <4>1, <4>2, <4>3 DEF CallbackOK, At
    <3> QED
      BY <3>1, <3>2
  <2> QED
    BY <2>1, <2>2 DEF RequestsOK
<1> QED
  BY <1>4, <1>5, <1>8 DEF StartInv, ContractsOK

LEMMA ActivateStarts ==
    ASSUME StartInv, NEW q \in Requests, Activate(q)
    PROVE  StartInv'
<1>1. PICK k \in Contracts : k = request[q].contract /\ PaidFor(k)
  BY RequestAt DEF Activate, StartInv, RequestsOK, CallbackOK
<1>2. PICK e \in Emails : e = contract[k].email
  BY <1>1 DEF PaidFor, StartInv, PaymentsOK
<1>3. /\ ContractsOK' /\ account' \in [Emails -> Contracts \cup {Nobody}]
      /\ contract'[k].status = "STARTED" /\ contract'[k].email = e
      /\ \A l \in Contracts : l # k => contract'[l] = contract[l]
      /\ account[e] = Nobody /\ account' = [account EXCEPT ![e] = k]
  BY <1>1, <1>2, ActivatedAgrees DEF Activate
<1>4. UNCHANGED <<initial, slips>> /\ request' = [request EXCEPT ![q] = Idle]
  BY DEF Activate, Ends
<1>5. PaymentsOK'
  BY <1>2, <1>3, <1>4 DEF StartInv, PaymentsOK
<1>6. RequestsOK'
  BY <1>4 DEF StartInv, RequestsOK, CallbackOK, RequestStates, At, Idle, PaidFor
<1>7. ASSUME slips = 0 PROVE AccountsAgree'
  <2>1. AccountsAgree /\ k # Nobody
    BY <1>1, <1>7, ContractAssumption DEF StartInv
  <2>2. \A f \in Emails : account[f] # k
    BY <1>1, <1>2, <1>3, <2>1 DEF AccountsAgree
  <2>3. account'[e] = k /\ \A f \in Emails : f # e => account'[f] = account[f]
    BY <1>2, <1>3 DEF StartInv
  <2>4. \A l \in Contracts : PaidFor(l)' <=> PaidFor(l)
    BY <1>4 DEF PaidFor
  <2>5. ASSUME NEW l \in Contracts, l # k
        PROVE  IF contract'[l].status = "STARTED"
               THEN /\ contract'[l].email \in Emails
                    /\ account'[contract'[l].email] = l
                    /\ \A f \in Emails : account'[f] = l => f = contract'[l].email
                    /\ PaidFor(l)'
               ELSE \A f \in Emails : account'[f] # l
    <3>1. contract'[l] = contract[l] /\ l # Nobody
      BY <1>3, <2>5, ContractAssumption
    <3> QED
      BY <1>3, <2>1, <2>3, <2>4, <2>5, <3>1 DEF AccountsAgree
  <2> QED
    BY <1>1, <1>2, <1>3, <2>2, <2>3, <2>4, <2>5 DEF AccountsAgree
<1> QED
  BY <1>3, <1>4, <1>5, <1>6, <1>7 DEF StartInv

\* A request moves on, and to the write of a callback only with a payment that is collected.
LEMMA MovesOn ==
    ASSUME StartInv, NEW q \in Requests, NEW state \in RequestStates,
           request' = [request EXCEPT ![q] = state],
           state.pc # "activate",
           state.pc = "write" => /\ initial[state.try].of = state.contract
                                 /\ initial[state.try].row # "none"
                                 /\ initial[state.try].gmo = "captured",
           UNCHANGED <<contract, account, initial, slips>>
    PROVE  StartInv'
<1>1. request' \in [Requests -> RequestStates]
  BY DEF StartInv, RequestsOK
<1>2. ASSUME NEW p \in Requests PROVE CallbackOK(p)'
  <2>1. CASE p = q
    BY <2>1 DEF StartInv, RequestsOK, CallbackOK, At
  <2>2. CASE p # q
    BY <2>2 DEF StartInv, RequestsOK, CallbackOK, At, PaidFor
  <2> QED
    BY <2>1, <2>2
<1> QED
  BY <1>1, <1>2 DEF StartInv, ContractsOK, PaymentsOK, RequestsOK, AccountsAgree, PaidFor

LEMMA RequestMoves ==
    ASSUME StartInv, NEW q \in Requests,
           \/ \E k \in Contracts, e \in Emails : PayRead(q, k, e)
           \/ \E t \in Tries : CallbackRead(q, t)
           \/ RequestFails(q)
    PROVE  StartInv'
<1>1. ASSUME NEW k \in Contracts, NEW e \in Emails, PayRead(q, k, e) PROVE StartInv'
  <2> DEFINE state == [pc |-> "pay", contract |-> k, email |-> e]
  <2>1. state \in RequestStates /\ state.pc = "pay"
    BY DEF RequestStates
  <2>2. request' = [request EXCEPT ![q] = state] /\ UNCHANGED <<contract, account, initial, slips>>
    BY <1>1 DEF PayRead
  <2> HIDE DEF state
  <2> QED
    BY <2>1, <2>2, MovesOn
<1>2. ASSUME NEW t \in Tries, CallbackRead(q, t) PROVE StartInv'
  <2> DEFINE state == [pc |-> "write", contract |-> initial[t].of, try |-> t]
  <2>1. /\ initial[t].of \in Contracts
        /\ initial[t].row # "none" /\ initial[t].gmo = "captured"
    BY <1>2 DEF CallbackRead, Finished, StartInv, PaymentsOK
  <2>2. /\ state \in RequestStates
        /\ state.pc = "write" /\ state.contract = initial[t].of /\ state.try = t
    BY <2>1 DEF RequestStates
  <2>3. request' = [request EXCEPT ![q] = state] /\ UNCHANGED <<contract, account, initial, slips>>
    BY <1>2 DEF CallbackRead
  <2> HIDE DEF state
  <2> QED
    BY <2>1, <2>2, <2>3, MovesOn
<1>3. CASE RequestFails(q)
  <2>1. Idle \in RequestStates /\ Idle.pc = "idle"
    BY DEF RequestStates, Idle
  <2>2. request' = [request EXCEPT ![q] = Idle] /\ UNCHANGED <<contract, account, initial, slips>>
    BY <1>3 DEF RequestFails, Ends
  <2> QED
    BY <2>1, <2>2, MovesOn
<1> QED
  BY <1>1, <1>2, <1>3

\* The job changes no more of a contract than its next payment day.
LEMMA JobStarts ==
    ASSUME StartInv, NEW r \in Runs, Working(r)
    PROVE  StartInv'
<1>1. slips' \in Nat /\ (slips' = 0 => slips = 0)
  <2>1. CASE UNCHANGED slips
    BY <2>1 DEF StartInv
  <2>2. CASE \/ Start(r)
             \/ \E k \in Contracts, m \in Months : FeeLost(r, k, m)
    BY <2>2, SlipsGrow DEF StartInv, Start, FeeLost
  <2> QED
    BY <2>1, <2>2 DEF Working, Start, CheckNext, SetNext, Done, RunFails, Take, FeeCaptured,
                      FeePending, FeeLost
<1>2. CASE SetNext(r)
  <2> DEFINE k == run[r].contract
             next == NextPayment(k, run[r].now)
  <2>1. UNCHANGED <<account, initial, request, slips>>
    BY <1>2 DEF SetNext
  <2>2. contract' = [contract EXCEPT ![k].next = next]
    BY <1>2 DEF SetNext
  <2> HIDE DEF next
  <2>3. ContractsOK' /\ \A l \in Contracts : /\ contract'[l].status = contract[l].status
                                             /\ contract'[l].email = contract[l].email
    <3>1. CASE k \in Contracts
      <4>1. /\ contract' = [l \in Contracts |-> contract'[l]]
            /\ \A l \in Contracts : l # k => contract'[l] = contract[l]
            /\ contract'[k] = [status |-> contract[k].status, start |-> contract[k].start,
                               next |-> next, email |-> contract[k].email]
        BY <2>2, <3>1 DEF StartInv, ContractsOK
      <4>2. contract[k].status \in {"none", "NOT_STARTED", "STARTED"} /\ ContractsOK
        BY <3>1 DEF StartInv, ContractsOK
      <4> HIDE DEF k
      <4>3. ContractsOK'
        BY <3>1, <4>1, <4>2, ContractsStay
      <4> QED
        BY <4>1, <4>3
    <3>2. CASE k \notin Contracts
      BY <2>2, <3>2 DEF StartInv, ContractsOK
    <3> QED
      BY <3>1, <3>2
  <2>4. PaymentsOK' /\ RequestsOK' /\ (slips = 0 => AccountsAgree')
    BY <2>1, <2>3 DEF StartInv, PaymentsOK, RequestsOK, CallbackOK, AccountsAgree, PaidFor, At
  <2> QED
    BY <2>1, <2>3, <2>4 DEF StartInv
<1>3. CASE UNCHANGED <<contract, account, initial, request>>
  BY <1>1, <1>3, StartFrame
<1> QED
  BY <1>2, <1>3 DEF Working, Start, CheckNext, Done, RunFails, Take, FeeCaptured, FeePending, FeeLost

LEMMA StartStep == StartInv /\ [Next]_vars => StartInv'
<1> SUFFICES ASSUME StartInv, [Next]_vars PROVE StartInv'
  OBVIOUS
<1>1. CASE Tick \/ UNCHANGED vars
  <2>1. UNCHANGED <<contract, account, initial, request, slips>>
    BY <1>1 DEF Tick, vars
  <2> QED
    BY <2>1, StartFrame DEF StartInv
<1>2. ASSUME NEW q \in Requests, Requested(q) PROVE StartInv'
  BY <1>2, RequestMoves, CapturedStarts, RedirectedStarts, PayLostStarts, WriteStarts,
     ActivateStarts DEF Requested
<1> QED
  BY <1>1, <1>2, CreateStarts, FinishesStarts, JobStarts DEF Next

\* Whichever payments and callbacks come first, a contract is started once, with one account,
\* and only with an initial fee that GMO has collected, as long as no step acts on a contract
\* that was started since it was read.
THEOREM ContractsStartOncePaid == Spec => []StartedOncePaid
<1>1. StartInv => StartedOncePaid
  <2> SUFFICES ASSUME StartInv, slips = 0, NEW k \in Contracts
               PROVE  /\ Cardinality(AccountsOf(k)) =
                            IF contract[k].status = "STARTED" THEN 1 ELSE 0
                      /\ contract[k].status = "STARTED" => PaidFor(k)
    BY DEF StartedOncePaid, PaidFor
  <2>1. AccountsAgree
    BY DEF StartInv
  <2>2. CASE contract[k].status = "STARTED"
    <3>1. AccountsOf(k) = {contract[k].email} /\ PaidFor(k)
      BY <2>1, <2>2 DEF AccountsAgree, AccountsOf
    <3> QED
      BY <2>2, <3>1, FS_Singleton
  <2>3. CASE contract[k].status # "STARTED"
    <3>1. AccountsOf(k) = {}
      BY <2>1, <2>3 DEF AccountsAgree, AccountsOf
    <3> QED
      BY <2>3, <3>1, FS_EmptySet
  <2> QED
    BY <2>2, <2>3
<1> QED
  BY <1>1, StartInit, StartStep, PTL DEF Spec

-----------------------------------------------------------------------------
(* No month is forgotten.                                                  *)

Started(k) == contract[k].status = "STARTED"

Begun(k) == Started(k) /\ contract[k].start <= today

\* A contract that begins later waits for its start.
DaysOK ==
    \A k \in Contracts :
        /\ contract[k].next \in Nat
        /\ contract[k].status # "none" => contract[k].start \in Days
        /\ Started(k) /\ contract[k].start > today => contract[k].next = contract[k].start

\* Who pays for a contract has created it.
CreatedOK ==
    /\ \A q \in Requests : request[q] # Idle => contract[request[q].contract].status # "none"
    /\ \A t \in Tries : initial[t].row # "none" => contract[initial[t].of].status # "none"

\* What a worker knows of the time: the months it charges, or the one it has looked at.
Known(state) == IF state.pc = "pay" THEN state.months ELSE {state.now}

\* The job is at contracts that have begun, and at no month that has not.
MonthsOK ==
    /\ \A k \in Contracts : \A m \in paid[k] \cup unasked[k] : m <= MonthOf(today)
    /\ \A r \in Runs : run[r] # Idle =>
          /\ \A k \in run[r].todo : Begun(k)
          /\ run[r].pc # "next" =>
                Begun(run[r].contract) /\ \A m \in Known(run[r]) : m <= MonthOf(today)

UnaskedOK == unasked \in [Contracts -> SUBSET Int]

CalendarInv == today \in Days /\ UnaskedOK /\ DaysOK /\ CreatedOK /\ MonthsOK /\ NoMonthIsForgotten

\* What NoMonthIsForgotten says of one contract.
Awaits(k) ==
    Started(k) /\ contract[k].next >= today =>
        \A m \in MonthOf(contract[k].start)..MonthOf(today) + 1 :
            \/ m \in paid[k] \cup unasked[k] \/ ~FitsUntil(k, m)
            \/ contract[k].next <= Due(k, m) \/ contract[k].next <= today + 1

LEMMA EachAwaits == NoMonthIsForgotten <=> \A k \in Contracts : Awaits(k)
BY DEF NoMonthIsForgotten, Awaits, Started

LEMMA CalendarInit == Init => CalendarInv
<1> SUFFICES ASSUME Init PROVE CalendarInv
  OBVIOUS
<1>1. today \in Days
  BY CalendarType DEF Init
<1>2. UnaskedOK /\ DaysOK /\ CreatedOK /\ MonthsOK
  BY DEF Init, UnaskedOK, DaysOK, CreatedOK, MonthsOK, Started, Idle
<1>3. NoMonthIsForgotten
  BY DEF Init, NoMonthIsForgotten
<1> QED
  BY <1>1, <1>2, <1>3 DEF CalendarInv

\* A contract keeps its days, or is activated with its start as its next payment.
KeepsDays(k) ==
    /\ contract'[k].start = contract[k].start
    /\ \/ contract'[k].status = contract[k].status /\ contract'[k].next = contract[k].next
       \/ /\ contract[k].status # "none" /\ contract'[k].status = "STARTED"
          /\ contract'[k].next = contract[k].start

\* What is due at the first month is due on the start.
LEMMA DueFromStart ==
    ASSUME NEW k \in Contracts, contract[k].start \in Days,
           NEW m \in Months, MonthOf(contract[k].start) <= m
    PROVE  contract[k].start <= Due(k, m) /\ Due(k, m) \in Nat
<1> DEFINE first == MonthOf(contract[k].start)
<1>1. /\ first \in Months /\ first \in Nat /\ m \in Nat /\ contract[k].start \in Nat
      /\ FirstDay[first] \in Nat /\ FirstDay[m] \in Nat /\ FirstDay[first] <= contract[k].start
  <2>1. first \in Months /\ first \in Nat /\ FirstDay[first] <= contract[k].start
    BY MonthIs
  <2>2. contract[k].start \in Nat
    BY CalendarType
  <2> HIDE DEF first
  <2>3. m \in Nat /\ FirstDay[m] \in Nat /\ FirstDay[first] \in Nat
    BY <2>1, CalendarType
  <2> QED
    BY <2>1, <2>2, <2>3
<1>2. Due(k, m) = FirstDay[m] + (contract[k].start - FirstDay[first])
  BY DEF Due, DayOfMonth
<1> HIDE DEF first
<1>3. FirstDay[first] <= FirstDay[m]
  <2>1. CASE first = m
    BY <1>1, <2>1
  <2>2. CASE first < m
    BY <1>1, <2>2, CalendarGrows
  <2>3. first <= m
    BY DEF first
  <2> QED
    BY <1>1, <2>1, <2>2, <2>3
<1> QED
  BY <1>1, <1>2, <1>3

LEMMA AwaitsStays ==
    ASSUME NEW k \in Contracts, today \in Days, contract[k].status # "none" => contract[k].start \in Days,
           Awaits(k), KeepsDays(k), UNCHANGED today, paid[k] \subseteq paid'[k],
           unasked'[k] = unasked[k]
    PROVE  Awaits(k)'
<1> SUFFICES ASSUME Started(k)', contract'[k].next >= today,
                    NEW m \in MonthOf(contract[k].start)..MonthOf(today) + 1,
                    m \notin paid'[k] \cup unasked'[k], FitsUntil(k, m)'
             PROVE  contract'[k].next <= Due(k, m)'
                      \/ contract'[k].next <= today + 1
  BY DEF Awaits, KeepsDays
<1>1. FitsUntil(k, m) /\ Due(k, m)' = Due(k, m)
  BY DEF FitsUntil, Due, KeepsDays
<1>2. CASE contract'[k].status = contract[k].status /\ contract'[k].next = contract[k].next
  BY <1>1, <1>2 DEF Awaits, Started
<1>3. CASE contract[k].status # "none" /\ contract'[k].next = contract[k].start
  <2>1. m \in Months /\ MonthOf(contract[k].start) <= m
    <3>1. PICK i \in Months : i = MonthOf(contract[k].start)
      BY <1>3, MonthIs
    <3>2. PICK n \in Months : n = MonthOf(today) /\ n + 1 \in Months
      BY MonthIs
    <3> QED
      BY <3>1, <3>2, CalendarType
  <2> QED
    BY <1>1, <1>3, <2>1, DueFromStart
<1> QED
  BY <1>2, <1>3 DEF KeepsDays

\* The days of all contracts, when the job does nothing.
LEMMA DaysStay ==
    ASSUME CalendarInv, UNCHANGED <<today, paid, run, unasked>>, \A k \in Contracts : KeepsDays(k),
           FeeInv
    PROVE  (today \in Days /\ UnaskedOK /\ DaysOK /\ MonthsOK /\ NoMonthIsForgotten)'
<1>1. today \in Days /\ UnaskedOK' /\ UNCHANGED <<today, paid, run, unasked>>
  BY DEF CalendarInv, UnaskedOK
<1>2. ASSUME NEW k \in Contracts
      PROVE  /\ contract'[k].next \in Nat
             /\ contract'[k].status # "none" => contract'[k].start \in Days
             /\ Started(k)' /\ contract'[k].start > today' => contract'[k].next = contract'[k].start
             /\ Begun(k) => Begun(k)'
             /\ Awaits(k)'
  <2>1. /\ contract[k].next \in Nat
        /\ contract[k].status # "none" => contract[k].start \in Days
        /\ Started(k) /\ contract[k].start > today => contract[k].next = contract[k].start
    BY DEF CalendarInv, DaysOK
  <2>2. KeepsDays(k) /\ Days \subseteq Nat
    BY CalendarType
  <2>3. Awaits(k)'
    BY <1>1, <2>1, <2>2, EachAwaits, AwaitsStays DEF CalendarInv
  <2>4. Begun(k) => Begun(k)'
    BY <1>1, <2>2 DEF KeepsDays, Begun, Started
  <2> QED
    BY <1>1, <2>1, <2>2, <2>3, <2>4 DEF KeepsDays, Started
<1>3. DaysOK'
  BY <1>2 DEF DaysOK
<1>4. MonthsOK'
  <2>1. \A r \in Runs : run[r] # Idle =>
           /\ run[r].todo \subseteq Contracts
           /\ run[r].pc # "next" => run[r].contract \in Contracts
    BY DEF FeeInv, RunStates
  <2>2. \A k \in Contracts : \A m \in paid'[k] \cup unasked'[k] : m <= MonthOf(today')
    BY <1>1 DEF CalendarInv, MonthsOK
  <2>3. ASSUME NEW r \in Runs, run[r] # Idle
        PROVE  /\ \A k \in run[r].todo : Begun(k)'
               /\ run[r].pc # "next" =>
                     Begun(run[r].contract)' /\ \A m \in Known(run[r]) : m <= MonthOf(today)
    <3>1. \A k \in run[r].todo : Begun(k)'
      BY <1>2, <2>1, <2>3 DEF CalendarInv, MonthsOK
    <3>2. ASSUME run[r].pc # "next"
          PROVE  Begun(run[r].contract)' /\ \A m \in Known(run[r]) : m <= MonthOf(today)
      <4>1. PICK k \in Contracts : k = run[r].contract
        BY <2>1, <2>3, <3>2
      <4>2. Begun(k) /\ \A m \in Known(run[r]) : m <= MonthOf(today)
        BY <2>3, <3>2, <4>1 DEF CalendarInv, MonthsOK
      <4>3. Begun(k)'
        BY <1>2, <4>2
      <4> QED
        BY <1>1, <4>1, <4>2, <4>3
    <3> QED
      BY <3>1, <3>2
  <2> QED
    BY <1>1, <2>2, <2>3 DEF MonthsOK, Known
<1>5. NoMonthIsForgotten'
  BY <1>2 DEF NoMonthIsForgotten, Awaits, Started
<1> QED
  BY <1>1, <1>3, <1>4, <1>5

\* Who is created stays so, when no request is of another contract than before.
LEMMA CreatedStays ==
    ASSUME CreatedOK, \A k \in Contracts : KeepsDays(k), StartInv, 
           \A q \in Requests : request'[q] # Idle =>
              \/ request[q] # Idle /\ request'[q].contract = request[q].contract
              \/ \E k \in Contracts : request'[q].contract = k /\ contract[k].status # "none",
           \A t \in Tries : initial'[t].row # "none" =>
              \/ initial[t].row # "none" /\ initial'[t].of = initial[t].of
              \/ \E k \in Contracts : initial'[t].of = k /\ contract[k].status # "none"
    PROVE  CreatedOK'
<1>1. \A k \in Contracts : contract[k].status # "none" => contract'[k].status # "none"
  BY DEF KeepsDays
<1>2. \A q \in Requests : request[q] # Idle => request[q].contract \in Contracts
  BY DEF StartInv, RequestsOK, RequestStates
<1>3. \A t \in Tries : initial[t].row # "none" => initial[t].of \in Contracts
  BY DEF StartInv, PaymentsOK
<1>4. ASSUME NEW q \in Requests, request'[q] # Idle PROVE contract'[request'[q].contract].status # "none"
  <2>1. PICK k \in Contracts : request'[q].contract = k /\ contract[k].status # "none"
    BY <1>2, <1>4 DEF CreatedOK
  <2> QED
    BY <1>1, <2>1
<1>5. ASSUME NEW t \in Tries, initial'[t].row # "none" PROVE contract'[initial'[t].of].status # "none"
  <2>1. PICK k \in Contracts : initial'[t].of = k /\ contract[k].status # "none"
    BY <1>3, <1>5 DEF CreatedOK
  <2> QED
    BY <1>1, <2>1
<1> QED
  BY <1>4, <1>5 DEF CreatedOK

LEMMA PaymentKeepsCalendar ==
    ASSUME FeeInv, StartInv, CalendarInv, UNCHANGED <<today, paid, run, unasked>>,
           \A k \in Contracts : KeepsDays(k),
           \A q \in Requests : request'[q] # Idle =>
              \/ request[q] # Idle /\ request'[q].contract = request[q].contract
              \/ \E k \in Contracts : request'[q].contract = k /\ contract[k].status # "none",
           \A t \in Tries : initial'[t].row # "none" =>
              \/ initial[t].row # "none" /\ initial'[t].of = initial[t].of
              \/ \E k \in Contracts : initial'[t].of = k /\ contract[k].status # "none"
    PROVE  CalendarInv'
<1>1. (today \in Days /\ UnaskedOK /\ DaysOK /\ MonthsOK /\ NoMonthIsForgotten)'
  BY DaysStay
<1>2. CreatedOK'
  BY CreatedStays DEF CalendarInv
<1> QED
  BY <1>1, <1>2 DEF CalendarInv

\* The contract of a request has been created.
LEMMA RequestCreated ==
    ASSUME StartInv, CalendarInv, NEW q \in Requests, request[q] # Idle
    PROVE  request[q].contract \in Contracts /\ contract[request[q].contract].status # "none"
BY DEF StartInv, RequestsOK, RequestStates, CalendarInv, CreatedOK

LEMMA ActivatedKeepsDays ==
    ASSUME StartInv, NEW k \in Contracts, NEW e \in Emails, Activated(k, e),
           contract[k].status # "none"
    PROVE  \A l \in Contracts : KeepsDays(l)
<1>1. /\ contract'[k].status = "STARTED"
      /\ contract'[k].start = contract[k].start /\ contract'[k].next = contract[k].start
      /\ \A l \in Contracts : l # k => contract'[l] = contract[l]
  BY ActivatedAgrees
<1> QED
  BY <1>1 DEF KeepsDays

\* A request ends, and the payment of its contract may be added.
LEMMA EndsKeepsCalendar ==
    ASSUME FeeInv, StartInv, CalendarInv, NEW q \in Requests, request[q] # Idle, Ends(q),
           UNCHANGED <<today, paid, run, unasked>>, \A k \in Contracts : KeepsDays(k),
           \/ UNCHANGED initial
           \/ \E t \in Tries, row \in Row :
                 row.of = request[q].contract /\ initial' = [initial EXCEPT ![t] = row]
    PROVE  CalendarInv'
<1>1. \A p \in Requests : request'[p] # Idle =>
         request[p] # Idle /\ request'[p].contract = request[p].contract
  BY DEF Ends, StartInv, RequestsOK
<1>2. PICK k \in Contracts : k = request[q].contract /\ contract[k].status # "none"
  BY RequestCreated
<1>3. \A t \in Tries : initial'[t].row # "none" =>
         \/ initial[t].row # "none" /\ initial'[t].of = initial[t].of
         \/ \E l \in Contracts : initial'[t].of = l /\ contract[l].status # "none"
  <2>1. CASE UNCHANGED initial
    BY <2>1
  <2>2. ASSUME NEW t \in Tries, NEW row \in Row, row.of = k, initial' = [initial EXCEPT ![t] = row]
        PROVE  \A s \in Tries : s = t \/ initial'[s] = initial[s]
    BY <2>2 DEF StartInv, PaymentsOK
  <2>3. ASSUME NEW t \in Tries, NEW row \in Row, row.of = k, initial' = [initial EXCEPT ![t] = row]
        PROVE  initial'[t].of = k
    BY <2>3 DEF StartInv, PaymentsOK
  <2> QED
    BY <1>2, <2>1, <2>2, <2>3
<1> QED
  BY <1>1, <1>3, PaymentKeepsCalendar

LEMMA RequestedKeepsCalendar ==
    ASSUME FeeInv, StartInv, CalendarInv, NEW q \in Requests, Requested(q)
    PROVE  CalendarInv'
<1>0. Idle.pc = "idle"
  BY DEF Idle
<1>1. ASSUME NEW k \in Contracts, NEW e \in Emails, PayRead(q, k, e) PROVE CalendarInv'
  <2>1. UNCHANGED <<today, contract, paid, run, unasked, initial>>
    BY <1>1 DEF PayRead, fees, jobs
  <2>2. \A p \in Requests : request'[p] # Idle =>
           \/ request[p] # Idle /\ request'[p].contract = request[p].contract
           \/ \E l \in Contracts : request'[p].contract = l /\ contract[l].status # "none"
    <3>1. contract[k].status # "none"
      BY <1>1 DEF PayRead
    <3>2. request'[q].contract = k /\ \A p \in Requests : p # q => request'[p] = request[p]
      BY <1>1 DEF PayRead, StartInv, RequestsOK
    <3> QED
      BY <3>1, <3>2
  <2> QED
    BY <2>1, <2>2, PaymentKeepsCalendar DEF KeepsDays
<1>2. ASSUME NEW t \in Tries, CallbackRead(q, t) PROVE CalendarInv'
  <2>1. UNCHANGED <<today, contract, paid, run, unasked, initial>>
    BY <1>2 DEF CallbackRead, fees, jobs
  <2>2. PICK k \in Contracts : k = initial[t].of /\ contract[k].status # "none"
    BY <1>2 DEF CallbackRead, Finished, StartInv, PaymentsOK, CalendarInv, CreatedOK
  <2>3. request'[q].contract = k /\ \A p \in Requests : p # q => request'[p] = request[p]
    BY <1>2, <2>2 DEF CallbackRead, StartInv, RequestsOK
  <2>4. \A p \in Requests : request'[p] # Idle =>
           \/ request[p] # Idle /\ request'[p].contract = request[p].contract
           \/ \E l \in Contracts : request'[p].contract = l /\ contract[l].status # "none"
    BY <2>2, <2>3
  <2> QED
    BY <2>1, <2>4, PaymentKeepsCalendar DEF KeepsDays
<1>3. CASE PayCaptured(q)
  <2>1. request[q] # Idle /\ Ends(q) /\ UNCHANGED <<today, paid, run, unasked>>
    BY <1>0, <1>3 DEF PayCaptured, At, fees, jobs
  <2>2. PICK k \in Contracts, e \in Emails : k = request[q].contract /\ e = request[q].email
    BY <1>3, RequestAt DEF PayCaptured
  <2>3. \A l \in Contracts : KeepsDays(l)
    BY <1>3, <2>1, <2>2, RequestCreated, ActivatedKeepsDays DEF PayCaptured
  <2>4. \E t \in Tries, row \in Row :
           row.of = request[q].contract /\ initial' = [initial EXCEPT ![t] = row]
    <3>1. PICK t \in Tries :
             initial' = [initial EXCEPT ![t] = [of |-> k, row |-> "PAID", gmo |-> "captured"]]
      BY <1>3, <2>2 DEF PayCaptured, Fresh
    <3>2. [of |-> k, row |-> "PAID", gmo |-> "captured"] \in Row
      BY DEF Row
    <3> QED
      BY <2>2, <3>1, <3>2
  <2> QED
    BY <2>1, <2>3, <2>4, EndsKeepsCalendar
<1>4. CASE PayRedirected(q)
  <2>1. request[q] # Idle /\ Ends(q) /\ UNCHANGED <<today, paid, run, unasked>>
    BY <1>0, <1>4 DEF PayRedirected, At, fees, jobs
  <2>2. PICK k \in Contracts : k = request[q].contract
    BY <2>1, RequestCreated
  <2>3. \A l \in Contracts : KeepsDays(l)
    BY <1>4, <2>2 DEF PayRedirected, KeepsDays, StartInv, ContractsOK
  <2>4. \E t \in Tries, row \in Row :
           row.of = request[q].contract /\ initial' = [initial EXCEPT ![t] = row]
    <3>1. PICK t \in Tries :
             initial' = [initial EXCEPT ![t] = [of |-> k, row |-> "PENDING", gmo |-> "redirected"]]
      BY <1>4, <2>2 DEF PayRedirected, Fresh
    <3>2. [of |-> k, row |-> "PENDING", gmo |-> "redirected"] \in Row
      BY DEF Row
    <3> QED
      BY <2>2, <3>1, <3>2
  <2> QED
    BY <2>1, <2>3, <2>4, EndsKeepsCalendar
<1>5. CASE PayLost(q)
  <2>1. request[q] # Idle /\ Ends(q) /\ UNCHANGED <<today, paid, run, unasked, contract>>
    BY <1>0, <1>5 DEF PayLost, At, fees, jobs
  <2>2. PICK k \in Contracts : k = request[q].contract
    BY <2>1, RequestCreated
  <2>3. \E t \in Tries, row \in Row :
           row.of = request[q].contract /\ initial' = [initial EXCEPT ![t] = row]
    <3>1. PICK t \in Tries :
             initial' = [initial EXCEPT ![t] = [of |-> k, row |-> "none", gmo |-> "captured"]]
      BY <1>5, <2>2 DEF PayLost, Fresh
    <3>2. [of |-> k, row |-> "none", gmo |-> "captured"] \in Row
      BY DEF Row
    <3> QED
      BY <2>2, <3>1, <3>2
  <2> QED
    BY <2>1, <2>3, EndsKeepsCalendar DEF KeepsDays
<1>6. CASE CallbackWrite(q)
  <2>1. request[q] # Idle /\ UNCHANGED <<today, contract, paid, run, unasked>>
    BY <1>0, <1>6 DEF CallbackWrite, At, fees, jobs
  <2>2. \A p \in Requests : request'[p] # Idle =>
           request[p] # Idle /\ request'[p].contract = request[p].contract
    <3>1. /\ request'[q].contract = request[q].contract
          /\ \A p \in Requests : p # q => request'[p] = request[p]
      BY <1>6 DEF CallbackWrite, StartInv, RequestsOK
    <3> QED
      BY <2>1, <3>1
  <2>3. \A t \in Tries : initial'[t].row # "none" =>
           initial[t].row # "none" /\ initial'[t].of = initial[t].of
    <3>1. initial[request[q].try].row # "none" /\ request[q].try \in Tries
      BY <1>6, RequestAt DEF CallbackWrite, StartInv, RequestsOK, CallbackOK
    <3>2. /\ initial'[request[q].try].of = initial[request[q].try].of
          /\ \A t \in Tries : t # request[q].try => initial'[t] = initial[t]
      BY <1>6, <3>1 DEF CallbackWrite, StartInv, PaymentsOK, Row
    <3> QED
      BY <3>1, <3>2
  <2> QED
    BY <2>1, <2>2, <2>3, PaymentKeepsCalendar DEF KeepsDays
<1>7. CASE Activate(q)
  <2>1. request[q] # Idle /\ Ends(q) /\ UNCHANGED <<today, paid, run, unasked, initial>>
    BY <1>0, <1>7 DEF Activate, At, fees, jobs
  <2>2. PICK k \in Contracts : k = request[q].contract /\ PaidFor(k)
    BY <1>7, RequestAt DEF Activate, StartInv, RequestsOK, CallbackOK
  <2>3. contract[k].email \in Emails
    BY <2>2 DEF PaidFor, StartInv, PaymentsOK
  <2>4. \A l \in Contracts : KeepsDays(l)
    BY <1>7, <2>1, <2>2, <2>3, RequestCreated, ActivatedKeepsDays DEF Activate
  <2> QED
    BY <2>1, <2>4, EndsKeepsCalendar
<1>8. CASE RequestFails(q)
  <2>1. request[q] # Idle /\ Ends(q) /\ UNCHANGED <<today, paid, run, unasked, contract, initial>>
    BY <1>8 DEF RequestFails, fees, jobs
  <2> QED
    BY <2>1, EndsKeepsCalendar DEF KeepsDays
<1> QED
  BY <1>1, <1>2, <1>3, <1>4, <1>5, <1>6, <1>7, <1>8 DEF Requested

LEMMA CreateKeepsCalendar ==
    ASSUME FeeInv, StartInv, CalendarInv, NEW k \in Contracts, Create(k)
    PROVE  CalendarInv'
<1>1. PICK start \in Starts :
         contract' = [contract EXCEPT ![k].status = "NOT_STARTED", ![k].start = start]
  BY DEF Create
<1> DEFINE created == [contract EXCEPT ![k].status = "NOT_STARTED"]
<1>2. /\ created = [l \in Contracts |-> created[l]]
      /\ \A l \in Contracts : l # k => created[l] = contract[l]
      /\ created[k] = [status |-> "NOT_STARTED", start |-> contract[k].start,
                       next |-> contract[k].next, email |-> contract[k].email]
  BY DEF StartInv, ContractsOK
<1>3. contract' = [created EXCEPT ![k].start = start]
  BY <1>1
<1> HIDE DEF created
<1>4. /\ contract'[k].status = "NOT_STARTED" /\ contract'[k].start = start
      /\ contract'[k].next = contract[k].next
      /\ \A l \in Contracts : l # k => contract'[l] = contract[l]
  BY <1>2, <1>3
<1>5. /\ contract[k].status = "none" /\ UNCHANGED <<today, initial, paid, request, run, unasked>>
      /\ start \in Days
  BY CalendarType DEF Create, fees, jobs
<1>6. \A l \in Contracts : Started(l)' => Started(l) /\ l # k
  BY <1>4, <1>5 DEF Started
<1>7. DaysOK'
  BY <1>4, <1>5, <1>6 DEF CalendarInv, DaysOK, Started
<1>8. MonthsOK'
  <2>1. \A r \in Runs : run[r] # Idle =>
           /\ run[r].todo \subseteq Contracts
           /\ run[r].pc # "next" => run[r].contract \in Contracts
    BY DEF FeeInv, RunStates
  <2>2. \A l \in Contracts : Begun(l) => contract'[l] = contract[l]
    BY <1>4, <1>5 DEF Begun, Started
  <2> QED
    BY <1>5, <2>1, <2>2 DEF CalendarInv, MonthsOK, Known, Begun, Started
<1>9. CreatedOK'
  <2>1. \A q \in Requests : request[q] # Idle => request[q].contract \in Contracts
    BY DEF StartInv, RequestsOK, RequestStates
  <2>2. \A t \in Tries : initial[t].row # "none" => initial[t].of \in Contracts
    BY DEF StartInv, PaymentsOK
  <2> QED
    BY <1>4, <1>5, <2>1, <2>2 DEF CalendarInv, CreatedOK
<1>10. NoMonthIsForgotten'
  <2>1. ASSUME NEW l \in Contracts, Started(l)' PROVE Awaits(l)'
    <3>1. contract'[l] = contract[l] /\ Started(l)
      BY <1>4, <1>6, <2>1
    <3>2. Awaits(l) /\ KeepsDays(l) /\ (contract[l].status # "none" => contract[l].start \in Days)
      BY <3>1, EachAwaits DEF CalendarInv, DaysOK, KeepsDays
    <3> QED
      BY <1>5, <3>2, AwaitsStays DEF CalendarInv
  <2> QED
    BY <2>1 DEF NoMonthIsForgotten, Awaits, Started
<1> QED
  BY <1>5, <1>7, <1>8, <1>9, <1>10 DEF CalendarInv, UnaskedOK

LEMMA FinishesKeepsCalendar ==
    ASSUME FeeInv, StartInv, CalendarInv, NEW t \in Tries, CustomerFinishes(t)
    PROVE  CalendarInv'
<1>1. UNCHANGED <<today, contract, request, paid, run, unasked>>
  BY DEF CustomerFinishes, fees, jobs
<1>2. \A s \in Tries : initial'[s].row = initial[s].row /\ initial'[s].of = initial[s].of
  BY DEF CustomerFinishes, StartInv, PaymentsOK, Row
<1> QED
  BY <1>1, <1>2, PaymentKeepsCalendar DEF KeepsDays

LEMMA TickKeepsCalendar ==
    ASSUME FeeInv, StartInv, CalendarInv, Tick
    PROVE  CalendarInv'
<1>1. /\ today' = today + 1 /\ today < LastDay
      /\ UNCHANGED <<contract, initial, paid, request, run, unasked>>
  BY DEF Tick, fees
<1>2. today \in Days /\ today \in Nat /\ today + 1 \in Days /\ FirstDay[1] \in Nat
  BY <1>1, CalendarType DEF CalendarInv, Days
<1> DEFINE M == MonthOf(today)
           N == MonthOf(today + 1)
<1>3. /\ M \in Nat /\ N \in Nat /\ M <= N
      /\ N = M \/ (N = M + 1 /\ FirstDay[M + 1] = today + 1)
      /\ M + 1 \in Months /\ M + 2 \in Months
  <2>1. M \in Nat /\ N \in Nat /\ M + 1 \in Months /\ M + 2 \in Months
    BY <1>2, MonthIs
  <2>2. N = M \/ (N = M + 1 /\ FirstDay[M + 1] = today + 1)
    BY <1>2, NextDay
  <2> QED
    BY <2>1, <2>2
<1> HIDE DEF M, N
<1>4. DaysOK'
  <2>1. ASSUME NEW k \in Contracts, Started(k), contract[k].start > today + 1
        PROVE  contract[k].start > today
    <3>1. contract[k].start \in Days
      BY <2>1 DEF CalendarInv, DaysOK, Started
    <3>2. PICK d \in Nat : d = contract[k].start
      BY <3>1, CalendarType
    <3> QED
      BY <1>2, <2>1, <3>2
  <2> QED
    BY <1>1, <2>1 DEF CalendarInv, DaysOK, Started
<1>5. \A k \in Contracts : Begun(k) => Begun(k)'
  <2>1. \A k \in Contracts : Started(k) => contract[k].start \in Nat
    BY CalendarType DEF CalendarInv, DaysOK, Started
  <2> QED
    BY <1>1, <1>2, <2>1 DEF Begun, Started
<1>6. MonthsOK'
  <2>1. \A r \in Runs : run[r] # Idle =>
           /\ run[r].todo \subseteq Contracts
           /\ run[r].pc # "next" => run[r].contract \in Contracts /\ Known(run[r]) \subseteq Int
    BY CalendarType DEF FeeInv, RunStates, Known
  <2>2. \A k \in Contracts : paid[k] \cup unasked[k] \subseteq Int
    BY CalendarType DEF FeeInv, CalendarInv, UnaskedOK
  <2>3. \A m \in Int : m <= M => m <= N
    BY <1>3
  <2>4. \A k \in Contracts : \A m \in paid[k] \cup unasked[k] : m <= N
    BY <2>2, <2>3 DEF CalendarInv, MonthsOK, M
  <2>5. ASSUME NEW r \in Runs, run[r] # Idle PROVE \A k \in run[r].todo : Begun(k)'
    BY <1>5, <2>1, <2>5 DEF CalendarInv, MonthsOK
  <2>6. ASSUME NEW r \in Runs, run[r] # Idle, run[r].pc # "next"
        PROVE  Begun(run[r].contract)' /\ \A m \in Known(run[r]) : m <= N
    <3>1. PICK k \in Contracts : k = run[r].contract /\ Begun(k)
      BY <2>1, <2>6 DEF CalendarInv, MonthsOK
    <3>2. Begun(k)'
      BY <1>5, <3>1
    <3>3. \A m \in Known(run[r]) : m <= N
      BY <2>1, <2>3, <2>6 DEF CalendarInv, MonthsOK, M
    <3> QED
      BY <1>1, <3>1, <3>2, <3>3
  <2> QED
    BY <1>1, <2>4, <2>5, <2>6 DEF MonthsOK, Known, N
<1>7. CreatedOK'
  BY <1>1 DEF CalendarInv, CreatedOK
<1>8. NoMonthIsForgotten'
  <2> SUFFICES ASSUME NEW k \in Contracts, Started(k), contract[k].next >= today + 1,
                      NEW m \in MonthOf(contract[k].start)..N + 1,
                      m \notin paid[k] \cup unasked[k], FitsUntil(k, m)
               PROVE  contract[k].next <= Due(k, m) \/ contract[k].next <= today + 2
    BY <1>1, <1>2 DEF NoMonthIsForgotten, Started, FitsUntil, Due, N
  <2>1. /\ contract[k].start \in Days /\ contract[k].start \in Nat /\ contract[k].next \in Nat
        /\ contract[k].start > today => contract[k].next = contract[k].start
    BY CalendarType DEF CalendarInv, DaysOK, Started
  <2>2. PICK first \in Months : first = MonthOf(contract[k].start) /\ FirstDay[first] <= contract[k].start
    BY <2>1, MonthIs
  <2>3. first \in Nat /\ m \in Nat /\ m \in Months /\ first <= m
    BY <1>3, <2>2, CalendarType
  <2>4. Due(k, m) \in Nat
    BY <2>1, <2>2, <2>3, DueFromStart
  <2>5. CASE m <= M + 1
    <3>1. contract[k].next >= today /\ m \in first..M + 1
      BY <1>2, <1>3, <2>1, <2>3, <2>5
    <3>2. contract[k].next <= Due(k, m) \/ contract[k].next <= today + 1
      BY <2>2, <3>1 DEF CalendarInv, NoMonthIsForgotten, Started, M
    <3> QED
      BY <1>2, <2>1, <2>4, <3>2
  <2>6. CASE m > M + 1
    <3>1. m = M + 2 /\ FirstDay[M + 1] = today + 1
      BY <1>3, <2>3, <2>6
    <3>2. CASE first = m
      <4>1. /\ FirstDay[M + 1] \in Nat /\ FirstDay[m] \in Nat /\ FirstDay[M + 1] < FirstDay[m]
        BY <1>3, <2>3, <3>1, CalendarGrows, CalendarType
      <4>2. contract[k].start > today
        BY <1>2, <2>1, <2>2, <3>1, <3>2, <4>1
      <4> QED
        BY <2>1, <2>2, <2>3, <4>2, DueFromStart
    <3>3. CASE first <= M + 1
      <4>1. M + 1 \notin paid[k] \cup unasked[k]
        <5>1. M + 1 \in paid[k] \cup unasked[k] => M + 1 <= M
          BY DEF CalendarInv, MonthsOK, M
        <5> QED
          BY <1>3, <5>1
      <4>2. FitsUntil(k, M + 1)
        <5>1. first..(M + 1) \subseteq first..m
          BY <1>3, <2>3, <3>1
        <5> QED
          BY <2>2, <5>1 DEF FitsUntil
      <4>3. M + 1 \in first..M + 1 /\ contract[k].next >= today
        BY <1>2, <1>3, <2>1, <2>3, <3>3
      <4>4. contract[k].next <= Due(k, M + 1) \/ contract[k].next <= today + 1
        BY <2>2, <4>1, <4>2, <4>3 DEF CalendarInv, NoMonthIsForgotten, Started, M
      <4>5. Due(k, M + 1) <= Due(k, m) /\ Due(k, M + 1) \in Nat
        <5>1. /\ FirstDay[M + 1] \in Nat /\ FirstDay[m] \in Nat /\ FirstDay[M + 1] < FirstDay[m]
          BY <1>3, <2>3, <3>1, CalendarGrows, CalendarType
        <5>2. FirstDay[first] \in Nat
          BY CalendarType
        <5>3. /\ Due(k, M + 1) = FirstDay[M + 1] + (contract[k].start - FirstDay[first])
              /\ Due(k, m) = FirstDay[m] + (contract[k].start - FirstDay[first])
          BY <2>2 DEF Due, DayOfMonth
        <5> QED
          BY <2>1, <2>2, <5>1, <5>2, <5>3
      <4> QED
        BY <1>2, <2>1, <2>4, <4>4, <4>5
    <3> QED
      BY <1>3, <2>3, <3>1, <3>2, <3>3
  <2> QED
    BY <1>3, <2>3, <2>5, <2>6
<1> QED
  BY <1>1, <1>2, <1>4, <1>6, <1>7, <1>8 DEF CalendarInv, UnaskedOK

\* The job, when it does not move the day of a payment.
LEMMA RunKeepsCalendar ==
    ASSUME FeeInv, CalendarInv, NEW r \in Runs, NEW state, run' = [run EXCEPT ![r] = state],
           UNCHANGED <<today, contract, initial, request, unasked>>,
           \A k \in Contracts : paid[k] \subseteq paid'[k],
           \A k \in Contracts : \A m \in paid'[k] : m <= MonthOf(today),
           state # Idle =>
              /\ \A k \in state.todo : Begun(k)
              /\ state.pc # "next" =>
                    Begun(state.contract) /\ \A m \in Known(state) : m <= MonthOf(today)
    PROVE  CalendarInv'
<1>1. run'[r] = state /\ \A s \in Runs : s # r => run'[s] = run[s]
  BY DEF FeeInv
<1>2. MonthsOK'
  BY <1>1 DEF CalendarInv, MonthsOK, Known, Begun, Started
<1>3. NoMonthIsForgotten'
  <2>1. ASSUME NEW k \in Contracts PROVE Awaits(k)'
    BY EachAwaits, AwaitsStays DEF KeepsDays, CalendarInv, DaysOK
  <2> QED
    BY <2>1 DEF NoMonthIsForgotten, Awaits, Started
<1> QED
  BY <1>2, <1>3 DEF CalendarInv, UnaskedOK, DaysOK, CreatedOK, Started

\* The day of the next payment, for a contract that has begun, and the month it is due.
LEMMA NextMonthlyIs ==
    ASSUME NEW k \in Contracts, today \in Days, contract[k].start \in Days
    PROVE  /\ NextMonthly(k) \in Nat
           /\ MonthOf(today) + 1 \in Months
           /\ DayOfMonth(contract[k].start) < Length(MonthOf(today) + 1)
                 => NextMonthly(k) = Due(k, MonthOf(today) + 1)
<1>1. PICK n \in Months : n = MonthOf(today) + 1 /\ n \in Nat /\ n + 2 \in Months
  <2>1. PICK m \in Months : m = MonthOf(today) /\ m \in Nat /\ m + 1 \in Months /\ m + 3 \in Months
    BY MonthIs
  <2>2. (m + 1) + 2 = m + 3 /\ m + 1 \in Nat
    BY <2>1
  <2> QED
    BY <2>1, <2>2
<1>2. PICK day \in Nat : day = DayOfMonth(contract[k].start)
  <2>1. /\ MonthOf(contract[k].start) \in Months
        /\ FirstDay[MonthOf(contract[k].start)] <= contract[k].start
    BY MonthIs
  <2>2. FirstDay[MonthOf(contract[k].start)] \in Nat /\ contract[k].start \in Nat
    BY <2>1, CalendarType
  <2> QED
    BY <2>1, <2>2 DEF DayOfMonth
<1>3. FirstDay[n] \in Nat /\ FirstDay[n + 2] \in Nat
  BY <1>1, CalendarType
<1>4. NextMonthly(k) = IF day < Length(n) THEN FirstDay[n] + day ELSE FirstDay[n + 2]
  BY <1>1, <1>2 DEF NextMonthly
<1>5. Due(k, n) = FirstDay[n] + day
  BY <1>2 DEF Due
<1> QED
  BY <1>1, <1>2, <1>3, <1>4, <1>5

LEMMA SetNextKeepsCalendar ==
    ASSUME FeeInv, StartInv, CalendarInv, NEW r \in Runs, SetNext(r)
    PROVE  CalendarInv'
<1>0. run[r] # Idle /\ run[r].pc = "set"
  BY DEF SetNext, Idle
<1>1. PICK k \in Contracts, now \in Months : k = run[r].contract /\ now = run[r].now
  BY <1>0 DEF FeeInv, RunStates
<1>2. /\ Begun(k) /\ (\A l \in run[r].todo : Begun(l)) /\ run[r].todo \subseteq Contracts
      /\ now <= MonthOf(today)
  BY <1>0, <1>1 DEF CalendarInv, MonthsOK, FeeInv, RunStates, Known
<1> DEFINE next == NextPayment(k, now)
           between == IF UnpaidMonths(k, now) = {} THEN (now + 1)..MonthOf(today) ELSE {}
<1>3. /\ contract' = [contract EXCEPT ![k].next = next]
      /\ unasked' = [unasked EXCEPT ![k] = between]
      /\ run' = [run EXCEPT ![r] = [pc |-> "next", todo |-> run[r].todo]]
      /\ UNCHANGED <<today, initial, request, paid>>
  BY <1>1 DEF SetNext, fees
<1>4. /\ contract'[k].next = next /\ contract'[k].start = contract[k].start
      /\ contract'[k].status = contract[k].status
      /\ \A l \in Contracts : l # k => contract'[l] = contract[l]
  BY <1>3 DEF StartInv, ContractsOK
<1>5. /\ today \in Days /\ today \in Nat
      /\ contract[k].start \in Days /\ contract[k].start \in Nat
      /\ contract[k].start <= today
  BY <1>2, CalendarType DEF CalendarInv, DaysOK, Begun, Started
<1>6. next \in Nat
  BY <1>5, NextMonthlyIs DEF NextPayment
<1>12. /\ UnaskedOK' /\ unasked'[k] = between
       /\ \A l \in Contracts : l # k => unasked'[l] = unasked[l]
  <2>1. between \in SUBSET Int
    OBVIOUS
  <2> HIDE DEF between
  <2> QED
    BY <1>3, <2>1 DEF CalendarInv, UnaskedOK
<1>13. \A l \in Contracts : \A m \in paid'[l] \cup unasked'[l] : m <= MonthOf(today)
  <2>1. MonthOf(today) \in Nat /\ \A m \in between : m <= MonthOf(today)
    BY <1>5, MonthIs
  <2> HIDE DEF between
  <2> QED
    BY <1>3, <1>12, <2>1 DEF CalendarInv, MonthsOK
<1> HIDE DEF next, between
<1>7. \A l \in Contracts : contract'[l].start = contract[l].start /\ contract'[l].status = contract[l].status
  BY <1>4
<1>8. DaysOK'
  <2>1. ASSUME NEW l \in Contracts, l # k
        PROVE  /\ contract'[l].next \in Nat
               /\ contract'[l].status # "none" => contract'[l].start \in Days
               /\ Started(l)' /\ contract'[l].start > today => contract'[l].next = contract'[l].start
    BY <1>4, <2>1 DEF CalendarInv, DaysOK, Started
  <2> QED
    BY <1>3, <1>4, <1>5, <1>6, <2>1 DEF DaysOK
<1>9. CreatedOK'
  <2>1. \A q \in Requests : request[q] # Idle => request[q].contract \in Contracts
    BY DEF StartInv, RequestsOK, RequestStates
  <2>2. \A t \in Tries : initial[t].row # "none" => initial[t].of \in Contracts
    BY DEF StartInv, PaymentsOK
  <2> QED
    BY <1>3, <1>7, <2>1, <2>2 DEF CalendarInv, CreatedOK
<1>10. MonthsOK'
  <2>1. \A s \in Runs : run[s] # Idle =>
           /\ run[s].todo \subseteq Contracts
           /\ run[s].pc # "next" => run[s].contract \in Contracts
    BY DEF FeeInv, RunStates
  <2>2. \A l \in Contracts : Begun(l) => Begun(l)'
    BY <1>3, <1>7 DEF Begun, Started
  <2>3. run'[r] = [pc |-> "next", todo |-> run[r].todo] /\ \A s \in Runs : s # r => run'[s] = run[s]
    BY <1>3 DEF FeeInv
  <2>4. ASSUME NEW s \in Runs, run'[s] # Idle PROVE \A l \in run'[s].todo : Begun(l)'
    <3>1. CASE s = r
      BY <1>2, <2>2, <2>3, <3>1
    <3>2. CASE s # r
      BY <2>1, <2>2, <2>3, <2>4, <3>2 DEF CalendarInv, MonthsOK
    <3> QED
      BY <3>1, <3>2
  <2>5. ASSUME NEW s \in Runs, run'[s] # Idle, run'[s].pc # "next"
        PROVE  (Begun(run[s].contract) /\ \A m \in Known(run[s]) : m <= MonthOf(today))'
    <3>1. s # r /\ run'[s] = run[s]
      BY <2>3, <2>5
    <3>2. PICK l \in Contracts : l = run[s].contract /\ Begun(l)
      BY <2>1, <2>5, <3>1 DEF CalendarInv, MonthsOK
    <3>3. Begun(l)'
      BY <2>2, <3>2
    <3>4. \A m \in Known(run[s]) : m <= MonthOf(today)
      BY <2>5, <3>1 DEF CalendarInv, MonthsOK
    <3> QED
      BY <1>3, <3>1, <3>2, <3>3, <3>4 DEF Known
  <2> QED
    BY <1>3, <1>13, <2>4, <2>5 DEF MonthsOK
<1>11. NoMonthIsForgotten'
  <2>1. ASSUME NEW l \in Contracts, l # k PROVE Awaits(l)'
    <3>1. KeepsDays(l) /\ Awaits(l) /\ (contract[l].status # "none" => contract[l].start \in Days)
      BY <1>4, <2>1, EachAwaits DEF KeepsDays, CalendarInv, DaysOK
    <3> QED
      BY <1>3, <1>5, <1>12, <2>1, <3>1, AwaitsStays
  <2>2. Awaits(k)'
    <3> SUFFICES ASSUME NEW m \in MonthOf(contract[k].start)..MonthOf(today) + 1,
                        m \notin paid[k], m \notin between, FitsUntil(k, m)
                 PROVE  next <= Due(k, m) \/ next <= today + 1
      BY <1>3, <1>4, <1>12 DEF Awaits, FitsUntil, Due
    <3>1. CASE UnpaidMonths(k, now) # {}
      BY <1>5, <3>1 DEF next, NextPayment
    <3>2. CASE UnpaidMonths(k, now) = {}
      <4>1. PICK first \in Nat, last \in Nat :
               /\ first = MonthOf(contract[k].start) /\ last = MonthOf(today) /\ first <= last
               /\ first >= 1 /\ last + 1 \in Months
        BY <1>5, MonthIs, MonthsInOrder
      <4>2. m \in Nat /\ first <= m /\ m <= last + 1
        BY <4>1
      <4>3. m \in Months
        BY <4>1, <4>2, CalendarType
      <4>4. ~(m <= last)
        <5>1. now \in Nat
          BY CalendarType
        <5>2. ~(m <= now)
          BY <3>2, <4>1, <4>2, <4>3 DEF UnpaidMonths
        <5>3. ~(m \in (now + 1)..last)
          BY <3>2, <4>1 DEF between
        <5> QED
          BY <4>1, <4>2, <5>1, <5>2, <5>3
      <4>5. m = last + 1
        BY <4>1, <4>2, <4>4
      <4>6. DayOfMonth(contract[k].start) < Length(m)
        BY <4>1, <4>2 DEF FitsUntil
      <4>7. next = Due(k, m)
        BY <1>5, <3>2, <4>1, <4>5, <4>6, NextMonthlyIs DEF next, NextPayment
      <4> QED
        BY <1>6, <4>7
    <3> QED
      BY <3>1, <3>2
  <2> QED
    BY <2>1, <2>2 DEF NoMonthIsForgotten, Awaits, Started
<1> QED
  BY <1>3, <1>5, <1>8, <1>9, <1>10, <1>11, <1>12 DEF CalendarInv

LEMMA JobKeepsCalendar ==
    ASSUME FeeInv, StartInv, CalendarInv, NEW r \in Runs, Working(r)
    PROVE  CalendarInv'
<1>0. /\ Idle.pc = "idle" /\ \A k \in Contracts : paid[k] \subseteq Months
      /\ \A k \in Contracts : \A m \in paid[k] : m <= MonthOf(today)
  BY DEF Idle, FeeInv, CalendarInv, MonthsOK
<1>1. CASE Start(r)
  <2> DEFINE state == [pc |-> "next", todo |-> Targets]
  <2>1. run' = [run EXCEPT ![r] = state] /\ UNCHANGED <<today, contract, initial, request, paid, unasked>>
    BY <1>1 DEF Start, fees
  <2>2. state.pc = "next" /\ \A k \in state.todo : Begun(k)
    BY DEF Targets, Begun, Started
  <2> HIDE DEF state
  <2> QED
    BY <1>0, <2>1, <2>2, RunKeepsCalendar
<1>2. ASSUME NEW k \in Contracts, Take(r, k) PROVE CalendarInv'
  <2> DEFINE state == [pc |-> "pay", todo |-> run[r].todo \ {k},
                       contract |-> k, months |-> UnpaidMonths(k, MonthOf(today))]
  <2>1. run' = [run EXCEPT ![r] = state] /\ UNCHANGED <<today, contract, initial, request, paid, unasked>>
    BY <1>2 DEF Take, fees
  <2>2. run[r] # Idle /\ k \in run[r].todo
    BY <1>0, <1>2 DEF Take
  <2>3. /\ \A l \in state.todo : Begun(l)
        /\ Begun(state.contract) /\ \A m \in Known(state) : m <= MonthOf(today)
    BY <2>2 DEF CalendarInv, MonthsOK, UnpaidMonths, Known
  <2> HIDE DEF state
  <2> QED
    BY <1>0, <2>1, <2>3, RunKeepsCalendar
<1>3. ASSUME NEW k \in Contracts, NEW m \in Months, FeeCaptured(r, k, m) \/ FeePending(r, k, m)
      PROVE  CalendarInv'
  <2> DEFINE state == [run[r] EXCEPT !.months = @ \ {m}]
  <2>1. run[r] # Idle /\ run[r].pc = "pay" /\ k = run[r].contract /\ m \in run[r].months
    BY <1>0, <1>3 DEF FeeCaptured, FeePending, Charges
  <2>2. run' = [run EXCEPT ![r] = state] /\ UNCHANGED <<today, contract, initial, request, unasked>>
    BY <1>3 DEF FeeCaptured, FeePending, fees
  <2>3. /\ \A l \in run[r].todo : Begun(l)
        /\ Begun(run[r].contract) /\ \A n \in run[r].months : n <= MonthOf(today)
    BY <2>1 DEF CalendarInv, MonthsOK, Known
  <2>4. /\ state.todo = run[r].todo /\ state.contract = run[r].contract
        /\ state.months = run[r].months \ {m} /\ state.pc = "pay"
    BY <2>1 DEF FeeInv, RunStates, Idle
  <2>5. ASSUME NEW l \in Contracts
        PROVE  paid'[l] = paid[l] \/ paid'[l] = paid[l] \cup {m}
    BY <1>3 DEF FeeCaptured, FeePending, FeeInv, fees
  <2>6. /\ \A l \in Contracts : paid[l] \subseteq paid'[l]
        /\ \A l \in Contracts : \A n \in paid'[l] : n <= MonthOf(today)
    BY <1>0, <2>1, <2>3, <2>5
  <2> HIDE DEF state
  <2>7. /\ \A l \in state.todo : Begun(l)
        /\ Begun(state.contract) /\ \A n \in Known(state) : n <= MonthOf(today)
    BY <2>3, <2>4 DEF Known
  <2> QED
    BY <2>2, <2>6, <2>7, RunKeepsCalendar
<1>4. ASSUME \/ \E k \in Contracts, m \in Months : FeeLost(r, k, m)
             \/ Done(r) \/ RunFails(r)
      PROVE  CalendarInv'
  <2>1. run' = [run EXCEPT ![r] = Idle] /\ UNCHANGED <<today, contract, initial, request, paid, unasked>>
    BY <1>4 DEF FeeLost, Done, RunFails, fees
  <2> QED
    BY <1>0, <2>1, RunKeepsCalendar
<1>5. CASE CheckNext(r)
  <2> DEFINE state == [pc |-> "set", todo |-> run[r].todo,
                       contract |-> run[r].contract, now |-> MonthOf(today)]
  <2>1. run' = [run EXCEPT ![r] = state] /\ UNCHANGED <<today, contract, initial, request, paid, unasked>>
    BY <1>5 DEF CheckNext, fees
  <2>2. run[r] # Idle /\ run[r].pc = "pay"
    BY <1>0, <1>5 DEF CheckNext
  <2>3. (\A l \in state.todo : Begun(l)) /\ Begun(state.contract)
    BY <2>2 DEF CalendarInv, MonthsOK
  <2>4. \A n \in Known(state) : n <= MonthOf(today)
    BY MonthIs DEF Known, CalendarInv
  <2> HIDE DEF state
  <2> QED
    BY <1>0, <2>1, <2>3, <2>4, RunKeepsCalendar
<1> QED
  BY <1>1, <1>2, <1>3, <1>4, <1>5, SetNextKeepsCalendar DEF Working

LEMMA CalendarStep == FeeInv /\ StartInv /\ CalendarInv /\ [Next]_vars => CalendarInv'
<1> SUFFICES ASSUME FeeInv, StartInv, CalendarInv, [Next]_vars PROVE CalendarInv'
  OBVIOUS
<1>1. CASE UNCHANGED vars
  BY <1>1, PaymentKeepsCalendar DEF vars, KeepsDays
<1> QED
  BY <1>1, TickKeepsCalendar, CreateKeepsCalendar, FinishesKeepsCalendar,
     RequestedKeepsCalendar, JobKeepsCalendar DEF Next

\* A started contract's next payment is never later than the day on which the first month
\* that is not paid is due, or tomorrow: for every calendar, whatever fails, is rolled back
\* or crosses, until a month is too short or the day of the payment has passed, and but for
\* months that began while the day was worked out.
THEOREM NoMonthIsPassedOver == Spec => []NoMonthIsForgotten
<1>1. CalendarInv => NoMonthIsForgotten
  BY DEF CalendarInv
<1> QED
  BY <1>1, TodayInit, TodayStep, FeeInit, FeeStep, StartInit, StartStep, CalendarInit, CalendarStep,
     PTL DEF Spec

=============================================================================

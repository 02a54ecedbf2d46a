------------------------- MODULE AdvertiserAccount -------------------------
(***************************************************************************)
(* How an advertiser's account is funded and its campaigns launched: the   *)
(* Stripe webhook, POST /deposit and POST /campaigns (routes/advertiser.py *)
(* and, for operators, routes/admin.py), one action per statement, each    *)
(* request in a READ COMMITTED transaction of its own.                     *)
(*                                                                         *)
(* Stripe is external: it reports a completed checkout, and reports it     *)
(* again as long as it has no 2xx answer, and now and then after one.  It  *)
(* may give up waiting for an answer while the handler still runs, so two  *)
(* deliveries of one checkout can overlap.                                 *)
(*                                                                         *)
(* get_session commits after the handler returns.  Whether that is before  *)
(* or after the answer is sent depends on the FastAPI release the build    *)
(* picks up (pyproject.toml asks for >= 0.115), so both are modelled.      *)
(***************************************************************************)
EXTENDS Integers, FiniteSets, Functions

CONSTANTS
    Orgs,          \* advertiser organizations
    Opening,       \* the balance one is created with: 0 but where an operator gives it one
    Checkouts,     \* Stripe Checkout sessions
    OrgOf,         \* metadata.org_id of a checkout
    Amount,        \* amount_total of a checkout
    Delayed,       \* checkouts that complete with payment_status # "paid"
    Deliveries,    \* webhook requests that can be in flight
    Topups,        \* POST /deposit requests, which credit money nobody paid
    TopupOf,       \* their organization
    TopupAmount,   \* body.amount_cents
    Creations,     \* POST /campaigns requests
    ByAdmin,       \* those of an operator, to the admin API
    CreatorOf,     \* the organization of a creation
    CodeOf,        \* body.campaign_id
    Budget,        \* body.budget_total_cents
    StripeKey,     \* settings.stripe_secret_key is set
    MaxDuplicates, \* bound on deliveries after an answer
    MaxLosses,     \* bound on requests or answers that are lost
    None

ASSUME AccountsAssumption ==
    /\ Opening \in [Orgs -> Nat]
    /\ IsFiniteSet(Checkouts) /\ OrgOf \in [Checkouts -> Orgs]
    /\ Amount \in [Checkouts -> Nat \ {0}]
    /\ Delayed \subseteq Checkouts
    /\ IsFiniteSet(Topups) /\ TopupOf \in [Topups -> Orgs]
    /\ TopupAmount \in [Topups -> Nat \ {0}]
    /\ ByAdmin \subseteq Creations
    /\ CreatorOf \in [Creations -> Orgs]
    /\ Budget \in [Creations -> Nat \ {0}]
    /\ StripeKey \in BOOLEAN
    /\ MaxDuplicates \in Nat /\ MaxLosses \in Nat
    /\ None \notin Checkouts

VARIABLES
    balance,       \* organizations.balance_cents
    credits,       \* advertiser_deposit rows that refer to a checkout
    mocked,        \* deposits that are committed, with their row
    campaign,      \* the campaign a creation inserted
    hook,          \* a webhook request: its checkout, stage and locals
    topup,         \* a deposit: its stage and locals
    creation,      \* a creation: its stage and locals
    completed,     \* checkouts Stripe has completed
    answered,      \* checkouts whose event Stripe has a 2xx for
    duplicates, losses,
    contended,     \* history: checkouts whose deliveries overlapped, and organizations
                   \* where deliveries or deposits did
    met,           \* history: other creations of the organization, open when one began
    commitFirst    \* the build: does the session commit before the answer is sent?

database == <<balance, credits, mocked, campaign>>
requests == <<hook, topup, creation>>
stripe   == <<completed, answered, duplicates, losses>>
history  == <<contended, met>>
vars == <<database, requests, stripe, history, commitFirst>>

\* "answer": only the answer is left to send; "told": only the commit is left.
Stages == {"free", "arrived", "missing", "found", "answer", "told"}
Free == [stage |-> "free", checkout |-> None, seen |-> 0]

\* What a deposit and a creation hold before they begin and once they have ended.
Unread(stage)   == [stage |-> stage, seen |-> 0]
Uncounted(stage) == [stage |-> stage, seen |-> 0, promo |-> FALSE]

TypeOK ==
    /\ balance \in [Orgs -> Nat]
    /\ credits \in [Checkouts -> Nat]
    /\ mocked \subseteq Topups
    /\ campaign \in [Creations -> {"none", "promo", "paid"}]
    /\ hook \in [Deliveries -> [stage : Stages, checkout : Checkouts \cup {None}, seen : Nat]]
    /\ topup \in [Topups -> [stage : {"new", "read", "closed"}, seen : Nat]]
    /\ creation \in [Creations ->
          [stage : {"new", "read", "allowed", "closed"}, seen : Nat, promo : BOOLEAN]]
    /\ completed \subseteq Checkouts
    /\ answered \subseteq completed
    /\ duplicates \in 0..MaxDuplicates
    /\ losses \in 0..MaxLosses
    /\ contended \subseteq Checkouts \cup Orgs
    /\ met \in [Creations -> SUBSET Creations]
    /\ commitFirst \in BOOLEAN

Init ==
    /\ balance = Opening
    /\ credits = [s \in Checkouts |-> 0]
    /\ mocked = {}
    /\ campaign = [k \in Creations |-> "none"]
    /\ hook = [d \in Deliveries |-> Free]
    /\ topup = [t \in Topups |-> Unread("new")]
    /\ creation = [k \in Creations |-> Uncounted("new")]
    /\ completed = {} /\ answered = {}
    /\ duplicates = 0 /\ losses = 0
    /\ contended = {} /\ met = [k \in Creations |-> {}]
    /\ commitFirst \in BOOLEAN

----------------------------------------------------------------------------
(* Stripe, as the webhook handler relies on it.                            *)

Busy(d) == hook[d].stage # "free"
Creating(k) == creation[k].stage \in {"read", "allowed"}

\* A new delivery or deposit of organization o overlaps one that may write its balance.
OverlapsOrg(o) ==
    \/ \E d \in Deliveries : Busy(d) /\ OrgOf[hook[d].checkout] = o
    \/ \E t \in Topups : topup[t].stage = "read" /\ TopupOf[t] = o

Complete(s) ==
    /\ s \notin completed
    /\ completed' = completed \cup {s}
    /\ UNCHANGED <<database, requests, answered, duplicates, losses, history, commitFirst>>

\* One delivery of checkout.session.completed: a retry while no 2xx came back,
\* or a duplicate.
Send(d, s) ==
    /\ ~Busy(d)
    /\ s \in completed
    /\ IF s \in answered
       THEN duplicates < MaxDuplicates /\ duplicates' = duplicates + 1
       ELSE UNCHANGED duplicates
    /\ hook' = [hook EXCEPT ![d] = [Free EXCEPT !.stage = "arrived", !.checkout = s]]
    /\ contended' = contended
          \cup {x \in {s} : \E c \in Deliveries : Busy(c) /\ hook[c].checkout = s}
          \cup {o \in {OrgOf[s]} : OverlapsOrg(o)}
    /\ UNCHANGED <<database, topup, creation, completed, answered, losses, met, commitFirst>>

\* The connection or the process is lost, or Stripe never sees the answer.
Lose(d) ==
    /\ Busy(d)
    /\ losses < MaxLosses
    /\ losses' = losses + 1
    /\ hook' = [hook EXCEPT ![d] = Free]
    /\ UNCHANGED <<database, topup, creation, completed, answered, duplicates, history, commitFirst>>

----------------------------------------------------------------------------
(* POST /stripe/webhook.                                                   *)

Creditable(s) == s \notin Delayed

\* Mutant of Known: the look-up of an earlier credit is dropped.
NeverKnown(s) == FALSE

\* Mutant of Known: deliveries being handled are remembered as well, to keep
\* them from overlapping.
KnownInMemory(s) ==
    \/ credits[s] > 0
    \/ \E d \in Deliveries : hook[d].checkout = s /\ hook[d].stage \in {"missing", "found"}

Known(s) == credits[s] > 0

\* The handler looks for a row of this checkout; with two of them
\* scalar_one_or_none() raises and the request ends in a 500.
Look(d) ==
    LET s == hook[d].checkout
    IN  /\ hook[d].stage = "arrived"
        /\ hook' = [hook EXCEPT ![d] =
              IF ~Creditable(s) THEN [@ EXCEPT !.stage = "answer"]
              ELSE IF credits[s] > 1 THEN Free
              ELSE [@ EXCEPT !.stage = IF Known(s) THEN "answer" ELSE "missing"]]
        /\ UNCHANGED <<database, topup, creation, stripe, history, commitFirst>>

ReadOrg(d) ==
    /\ hook[d].stage = "missing"
    /\ hook' = [hook EXCEPT ![d].seen = balance[OrgOf[hook[d].checkout]], ![d].stage = "found"]
    /\ UNCHANGED <<database, topup, creation, stripe, history, commitFirst>>

\* Mutant of Deposit: the balance is credited, the transaction row is not added.
DepositWithoutRow(s, seen) ==
    /\ balance' = [balance EXCEPT ![OrgOf[s]] = seen + Amount[s]]
    /\ UNCHANGED credits

\* Mutant of Deposit: the amount has the sign of a charge.
DepositDebits(s, seen) ==
    /\ balance' = [balance EXCEPT ![OrgOf[s]] = seen - Amount[s]]
    /\ credits' = [credits EXCEPT ![s] = @ + 1]

\* The absolute balance and the transaction row, in one transaction.
Deposit(s, seen) ==
    /\ balance' = [balance EXCEPT ![OrgOf[s]] = seen + Amount[s]]
    /\ credits' = [credits EXCEPT ![s] = @ + 1]

Commit(d) ==
    /\ hook[d].stage = IF commitFirst THEN "found" ELSE "told"
    /\ Deposit(hook[d].checkout, hook[d].seen)
    /\ hook' = [hook EXCEPT ![d] = IF commitFirst THEN [@ EXCEPT !.stage = "answer", !.seen = 0] ELSE Free]
    /\ UNCHANGED <<mocked, campaign, topup, creation, stripe, history, commitFirst>>

\* Stripe receives the 200.
Answer(d) ==
    /\ hook[d].stage \in {"answer"} \cup IF commitFirst THEN {} ELSE {"found"}
    /\ hook' = [hook EXCEPT ![d] = IF @.stage = "found" THEN [@ EXCEPT !.stage = "told"] ELSE Free]
    /\ answered' = answered \cup {hook[d].checkout}
    /\ UNCHANGED <<database, topup, creation, completed, duplicates, losses, history, commitFirst>>

----------------------------------------------------------------------------
(* POST /deposit, which asks for no payment, with a Stripe key or without. *)

\* The handler loads the organization.
OpenTopup(t) ==
    LET o == TopupOf[t]
    IN  /\ topup[t].stage = "new"
        /\ topup' = [topup EXCEPT ![t] = [stage |-> "read", seen |-> balance[o]]]
        /\ contended' = contended \cup {x \in {o} : OverlapsOrg(x)}
        /\ UNCHANGED <<database, hook, creation, stripe, met, commitFirst>>

\* The absolute balance and the mock_deposit row, in one transaction.
CommitTopup(t) ==
    /\ topup[t].stage = "read"
    /\ balance' = [balance EXCEPT ![TopupOf[t]] = topup[t].seen + TopupAmount[t]]
    /\ mocked' = mocked \cup {t}
    /\ topup' = [topup EXCEPT ![t] = Unread("closed")]
    /\ UNCHANGED <<credits, campaign, hook, creation, stripe, history, commitFirst>>

LoseTopup(t) ==
    /\ topup[t].stage = "read"
    /\ losses < MaxLosses
    /\ losses' = losses + 1
    /\ topup' = [topup EXCEPT ![t] = Unread("closed")]
    /\ UNCHANGED <<database, hook, creation, completed, answered, duplicates, history, commitFirst>>

----------------------------------------------------------------------------
(* POST /campaigns.                                                        *)

\* The handler loads the organization.
Open(k) ==
    LET o == CreatorOf[k]
    IN  /\ k \notin ByAdmin
        /\ creation[k].stage = "new"
        /\ creation' = [creation EXCEPT ![k].stage = "read", ![k].seen = balance[o]]
        /\ met' = [met EXCEPT ![k] = {j \in Creations : Creating(j) /\ CreatorOf[j] = o}]
        /\ UNCHANGED <<database, hook, topup, stripe, contended, commitFirst>>

CampaignsOf(o) == {k \in Creations : CreatorOf[k] = o /\ campaign[k] # "none"}

\* Mutant of Launchable: a paid campaign needs some balance, not its budget.
LaunchableWithAny(k, promo) == promo \/ ~StripeKey \/ creation[k].seen > 0

\* The balance gate.
Launchable(k, promo) == promo \/ ~StripeKey \/ creation[k].seen >= Budget[k]

\* Mutant of FreeTier: counts paid campaigns only, so promos do not use up
\* the free tier.
FreeTierIgnoringPromos(o) == \A k \in CampaignsOf(o) : campaign[k] = "promo"

\* An organization's first campaign is free.
FreeTier(o) == CampaignsOf(o) = {}

\* The count of existing campaigns decides the free tier; a paid campaign that
\* is not funded is refused with a 402.
Count(k) ==
    LET promo == FreeTier(CreatorOf[k])
    IN  /\ creation[k].stage = "read"
        /\ creation' = [creation EXCEPT ![k] =
              IF Launchable(k, promo) THEN [@ EXCEPT !.stage = "allowed", !.promo = promo]
              ELSE Uncounted("closed")]
        /\ UNCHANGED <<database, hook, topup, stripe, history, commitFirst>>

\* campaign_id is unique over all organizations.
Taken(code) == \E j \in Creations : campaign[j] # "none" /\ CodeOf[j] = code

Insertion(k, kind) ==
    /\ campaign' = IF Taken(CodeOf[k]) THEN campaign ELSE [campaign EXCEPT ![k] = kind]
    /\ creation' = [creation EXCEPT ![k] = Uncounted("closed")]
    /\ UNCHANGED <<balance, credits, mocked, hook, topup, stripe, history, commitFirst>>

\* Where the id is taken, the request is rolled back (409).
Insert(k) ==
    /\ creation[k].stage = "allowed"
    /\ Insertion(k, IF creation[k].promo THEN "promo" ELSE "paid")

\* The admin API counts nothing and asks for no balance, and is_promo is False.
AdminCreate(k) ==
    /\ k \in ByAdmin
    /\ creation[k].stage = "new"
    /\ Insertion(k, "paid")

----------------------------------------------------------------------------

Handle(d) == Look(d) \/ ReadOrg(d) \/ Commit(d) \/ Answer(d)
Topup(t) == OpenTopup(t) \/ CommitTopup(t) \/ LoseTopup(t)
Create(k) == Open(k) \/ Count(k) \/ Insert(k) \/ AdminCreate(k)

Next ==
    \/ \E s \in Checkouts : Complete(s)
    \/ \E d \in Deliveries : Handle(d) \/ Lose(d) \/ \E s \in Checkouts : Send(d, s)
    \/ \E t \in Topups : Topup(t)
    \/ \E k \in Creations : Create(k)

Spec == Init /\ [][Next]_vars

Retry(s) == s \notin answered /\ \E d \in Deliveries : Send(d, s)

\* A handler runs to its end unless it is lost, and Stripe goes on sending an
\* event that it has no answer for.
FairSpec ==
    /\ Spec
    /\ \A d \in Deliveries : WF_vars(Handle(d))
    /\ \A s \in Checkouts : SF_vars(Retry(s))

----------------------------------------------------------------------------
(* Safety.                                                                 *)

\* What nobody paid: the balance an organization began with, and its deposits.
Granted(o) == Opening[o] + SumFunctionOnSet(TopupAmount, {t \in mocked : TopupOf[t] = o})

\* What the rows of each checkout credit, and all that an organization was credited.
Credited == [s \in Checkouts |-> credits[s] * Amount[s]]
RowsOf(o) == SumFunctionOnSet(Credited, {s \in Checkouts : OrgOf[s] = o}) + Granted(o)

\* A checkout is credited twice only if two of its deliveries ran at the same
\* time: retries after a lost answer and later duplicates find the first row.
DoubleCreditNeedsOverlap == \A s \in Checkouts : credits[s] > 1 => s \in contended

\* The balance is what the organization began with and the sum of the rows that
\* credit it, unless deliveries or deposits of it overlapped and one write was lost.
BalanceIsRowsWithoutOverlap == \A o \in Orgs : o \notin contended => balance[o] = RowsOf(o)

\* Where the commit precedes the answer, Stripe is told that a payment was taken
\* in only after its row is committed: whatever is lost afterwards, an
\* acknowledged payment is on the ledger.
AcknowledgedIsCredited ==
    commitFirst => \A s \in answered \ Delayed : credits[s] > 0

Overlapped(j, k) == j \in met[k] \/ k \in met[j]

\* An advertiser with campaigns had one of them free, unless an operator created
\* one for it; and two are free only if the requests that created these two were
\* open at the same time.
OneFreeCampaign ==
    \A o \in Orgs :
        LET free == {k \in CampaignsOf(o) : campaign[k] = "promo"}
        IN  /\ CampaignsOf(o) # {} => free # {} \/ CampaignsOf(o) \cap ByAdmin # {}
            /\ \A j, k \in free : j # k => Overlapped(j, k)

\* The payments of an organization that Stripe took in and that are credited, each
\* once, and what it was granted.
PaidIn(o) ==
    SumFunctionOnSet(Amount, {s \in completed \ Delayed : OrgOf[s] = o /\ credits[s] > 0})
    + Granted(o)

CreditedTwice(o) == \E s \in Checkouts \cap contended : OrgOf[s] = o

\* With payments configured, a paid campaign that was created in the portal has a
\* budget that checkouts, POST /deposit and the opening balance had brought in,
\* unless a checkout may have been credited twice.  That money is not set aside:
\* the same may stand behind several campaigns.
PaidIsFunded ==
    StripeKey => \A k \in Creations \ ByAdmin :
        campaign[k] = "paid" /\ ~CreditedTwice(CreatorOf[k])
            => Budget[k] <= PaidIn(CreatorOf[k])

\* Exactly one credit per checkout session, even if Stripe retries the webhook
\* (advertiser.py:632).
OneCreditPerCheckout == \A s \in Checkouts : credits[s] <= 1

\* Where the commit precedes the answer, every completed and paid checkout is
\* credited in the end, through lost requests and lost answers.
PaymentsCredited ==
    \A s \in Checkouts \ Delayed : commitFirst /\ s \in completed ~> credits[s] > 0
=============================================================================

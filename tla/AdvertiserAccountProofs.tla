---------------------- MODULE AdvertiserAccountProofs ----------------------
(***************************************************************************)
(* AdvertiserAccount for every number of organizations, checkouts,         *)
(* deliveries, deposits, campaigns, losses and duplicates.  Double credits *)
(* and double free campaigns are excluded for what never overlapped: then  *)
(* at most one request is between its look-up and its commit, and what it  *)
(* found is still so when it commits.                                      *)
(***************************************************************************)
EXTENDS AdvertiserAccount, SumTheorems

USE AccountsAssumption
USE DEF database, requests, stripe, history, Stages

Hooks     == [stage : Stages, checkout : Checkouts \cup {None}, seen : Nat]
Deposits  == [stage : {"new", "read", "closed"}, seen : Nat]
Requested == [stage : {"new", "read", "allowed", "closed"}, seen : Nat, promo : BOOLEAN]

\* A delivery in flight is of a checkout that Stripe has completed, and a deposit
\* is committed by its last step.
HookInv ==
    /\ TypeOK
    /\ \A d \in Deliveries : Busy(d) => hook[d].checkout \in completed
    /\ \A t \in mocked : topup[t].stage = "closed"

\* A checkout whose deliveries never overlapped has one request at most, and
\* while that one is going to credit it, nobody has.
CreditInv ==
    \A s \in Checkouts : s \notin contended =>
        /\ credits[s] <= 1
        /\ \A c, d \in Deliveries :
              Busy(c) /\ Busy(d) /\ hook[c].checkout = s /\ hook[d].checkout = s => c = d
        /\ \A d \in Deliveries :
              hook[d].checkout = s /\ hook[d].stage \in {"missing", "found", "told"} => credits[s] = 0

\* Where the commit comes first, what is left to be answered is credited.
AnswerInv ==
    commitFirst =>
        \A d \in Deliveries :
            /\ hook[d].stage # "told"
            /\ hook[d].stage = "answer" /\ hook[d].checkout \notin Delayed => credits[hook[d].checkout] > 0

\* Only what was paid at once is credited.
PaidInv ==
    /\ \A s \in Checkouts : credits[s] > 0 => s \in completed \ Delayed
    /\ \A d \in Deliveries :
          hook[d].stage \in {"missing", "found", "told"} => hook[d].checkout \notin Delayed

\* An organization whose campaigns c has a free one, or one of an operator.
Started(c, o) ==
    \E k \in Creations : CreatorOf[k] = o /\ (c[k] = "promo" \/ (c[k] # "none" /\ k \in ByAdmin))

Met(m, j, k) == j \in m[k] \/ k \in m[j]

\* A creation that is going to be free was open together with every other one of
\* its organization that is, or that has become, free.
FreeInv ==
    /\ \A k \in Creations : creation[k].stage # "closed" => campaign[k] = "none"
    /\ \A j, k \in Creations : j # k /\ CreatorOf[j] = CreatorOf[k] =>
          /\ Creating(j) /\ Creating(k) => Met(met, j, k)
          /\ campaign[j] = "promo" /\ campaign[k] = "promo" => Met(met, j, k)
          /\ campaign[j] = "promo" /\ creation[k].stage = "allowed" /\ creation[k].promo
                => Met(met, j, k)
    /\ \A k \in Creations : campaign[k] # "none" => Started(campaign, CreatorOf[k])
    /\ \A k \in Creations : creation[k].stage = "allowed" /\ ~creation[k].promo
          => Started(campaign, CreatorOf[k])

LEMMA InitHook == Init => HookInv
  BY DEF Init, HookInv, TypeOK, Busy, Free, Unread, Uncounted

(* The records of requests keep their type.                                *)
LEMMA Records ==
    /\ Free \in Hooks
    /\ \A h \in Hooks, stage \in Stages :
          [h EXCEPT !.stage = stage] \in Hooks /\ [h EXCEPT !.stage = stage, !.seen = 0] \in Hooks
    /\ Unread("closed") \in Deposits /\ Uncounted("closed") \in Requested
    /\ \A n \in Nat : [stage |-> "read", seen |-> n] \in Deposits
    /\ \A r \in Requested, n \in Nat :
          [r EXCEPT !.stage = "read", !.seen = n] \in Requested
    /\ \A r \in Requested, b \in BOOLEAN :
          [r EXCEPT !.stage = "allowed", !.promo = b] \in Requested
  BY DEF Free, Unread, Uncounted, Hooks, Deposits, Requested

(* An insertion closes one creation, and may add its campaign.             *)
LEMMA InsertionIs ==
    ASSUME HookInv, NEW k \in Creations, NEW kind \in {"promo", "paid"}, Insertion(k, kind)
    PROVE  /\ creation' = [creation EXCEPT ![k] = Uncounted("closed")]
           /\ creation'[k].stage = "closed"
           /\ \A j \in Creations \ {k} : creation'[j] = creation[j] /\ campaign'[j] = campaign[j]
           /\ campaign'[k] = campaign[k] \/ campaign'[k] = kind
           /\ campaign' \in [Creations -> {"none", "promo", "paid"}]
           /\ UNCHANGED <<balance, credits, mocked, hook, topup, stripe, history, commitFirst>>
  BY DEF Insertion, Uncounted, HookInv, TypeOK

LEMMA StepHook == HookInv /\ [Next]_vars => HookInv'
<1> SUFFICES ASSUME HookInv, [Next]_vars PROVE HookInv'
  OBVIOUS
<1>0. /\ hook \in [Deliveries -> Hooks]
      /\ topup \in [Topups -> Deposits] /\ creation \in [Creations -> Requested]
      /\ \A o \in Orgs : balance[o] \in Nat
  BY DEF HookInv, TypeOK, Hooks, Deposits, Requested
<1>1. ASSUME NEW s \in Checkouts, Complete(s) PROVE HookInv'
  BY <1>1 DEF Complete, HookInv, TypeOK, Busy
<1>2. ASSUME NEW d \in Deliveries, NEW s \in Checkouts, Send(d, s) PROVE HookInv'
  <2>1. s \in Checkouts /\ OrgOf[s] \in Orgs
    OBVIOUS
  <2>2. contended' \subseteq Checkouts \cup Orgs
    BY <1>2, <2>1 DEF Send, HookInv, TypeOK
  <2> DEFINE new == [Free EXCEPT !.stage = "arrived", !.checkout = s]
  <2>3. /\ new \in [stage : Stages, checkout : Checkouts \cup {None}, seen : Nat]
        /\ new.checkout = s
    BY DEF Free
  <2>4. duplicates' \in 0..MaxDuplicates /\ s \in completed
    BY <1>2 DEF Send, HookInv, TypeOK
  <2> HIDE DEF new
  <2>5. /\ hook' = [hook EXCEPT ![d] = new]
        /\ UNCHANGED <<database, topup, creation, completed, answered, losses, met, commitFirst>>
    BY <1>2 DEF Send, new
  <2> QED
    BY <2>1, <2>2, <2>3, <2>4, <2>5 DEF HookInv, TypeOK, Busy
<1>3. ASSUME NEW d \in Deliveries, Lose(d) PROVE HookInv'
  BY <1>3 DEF Lose, HookInv, TypeOK, Busy, Free
<1>4. ASSUME NEW d \in Deliveries, Look(d) PROVE HookInv'
  <2> DEFINE s == hook[d].checkout
             known == Known(s)
             delayed == ~Creditable(s)
             double == credits[s] > 1
  <2>1. /\ hook' = [hook EXCEPT ![d] =
              IF delayed THEN [hook[d] EXCEPT !.stage = "answer"]
              ELSE IF double THEN Free
              ELSE [hook[d] EXCEPT !.stage = IF known THEN "answer" ELSE "missing"]]
        /\ hook[d].stage = "arrived"
        /\ UNCHANGED <<database, topup, creation, stripe, history, commitFirst>>
    BY <1>4 DEF Look, HookInv, TypeOK
  <2> HIDE DEF s, known, delayed, double
  <2>2. hook' \in [Deliveries -> Hooks]
    BY <1>0, <2>1, Records
  <2>3. \A c \in Deliveries : hook'[c].stage # "free" =>
           hook[c].stage # "free" /\ hook'[c].checkout = hook[c].checkout
    BY <2>1 DEF HookInv, TypeOK, Free
  <2> QED
    BY <2>1, <2>2, <2>3 DEF HookInv, TypeOK, Busy, Hooks
<1>5. ASSUME NEW d \in Deliveries, ReadOrg(d) PROVE HookInv'
  BY <1>5 DEF ReadOrg, HookInv, TypeOK, Busy
<1>6. ASSUME NEW d \in Deliveries, Commit(d) PROVE HookInv'
  <2> DEFINE s == hook[d].checkout
             new == hook[d].seen + Amount[s]
  <2>1. s \in Checkouts /\ OrgOf[s] \in Orgs /\ hook[d].seen \in Nat
    BY <1>6 DEF Commit, HookInv, TypeOK, Busy
  <2>2. /\ balance' = [balance EXCEPT ![OrgOf[s]] = new]
        /\ credits' = [credits EXCEPT ![s] = @ + 1]
        /\ UNCHANGED <<mocked, campaign, topup, creation, stripe, history, commitFirst>>
    BY <1>6 DEF Commit, Deposit
  <2>3. hook' \in [Deliveries -> Hooks]
    BY <1>0, <1>6, Records DEF Commit
  <2>4. \A c \in Deliveries : hook'[c].stage # "free" =>
           hook[c].stage # "free" /\ hook'[c].checkout = hook[c].checkout
    BY <1>6 DEF Commit, HookInv, TypeOK, Free
  <2>5. new \in Nat
    BY <2>1
  <2> HIDE DEF s, new
  <2>6. balance' \in [Orgs -> Nat] /\ credits' \in [Checkouts -> Nat]
    BY <2>1, <2>2, <2>5 DEF HookInv, TypeOK
  <2> QED
    BY <2>2, <2>3, <2>4, <2>6 DEF HookInv, TypeOK, Busy, Hooks
<1>7. ASSUME NEW d \in Deliveries, Answer(d) PROVE HookInv'
  <2>1. /\ hook' = [hook EXCEPT ![d] =
              IF hook[d].stage = "found" THEN [hook[d] EXCEPT !.stage = "told"] ELSE Free]
        /\ hook[d].stage # "free" /\ answered' = answered \cup {hook[d].checkout}
        /\ UNCHANGED <<database, topup, creation, completed, duplicates, losses, history, commitFirst>>
    BY <1>7 DEF Answer, HookInv, TypeOK
  <2>2. answered' \subseteq completed
    BY <2>1 DEF HookInv, TypeOK, Busy
  <2>3. hook' \in [Deliveries -> Hooks]
    BY <1>0, <2>1, Records
  <2>4. \A c \in Deliveries : hook'[c].stage # "free" =>
           hook[c].stage # "free" /\ hook'[c].checkout = hook[c].checkout
    BY <2>1 DEF HookInv, TypeOK, Free
  <2> QED
    BY <2>1, <2>2, <2>3, <2>4 DEF HookInv, TypeOK, Busy, Hooks
<1>8. ASSUME NEW k \in Creations, Open(k) PROVE HookInv'
  <2> DEFINE read == [creation[k] EXCEPT !.stage = "read", !.seen = balance[CreatorOf[k]]]
             others == {j \in Creations : Creating(j) /\ CreatorOf[j] = CreatorOf[k]}
  <2>1. read \in Requested /\ others \in SUBSET Creations
    BY <1>0, Records
  <2>2. /\ creation' = [creation EXCEPT ![k] = read] /\ met' = [met EXCEPT ![k] = others]
        /\ UNCHANGED <<database, hook, topup, stripe, contended, commitFirst>>
    BY <1>0, <1>8 DEF Open
  <2> HIDE DEF read, others
  <2>3. creation' \in [Creations -> Requested] /\ met' \in [Creations -> SUBSET Creations]
    BY <1>0, <2>1, <2>2 DEF HookInv, TypeOK
  <2> QED
    BY <2>2, <2>3 DEF HookInv, TypeOK, Busy, Requested
<1>9. ASSUME NEW k \in Creations, Count(k) PROVE HookInv'
  <2> DEFINE promo == FreeTier(CreatorOf[k])
             passed == Launchable(k, promo)
  <2>1. promo \in BOOLEAN
    BY DEF FreeTier
  <2>2. /\ creation' = [creation EXCEPT ![k] =
              IF passed THEN [creation[k] EXCEPT !.stage = "allowed", !.promo = promo]
              ELSE Uncounted("closed")]
        /\ UNCHANGED <<database, hook, topup, stripe, history, commitFirst>>
    BY <1>0, <1>9 DEF Count
  <2> HIDE DEF promo, passed
  <2>3. creation' \in [Creations -> Requested]
    BY <1>0, <2>1, <2>2, Records
  <2> QED
    BY <2>2, <2>3 DEF HookInv, TypeOK, Busy, Requested
<1>10. ASSUME NEW k \in Creations, NEW kind \in {"promo", "paid"}, Insertion(k, kind) PROVE HookInv'
  <2>1. creation' \in [Creations -> Requested]
    BY <1>0, <1>10, Records DEF Insertion
  <2> QED
    BY <1>10, <2>1, InsertionIs DEF HookInv, TypeOK, Busy, Requested
<1>11. ASSUME NEW t \in Topups, OpenTopup(t) PROVE HookInv'
  <2> DEFINE read == [stage |-> "read", seen |-> balance[TopupOf[t]]]
  <2>1. /\ topup' = [topup EXCEPT ![t] = read] /\ topup[t].stage = "new"
        /\ UNCHANGED <<database, hook, creation, stripe, met, commitFirst>>
        /\ contended' \subseteq contended \cup {TopupOf[t]}
    BY <1>11 DEF OpenTopup
  <2>2. read \in Deposits
    BY <1>0, Records
  <2> HIDE DEF read
  <2>3. topup' \in [Topups -> Deposits] /\ contended' \subseteq Checkouts \cup Orgs
    BY <1>0, <2>1, <2>2 DEF HookInv, TypeOK
  <2>4. \A u \in mocked' : topup'[u].stage = "closed"
    BY <1>0, <2>1 DEF HookInv, TypeOK
  <2> QED
    BY <2>1, <2>3, <2>4 DEF HookInv, TypeOK, Busy, Deposits
<1>12. ASSUME NEW t \in Topups, CommitTopup(t) PROVE HookInv'
  <2>1. /\ topup' = [topup EXCEPT ![t] = Unread("closed")] /\ mocked' = mocked \cup {t}
        /\ balance' = [balance EXCEPT ![TopupOf[t]] = topup[t].seen + TopupAmount[t]]
        /\ UNCHANGED <<credits, campaign, hook, creation, stripe, history, commitFirst>>
    BY <1>12 DEF CommitTopup
  <2>2. topup' \in [Topups -> Deposits]
    BY <1>0, <2>1, Records
  <2>3. topup[t].seen + TopupAmount[t] \in Nat
    BY <1>0 DEF Deposits
  <2>4. balance' \in [Orgs -> Nat] /\ mocked' \subseteq Topups
    BY <2>1, <2>3 DEF HookInv, TypeOK
  <2>5. \A u \in mocked' : topup'[u].stage = "closed"
    BY <1>0, <2>1 DEF HookInv, TypeOK, Unread
  <2> QED
    BY <2>1, <2>2, <2>4, <2>5 DEF HookInv, TypeOK, Busy, Deposits
<1>13. ASSUME NEW t \in Topups, LoseTopup(t) PROVE HookInv'
  <2>1. /\ topup' = [topup EXCEPT ![t] = Unread("closed")] /\ losses' \in 0..MaxLosses
        /\ UNCHANGED <<database, hook, creation, completed, answered, duplicates, history, commitFirst>>
    BY <1>13 DEF LoseTopup, HookInv, TypeOK
  <2>2. topup' \in [Topups -> Deposits]
    BY <1>0, <2>1, Records
  <2>3. \A u \in mocked' : topup'[u].stage = "closed"
    BY <1>0, <2>1 DEF HookInv, TypeOK, Unread
  <2> QED
    BY <2>1, <2>2, <2>3 DEF HookInv, TypeOK, Busy, Deposits
<1>14. CASE UNCHANGED vars
  BY <1>14 DEF vars, HookInv, TypeOK, Busy
<1> QED
  BY <1>1, <1>2, <1>3, <1>4, <1>5, <1>6, <1>7, <1>8, <1>9, <1>10, <1>11, <1>12, <1>13, <1>14
     DEF Next, Handle, Topup, Create, Insert, AdminCreate

(* Reading the organization changes one request, and nothing else.         *)
LEMMA ReadOrgIs ==
    ASSUME HookInv, NEW d \in Deliveries, ReadOrg(d)
    PROVE  /\ \A c \in Deliveries : hook'[c].checkout = hook[c].checkout /\ (Busy(c)' <=> Busy(c))
           /\ \A c \in Deliveries \ {d} : hook'[c] = hook[c]
           /\ hook[d].stage = "missing" /\ hook'[d].stage = "found"
           /\ hook'[d].seen = balance[OrgOf[hook[d].checkout]]
           /\ UNCHANGED <<balance, credits, mocked, topup, completed, contended>>
<1> DEFINE read == [hook[d] EXCEPT !.seen = balance[OrgOf[hook[d].checkout]], !.stage = "found"]
<1>1. hook \in [Deliveries -> [stage : Stages, checkout : Checkouts \cup {None}, seen : Nat]]
  BY DEF HookInv, TypeOK
<1>2. hook' = [hook EXCEPT ![d] = read] /\ hook[d].stage = "missing"
  BY <1>1 DEF ReadOrg
<1>3. read.stage = "found" /\ read.checkout = hook[d].checkout
      /\ read.seen = balance[OrgOf[hook[d].checkout]]
  BY <1>1
<1> HIDE DEF read
<1>4. hook'[d] = read /\ \A c \in Deliveries \ {d} : hook'[c] = hook[c]
  BY <1>1, <1>2
<1> QED
  BY <1>2, <1>3, <1>4 DEF Busy, ReadOrg

LEMMA StepCredit == HookInv /\ CreditInv /\ [Next]_vars => CreditInv'
<1> SUFFICES ASSUME HookInv, CreditInv, [Next]_vars PROVE CreditInv'
  OBVIOUS
<1>1. ASSUME UNCHANGED <<credits, hook, contended>> PROVE CreditInv'
  BY <1>1 DEF CreditInv, Busy
<1>2. ASSUME NEW d \in Deliveries, NEW s \in Checkouts, Send(d, s) PROVE CreditInv'
  BY <1>2 DEF Send, HookInv, TypeOK, Busy, Free, CreditInv
<1>3. ASSUME NEW d \in Deliveries, Lose(d) PROVE CreditInv'
  BY <1>3 DEF Lose, HookInv, TypeOK, Busy, Free, CreditInv
<1>4. ASSUME NEW d \in Deliveries, Look(d) PROVE CreditInv'
  BY <1>4 DEF Look, Known, HookInv, TypeOK, Busy, Free, CreditInv
<1>5. ASSUME NEW d \in Deliveries, ReadOrg(d) PROVE CreditInv'
  BY <1>5, ReadOrgIs DEF CreditInv
<1>6. ASSUME NEW d \in Deliveries, Commit(d) PROVE CreditInv'
  BY <1>6 DEF Commit, Deposit, HookInv, TypeOK, Busy, Free, CreditInv
<1>7. ASSUME NEW d \in Deliveries, Answer(d) PROVE CreditInv'
  BY <1>7 DEF Answer, HookInv, TypeOK, Busy, Free, CreditInv
<1>8. ASSUME NEW t \in Topups, OpenTopup(t) PROVE CreditInv'
  BY <1>8 DEF OpenTopup, CreditInv, Busy
<1> QED
  BY <1>1, <1>2, <1>3, <1>4, <1>5, <1>6, <1>7, <1>8
     DEF Next, Handle, Topup, Create, Complete, CommitTopup, LoseTopup, Open, Count,
         Insert, AdminCreate, Insertion, vars

LEMMA StepAnswer == HookInv /\ AnswerInv /\ [Next]_vars => AnswerInv'
<1> SUFFICES ASSUME HookInv, AnswerInv, [Next]_vars PROVE AnswerInv'
  OBVIOUS
<1>1. ASSUME UNCHANGED <<credits, hook, commitFirst>> PROVE AnswerInv'
  BY <1>1 DEF AnswerInv
<1>2. ASSUME NEW d \in Deliveries, NEW s \in Checkouts, Send(d, s) PROVE AnswerInv'
  BY <1>2 DEF Send, HookInv, TypeOK, Busy, Free, AnswerInv
<1>3. ASSUME NEW d \in Deliveries, Lose(d) PROVE AnswerInv'
  BY <1>3 DEF Lose, HookInv, TypeOK, Busy, Free, AnswerInv
<1>4. ASSUME NEW d \in Deliveries, Look(d) PROVE AnswerInv'
  BY <1>4 DEF Look, Creditable, Known, HookInv, TypeOK, Busy, Free, AnswerInv
<1>5. ASSUME NEW d \in Deliveries, ReadOrg(d) PROVE AnswerInv'
  BY <1>5 DEF ReadOrg, HookInv, TypeOK, Busy, AnswerInv
<1>6. ASSUME NEW d \in Deliveries, Commit(d) PROVE AnswerInv'
  BY <1>6 DEF Commit, Deposit, HookInv, TypeOK, Busy, Free, AnswerInv
<1>7. ASSUME NEW d \in Deliveries, Answer(d) PROVE AnswerInv'
  BY <1>7 DEF Answer, HookInv, TypeOK, Busy, Free, AnswerInv
<1> QED
  BY <1>1, <1>2, <1>3, <1>4, <1>5, <1>6, <1>7
     DEF Next, Handle, Topup, Create, Complete, OpenTopup, CommitTopup, LoseTopup, Open,
         Count, Insert, AdminCreate, Insertion, vars

LEMMA StepAcknowledged ==
    HookInv /\ AnswerInv /\ AcknowledgedIsCredited /\ [Next]_vars => AcknowledgedIsCredited'
<1> SUFFICES ASSUME HookInv, AnswerInv, AcknowledgedIsCredited, [Next]_vars
             PROVE  AcknowledgedIsCredited'
  OBVIOUS
<1>1. ASSUME NEW d \in Deliveries, Commit(d) PROVE AcknowledgedIsCredited'
  BY <1>1 DEF Commit, Deposit, HookInv, TypeOK, Busy, AcknowledgedIsCredited
<1>2. ASSUME NEW d \in Deliveries, Answer(d) PROVE AcknowledgedIsCredited'
  BY <1>2 DEF Answer, HookInv, TypeOK, AnswerInv, AcknowledgedIsCredited
<1>3. ASSUME UNCHANGED <<credits, answered, commitFirst>> PROVE AcknowledgedIsCredited'
  BY <1>3 DEF AcknowledgedIsCredited
<1> QED
  BY <1>1, <1>2, <1>3
     DEF Next, Handle, Topup, Create, Complete, Send, Lose, Look, ReadOrg, OpenTopup,
         CommitTopup, LoseTopup, Open, Count, Insert, AdminCreate, Insertion, vars

LEMMA StepPaid == HookInv /\ PaidInv /\ [Next]_vars => PaidInv'
<1> SUFFICES ASSUME HookInv, PaidInv, [Next]_vars PROVE PaidInv'
  OBVIOUS
<1>1. ASSUME UNCHANGED <<credits, hook>>, completed \subseteq completed' PROVE PaidInv'
  BY <1>1 DEF PaidInv
<1>2. ASSUME NEW d \in Deliveries, NEW s \in Checkouts, Send(d, s) PROVE PaidInv'
  BY <1>2 DEF Send, HookInv, TypeOK, Free, PaidInv
<1>3. ASSUME NEW d \in Deliveries, Lose(d) PROVE PaidInv'
  BY <1>3 DEF Lose, HookInv, TypeOK, Free, PaidInv
<1>4. ASSUME NEW d \in Deliveries, Look(d) PROVE PaidInv'
  BY <1>4 DEF Look, Creditable, Known, HookInv, TypeOK, Free, PaidInv
<1>5. ASSUME NEW d \in Deliveries, ReadOrg(d) PROVE PaidInv'
  BY <1>5, ReadOrgIs DEF PaidInv
<1>6. ASSUME NEW d \in Deliveries, Commit(d) PROVE PaidInv'
  <2> DEFINE s == hook[d].checkout
  <2>1. s \in completed \ Delayed /\ s \in Checkouts
    BY <1>6 DEF Commit, Busy, HookInv, TypeOK, PaidInv
  <2>2. /\ \A x \in Checkouts : credits'[x] > 0 => x = s \/ credits[x] > 0
        /\ completed' = completed
    BY <1>6 DEF Commit, Deposit, HookInv, TypeOK
  <2>3. \A c \in Deliveries : hook'[c].stage \in {"missing", "found", "told"} => hook'[c] = hook[c]
    BY <1>6 DEF Commit, HookInv, TypeOK, Free
  <2> QED
    BY <2>1, <2>2, <2>3 DEF PaidInv
<1>7. ASSUME NEW d \in Deliveries, Answer(d) PROVE PaidInv'
  BY <1>7 DEF Answer, HookInv, TypeOK, Free, PaidInv
<1> QED
  BY <1>1, <1>2, <1>3, <1>4, <1>5, <1>6, <1>7
     DEF Next, Handle, Topup, Create, Complete, OpenTopup, CommitTopup, LoseTopup, Open,
         Count, Insert, AdminCreate, Insertion, vars

LEMMA StepFree == HookInv /\ FreeInv /\ [Next]_vars => FreeInv'
<1> SUFFICES ASSUME HookInv, FreeInv, [Next]_vars PROVE FreeInv'
  OBVIOUS
<1>1. ASSUME UNCHANGED <<campaign, creation, met>> PROVE FreeInv'
  BY <1>1 DEF FreeInv, Creating
<1>2. ASSUME NEW k \in Creations, Open(k) PROVE FreeInv'
  <2>1. /\ creation[k].stage = "new" /\ creation'[k].stage = "read"
        /\ \A j \in Creations \ {k} : creation'[j] = creation[j] /\ met'[j] = met[j]
        /\ met'[k] = {j \in Creations : Creating(j) /\ CreatorOf[j] = CreatorOf[k]}
        /\ campaign' = campaign
    BY <1>2 DEF Open, HookInv, TypeOK
  <2>2. \A j \in Creations \ {k} : CreatorOf[j] = CreatorOf[k] /\ Creating(j)
           => Met(met', j, k) /\ Met(met', k, j)
    BY <2>1 DEF Met
  <2>3. \A i, j \in Creations \ {k} : Met(met, i, j) => Met(met', i, j)
    BY <2>1 DEF Met
  <2> QED
    BY <2>1, <2>2, <2>3 DEF FreeInv, Creating
<1>3. ASSUME NEW k \in Creations, Count(k) PROVE FreeInv'
  <2> DEFINE promo == FreeTier(CreatorOf[k])
  <2>1. /\ creation[k].stage = "read"
        /\ \/ creation'[k].stage = "closed"
           \/ creation'[k].stage = "allowed" /\ creation'[k].promo = promo
        /\ \A j \in Creations \ {k} : creation'[j] = creation[j]
        /\ campaign' = campaign /\ met' = met
    <3> DEFINE passed == Launchable(k, promo)
               allowed == [creation[k] EXCEPT !.stage = "allowed", !.promo = promo]
    <3>1. /\ creation' = [creation EXCEPT ![k] = IF passed THEN allowed ELSE Uncounted("closed")]
          /\ UNCHANGED <<campaign, met>> /\ creation[k].stage = "read"
      BY <1>3 DEF Count, HookInv, TypeOK
    <3>2. creation \in [Creations -> Requested] /\ promo \in BOOLEAN
      BY DEF HookInv, TypeOK, Requested, FreeTier
    <3> HIDE DEF promo
    <3>3. allowed.stage = "allowed" /\ allowed.promo = promo
      BY <3>2 DEF Requested
    <3> HIDE DEF passed, allowed
    <3> QED
      BY <3>1, <3>2, <3>3 DEF Uncounted
  <2>2. /\ promo => \A j \in Creations : CreatorOf[j] = CreatorOf[k] => campaign[j] # "promo"
        /\ ~promo => Started(campaign, CreatorOf[k])
    BY DEF FreeTier, FreeInv, CampaignsOf
  <2>3. promo \in BOOLEAN
    BY DEF FreeTier
  <2> HIDE DEF promo
  <2> QED
    BY <2>1, <2>2, <2>3 DEF FreeInv, Creating
<1>4. ASSUME NEW k \in Creations, NEW kind \in {"promo", "paid"}, Insertion(k, kind),
             creation[k].stage # "closed",
             kind = "paid" => k \in ByAdmin \/ Started(campaign, CreatorOf[k]),
             kind = "promo" => creation[k].stage = "allowed" /\ creation[k].promo
      PROVE  FreeInv'
  <2>1. /\ creation'[k].stage = "closed" /\ campaign[k] = "none"
        /\ \A j \in Creations \ {k} : creation'[j] = creation[j] /\ campaign'[j] = campaign[j]
        /\ campaign'[k] = "none" \/ campaign'[k] = kind
        /\ met' = met
    BY <1>4, InsertionIs DEF FreeInv
  <2>2. \A i, j : Met(met, i, j) => Met(met, j, i)
    BY DEF Met
  <2>3. \A o \in Orgs : Started(campaign, o) => Started(campaign', o)
    BY <2>1 DEF Started
  <2>4. campaign'[k] # "none" => Started(campaign', CreatorOf[k])
    <3>1. CASE kind = "promo"
      BY <2>1, <3>1 DEF Started
    <3>2. CASE k \in ByAdmin
      BY <2>1, <3>2 DEF Started
    <3> QED
      BY <1>4, <2>3, <3>1, <3>2
  <2>5. \A j \in Creations \ {k} : CreatorOf[j] = CreatorOf[k] /\ campaign'[k] = "promo" =>
           /\ campaign[j] = "promo" => Met(met, j, k) /\ Met(met, k, j)
           /\ Creating(j) => Met(met, j, k) /\ Met(met, k, j)
    BY <1>4, <2>1, <2>2 DEF FreeInv, Creating
  <2>6. \A j \in Creations : campaign'[j] # "none" => Started(campaign', CreatorOf[j])
    BY <2>1, <2>3, <2>4 DEF FreeInv
  <2>7. \A j \in Creations : creation'[j].stage = "allowed" /\ ~creation'[j].promo
           => Started(campaign', CreatorOf[j])
    BY <2>1, <2>3 DEF FreeInv
  <2>8. \A i, j \in Creations : i # j /\ CreatorOf[i] = CreatorOf[j] =>
           /\ Creating(i)' /\ Creating(j)' => Met(met, i, j)
           /\ campaign'[i] = "promo" /\ campaign'[j] = "promo" => Met(met, i, j)
           /\ campaign'[i] = "promo" /\ creation'[j].stage = "allowed" /\ creation'[j].promo
                 => Met(met, i, j)
    BY <2>1, <2>5 DEF FreeInv, Creating
  <2> QED
    BY <2>1, <2>6, <2>7, <2>8 DEF FreeInv
<1>5. ASSUME NEW k \in Creations, Insert(k) PROVE FreeInv'
  <2>1. creation[k].stage = "allowed"
    BY <1>5 DEF Insert
  <2>2. CASE creation[k].promo
    BY <1>4, <1>5, <2>1, <2>2 DEF Insert
  <2>3. CASE ~creation[k].promo
    BY <1>4, <1>5, <2>1, <2>3 DEF Insert, FreeInv
  <2> QED
    BY <2>2, <2>3
<1>6. ASSUME NEW k \in Creations, AdminCreate(k) PROVE FreeInv'
  BY <1>4, <1>6 DEF AdminCreate
<1> QED
  BY <1>1, <1>2, <1>3, <1>5, <1>6
     DEF Next, Handle, Topup, Create, Complete, Send, Lose, Look, ReadOrg, Commit, Answer,
         OpenTopup, CommitTopup, LoseTopup, vars

LEMMA InitAccount == Init => CreditInv /\ AnswerInv /\ PaidInv /\ FreeInv
<1> SUFFICES ASSUME Init PROVE CreditInv /\ AnswerInv /\ PaidInv /\ FreeInv
  OBVIOUS
<1>1. CreditInv
  BY DEF Init, CreditInv, Busy, Free
<1>2. AnswerInv /\ PaidInv
  BY DEF Init, AnswerInv, PaidInv, Free
<1>3. FreeInv
  BY DEF Init, FreeInv, Creating, Uncounted
<1> QED
  BY <1>1, <1>2, <1>3

(* What an organization was credited is a natural number.                  *)
LEMMA RowsType == ASSUME HookInv PROVE \A o \in Orgs : RowsOf(o) \in Nat /\ Granted(o) \in Nat
<1> SUFFICES ASSUME NEW o \in Orgs PROVE RowsOf(o) \in Nat /\ Granted(o) \in Nat
  OBVIOUS
<1> DEFINE S == {s \in Checkouts : OrgOf[s] = o}
           T == {t \in mocked : TopupOf[t] = o}
<1>0. Opening[o] \in Nat
  OBVIOUS
<1>1. IsFiniteSet(S) /\ IsFiniteSet(T)
  <2>1. S \in SUBSET Checkouts /\ T \in SUBSET Topups
    BY DEF HookInv, TypeOK
  <2> HIDE DEF S, T
  <2> QED
    BY <2>1, FS_Subset
<1>2. \A s \in S : Credited[s] \in Nat
  <2>1. \A m, n \in Nat : m * n \in Nat
    OBVIOUS
  <2> QED
    BY <2>1 DEF HookInv, TypeOK, Credited
<1>3. \A t \in T : TopupAmount[t] \in Nat
  BY DEF HookInv, TypeOK
<1>4. /\ RowsOf(o) = SumFunctionOnSet(Credited, S) + Granted(o)
      /\ Granted(o) = Opening[o] + SumFunctionOnSet(TopupAmount, T)
  BY DEF RowsOf, Granted
<1> HIDE DEF S, T
<1>5. SumFunctionOnSet(Credited, S) \in Nat /\ SumFunctionOnSet(TopupAmount, T) \in Nat
  BY <1>1, <1>2, <1>3, SumType
<1> QED
  BY <1>0, <1>4, <1>5

(* A credit adds its amount to the rows of its organization only.          *)
LEMMA RowsDeposit ==
    ASSUME HookInv, NEW s \in Checkouts, credits' = [credits EXCEPT ![s] = @ + 1],
           mocked' = mocked
    PROVE  \A o \in Orgs : RowsOf(o)' = IF OrgOf[s] = o THEN RowsOf(o) + Amount[s] ELSE RowsOf(o)
<1> SUFFICES ASSUME NEW o \in Orgs
             PROVE  RowsOf(o)' = IF OrgOf[s] = o THEN RowsOf(o) + Amount[s] ELSE RowsOf(o)
  OBVIOUS
<1> DEFINE S == {x \in Checkouts : OrgOf[x] = o}
           f == Credited
           g == Credited'
<1>1. IsFiniteSet(S) /\ S \subseteq Checkouts
  BY FS_Subset
<1>2. \A x \in Checkouts : credits[x] \in Nat /\ Amount[x] \in Nat
  BY DEF HookInv, TypeOK
<1>3. \A x \in Checkouts : /\ f[x] \in Nat /\ g[x] \in Nat
                           /\ g[x] = IF x = s THEN f[x] + Amount[x] ELSE f[x]
  <2>1. \A m, n \in Nat : m * n \in Nat /\ (m + 1) * n = m * n + n
    OBVIOUS
  <2>2. \A x \in Checkouts : /\ f[x] = credits[x] * Amount[x]
                             /\ g[x] = (IF x = s THEN credits[x] + 1 ELSE credits[x]) * Amount[x]
    BY <1>2 DEF Credited, HookInv, TypeOK
  <2> HIDE DEF f, g
  <2>3. \A x \in Checkouts : f[x] \in Nat /\ g[x] = IF x = s THEN f[x] + Amount[x] ELSE f[x]
    BY <1>2, <2>1, <2>2
  <2> QED
    BY <1>2, <2>3
<1>4. /\ RowsOf(o) = SumFunctionOnSet(f, S) + Granted(o)
      /\ RowsOf(o)' = SumFunctionOnSet(g, S) + Granted(o)
  BY DEF RowsOf, Granted
<1>0. Granted(o) \in Nat
  BY RowsType
<1> HIDE DEF f, g
<1>5. CASE OrgOf[s] = o
  <2>1. s \in S
    BY <1>5
  <2> HIDE DEF S
  <2>2. SumFunctionOnSet(g, S) = SumFunctionOnSet(f, S) - f[s] + g[s]
    BY <1>1, <1>3, <2>1, SumChange
  <2>3. SumFunctionOnSet(f, S) \in Int
    BY <1>1, <1>3, SumType
  <2> QED
    BY <1>0, <1>2, <1>3, <1>4, <1>5, <2>2, <2>3
<1>6. CASE OrgOf[s] # o
  <2>1. \A x \in S : f[x] \in Int /\ f[x] = g[x]
    BY <1>3, <1>6
  <2> HIDE DEF S
  <2>2. SumFunctionOnSet(f, S) = SumFunctionOnSet(g, S)
    BY <1>1, <2>1, SumSame
  <2> QED
    BY <1>4, <1>6, <2>2
<1> QED
  BY <1>5, <1>6

(* So does a deposit, once.                                                *)
LEMMA RowsTopup ==
    ASSUME HookInv, NEW t \in Topups, t \notin mocked, mocked' = mocked \cup {t}, credits' = credits
    PROVE  \A o \in Orgs :
              RowsOf(o)' = IF TopupOf[t] = o THEN RowsOf(o) + TopupAmount[t] ELSE RowsOf(o)
<1> SUFFICES ASSUME NEW o \in Orgs
             PROVE  RowsOf(o)' = IF TopupOf[t] = o THEN RowsOf(o) + TopupAmount[t] ELSE RowsOf(o)
  OBVIOUS
<1> DEFINE T == {u \in mocked : TopupOf[u] = o}
           V == {u \in mocked \cup {t} : TopupOf[u] = o}
           paid == SumFunctionOnSet(Credited, {s \in Checkouts : OrgOf[s] = o})
<1>1. V \in SUBSET Topups /\ T \in SUBSET Topups /\ \A u \in Topups : TopupAmount[u] \in Nat
  BY DEF HookInv, TypeOK
<1>2. V = IF TopupOf[t] = o THEN T \cup {t} ELSE T
  OBVIOUS
<1>3. t \notin T
  OBVIOUS
<1>4. /\ RowsOf(o) = paid + (Opening[o] + SumFunctionOnSet(TopupAmount, T))
      /\ RowsOf(o)' = paid + (Opening[o] + SumFunctionOnSet(TopupAmount, V))
  BY DEF RowsOf, Granted, Credited
<1>5. SumFunctionOnSet(TopupAmount, T) \in Int /\ RowsOf(o) \in Nat /\ Opening[o] \in Nat
  <2>1. T \in SUBSET Topups /\ \A u \in T : TopupAmount[u] \in Int
    BY <1>1
  <2> HIDE DEF T
  <2> QED
    BY <2>1, FS_Subset, SumType, RowsType
<1>6. paid \in Int
  <2> DEFINE S == {s \in Checkouts : OrgOf[s] = o}
  <2>1. S \in SUBSET Checkouts
    OBVIOUS
  <2>2. \A s \in S : Credited[s] \in Int
    <3>1. \A m, n \in Nat : m * n \in Int
      OBVIOUS
    <3> QED
      BY <3>1 DEF HookInv, TypeOK, Credited
  <2> HIDE DEF S
  <2>3. SumFunctionOnSet(Credited, S) \in Int
    BY <2>1, <2>2, FS_Subset, SumType
  <2> QED
    BY <2>3 DEF S
<1> HIDE DEF T, V, paid
<1>7. CASE TopupOf[t] = o
  <2>1. SumFunctionOnSet(TopupAmount, V) = TopupAmount[t] + SumFunctionOnSet(TopupAmount, V \ {t})
    BY <1>1, <1>2, <1>7, FS_Subset, SumRemove
  <2>2. V \ {t} = T
    BY <1>2, <1>3, <1>7
  <2>3. SumFunctionOnSet(TopupAmount, V) = TopupAmount[t] + SumFunctionOnSet(TopupAmount, T)
    BY <2>1, <2>2
  <2>4. TopupAmount[t] \in Nat
    BY <1>1
  <2> QED
    BY <1>4, <1>5, <1>6, <1>7, <2>3, <2>4
<1>8. CASE TopupOf[t] # o
  BY <1>2, <1>4, <1>8
<1> QED
  BY <1>7, <1>8

LEMMA RowsUnchanged == UNCHANGED <<credits, mocked>> => \A o \in Orgs : RowsOf(o)' = RowsOf(o)
  BY DEF RowsOf, Credited, Granted

(* Where no checkout was contended, the rows are what was paid in.         *)
LEMMA RowsArePaidIn ==
    ASSUME HookInv, CreditInv, PaidInv, NEW o \in Orgs, ~CreditedTwice(o)
    PROVE  RowsOf(o) <= PaidIn(o)
<1> DEFINE S == {s \in Checkouts : OrgOf[s] = o}
           R == {s \in completed \ Delayed : OrgOf[s] = o /\ credits[s] > 0}
           once == [s \in Checkouts |-> IF s \in R THEN Amount[s] ELSE 0]
<1>1. S \in SUBSET Checkouts /\ R \in SUBSET S
  BY DEF HookInv, TypeOK
<1>2. \A s \in S : /\ Amount[s] \in Nat /\ once[s] \in Nat
                   /\ s \in R => once[s] = Amount[s]
                   /\ s \notin R => once[s] = 0
  OBVIOUS
<1>3. \A s \in S : Credited[s] \in Nat /\ Credited[s] <= once[s]
  <2> SUFFICES ASSUME NEW s \in S PROVE Credited[s] \in Nat /\ Credited[s] <= once[s]
    OBVIOUS
  <2>1. credits[s] \in Nat /\ credits[s] <= 1 /\ (credits[s] > 0 => s \in R)
    BY DEF CreditedTwice, CreditInv, PaidInv, HookInv, TypeOK
  <2>2. CASE credits[s] = 0
    BY <2>2 DEF Credited
  <2>3. CASE credits[s] = 1
    BY <2>1, <2>3 DEF Credited
  <2> QED
    BY <2>1, <2>2, <2>3
<1>4. /\ RowsOf(o) = SumFunctionOnSet(Credited, S) + Granted(o)
      /\ PaidIn(o) = SumFunctionOnSet(Amount, R) + Granted(o)
  BY DEF RowsOf, PaidIn
<1> HIDE DEF S, R, once
<1>5. IsFiniteSet(S) /\ IsFiniteSet(R) /\ IsFiniteSet(S \ R)
  BY <1>1, FS_Subset
<1>6. SumFunctionOnSet(Credited, S) <= SumFunctionOnSet(once, S)
  BY <1>2, <1>3, <1>5, SumMonotone
<1>7. SumFunctionOnSet(once, S) = SumFunctionOnSet(once, R) + SumFunctionOnSet(once, S \ R)
  <2>1. R \cup (S \ R) = S /\ R \cap (S \ R) = {}
    BY <1>1
  <2> QED
    BY <1>2, <1>5, <2>1, SumDisjoint
<1>8. SumFunctionOnSet(once, S \ R) = 0
  BY <1>2, <1>5, SumZero
<1>9. SumFunctionOnSet(once, R) = SumFunctionOnSet(Amount, R)
  BY <1>1, <1>2, <1>5, SumSame
<1>10. SumFunctionOnSet(Credited, S) \in Int /\ SumFunctionOnSet(Amount, R) \in Int
  BY <1>1, <1>2, <1>3, <1>5, SumType
<1>11. Granted(o) \in Nat
  BY RowsType
<1> QED
  BY <1>4, <1>6, <1>7, <1>8, <1>9, <1>10, <1>11

(* No balance, and no copy of one, exceeds the rows of its organization.   *)
BackedInv ==
    \A o \in Orgs :
        /\ balance[o] <= RowsOf(o)
        /\ \A d \in Deliveries : hook[d].stage \in {"found", "told"} /\ OrgOf[hook[d].checkout] = o
              => hook[d].seen <= RowsOf(o)
        /\ \A t \in Topups : topup[t].stage = "read" /\ TopupOf[t] = o => topup[t].seen <= RowsOf(o)
        /\ \A k \in Creations : CreatorOf[k] = o =>
              /\ creation[k].stage = "read" => creation[k].seen <= RowsOf(o)
              /\ StripeKey /\ creation[k].stage = "allowed" /\ ~creation[k].promo => Budget[k] <= RowsOf(o)
              /\ StripeKey /\ campaign[k] = "paid" /\ k \notin ByAdmin => Budget[k] <= RowsOf(o)

\* A webhook request and a deposit that may write the balance of organization o.
Delivers(d, o) == Busy(d) /\ OrgOf[hook[d].checkout] = o
DepositOf(t, o) == topup[t].stage = "read" /\ TopupOf[t] = o

(* While the webhook requests and deposits of an organization never        *)
(* overlapped, there is one at most, and the balance it has read is the    *)
(* balance.                                                                *)
ExactInv ==
    \A o \in Orgs : o \notin contended =>
        /\ balance[o] = RowsOf(o)
        /\ \A c, d \in Deliveries : Delivers(c, o) /\ Delivers(d, o) => c = d
        /\ \A t, u \in Topups : DepositOf(t, o) /\ DepositOf(u, o) => t = u
        /\ \A d \in Deliveries, t \in Topups : ~(Delivers(d, o) /\ DepositOf(t, o))
        /\ \A d \in Deliveries :
              Delivers(d, o) /\ hook[d].stage \in {"found", "told"} => hook[d].seen = balance[o]
        /\ \A t \in Topups : DepositOf(t, o) => topup[t].seen = balance[o]

LEMMA InitRows == Init => BackedInv /\ ExactInv
<1> SUFFICES ASSUME Init PROVE BackedInv /\ ExactInv
  OBVIOUS
<1>1. \A o \in Orgs : RowsOf(o) = Opening[o] /\ Opening[o] \in Nat
  <2> SUFFICES ASSUME NEW o \in Orgs PROVE RowsOf(o) = Opening[o] /\ Opening[o] \in Nat
    OBVIOUS
  <2> DEFINE S == {s \in Checkouts : OrgOf[s] = o}
             T == {t \in mocked : TopupOf[t] = o}
             zero == [s \in Checkouts |-> 0]
  <2>1. Credited = zero
    BY DEF Init, Credited
  <2>2. IsFiniteSet(S) /\ IsFiniteSet(T) /\ T = {}
    BY FS_Subset, FS_EmptySet DEF Init
  <2>3. (\A s \in S : zero[s] = 0) /\ (\A t \in T : TopupAmount[t] = 0)
    BY <2>2
  <2>4. /\ RowsOf(o) = SumFunctionOnSet(Credited, S) + (Opening[o] + SumFunctionOnSet(TopupAmount, T))
        /\ Opening[o] \in Nat
    BY DEF RowsOf, Granted
  <2> HIDE DEF S, T, zero
  <2>5. SumFunctionOnSet(zero, S) = 0 /\ SumFunctionOnSet(TopupAmount, T) = 0
    BY <2>2, <2>3, SumZero
  <2> QED
    BY <2>1, <2>4, <2>5
<1>2. BackedInv
  BY <1>1 DEF Init, BackedInv, Free, Unread, Uncounted
<1>3. ExactInv
  BY <1>1 DEF Init, ExactInv, Delivers, DepositOf, Busy, Free, Unread
<1> QED
  BY <1>2, <1>3

(* What a step adds to the rows backs every copy that it leaves alone.     *)
LEMMA StillBacked ==
    ASSUME HookInv, HookInv', BackedInv,
           \A o \in Orgs : RowsOf(o)' \in Nat /\ RowsOf(o) <= RowsOf(o)',
           \A o \in Orgs : (balance')[o] <= RowsOf(o)',
           \A d \in Deliveries : hook'[d].stage \in {"found", "told"} =>
              \/ hook'[d] = hook[d]
              \/ hook'[d].seen <= RowsOf(OrgOf[hook'[d].checkout]),
           \A t \in Topups : topup'[t].stage = "read" =>
              topup'[t] = topup[t] \/ topup'[t].seen <= RowsOf(TopupOf[t]),
           \A k \in Creations :
              /\ creation'[k].stage = "read" =>
                    creation'[k] = creation[k] \/ creation'[k].seen <= RowsOf(CreatorOf[k])
              /\ StripeKey /\ creation'[k].stage = "allowed" /\ ~creation'[k].promo =>
                    creation'[k] = creation[k] \/ Budget[k] <= RowsOf(CreatorOf[k])
              /\ StripeKey /\ campaign'[k] = "paid" /\ k \notin ByAdmin =>
                    campaign'[k] = campaign[k] \/ Budget[k] <= RowsOf(CreatorOf[k])
    PROVE  BackedInv'
<1> SUFFICES ASSUME NEW o \in Orgs
             PROVE  /\ (balance')[o] <= RowsOf(o)'
                    /\ \A d \in Deliveries :
                          hook'[d].stage \in {"found", "told"} /\ OrgOf[hook'[d].checkout] = o
                          => hook'[d].seen <= RowsOf(o)'
                    /\ \A t \in Topups : topup'[t].stage = "read" /\ TopupOf[t] = o
                          => topup'[t].seen <= RowsOf(o)'
                    /\ \A k \in Creations : CreatorOf[k] = o =>
                          /\ creation'[k].stage = "read" => creation'[k].seen <= RowsOf(o)'
                          /\ StripeKey /\ creation'[k].stage = "allowed" /\ ~creation'[k].promo
                                => Budget[k] <= RowsOf(o)'
                          /\ StripeKey /\ campaign'[k] = "paid" /\ k \notin ByAdmin
                                => Budget[k] <= RowsOf(o)'
  BY DEF BackedInv
<1>1. RowsOf(o) \in Nat /\ RowsOf(o)' \in Nat /\ RowsOf(o) <= RowsOf(o)'
  BY RowsType
<1>2. \A n \in Nat : n <= RowsOf(o) => n <= RowsOf(o)'
  BY <1>1
<1>3. /\ \A d \in Deliveries : hook[d].seen \in Nat
      /\ \A t \in Topups : topup[t].seen \in Nat
      /\ \A k \in Creations : creation[k].seen \in Nat /\ Budget[k] \in Nat
      /\ \A d \in Deliveries : hook'[d].seen \in Nat
      /\ \A t \in Topups : topup'[t].seen \in Nat
      /\ \A k \in Creations : creation'[k].seen \in Nat
  BY DEF HookInv, TypeOK
<1>4. ASSUME NEW d \in Deliveries, hook'[d].stage \in {"found", "told"}, OrgOf[hook'[d].checkout] = o
      PROVE  hook'[d].seen <= RowsOf(o)'
  BY <1>2, <1>3, <1>4 DEF BackedInv
<1>5. ASSUME NEW t \in Topups, topup'[t].stage = "read", TopupOf[t] = o PROVE topup'[t].seen <= RowsOf(o)'
  BY <1>2, <1>3, <1>5 DEF BackedInv
<1>6. ASSUME NEW k \in Creations, CreatorOf[k] = o, creation'[k].stage = "read"
      PROVE  creation'[k].seen <= RowsOf(o)'
  BY <1>2, <1>3, <1>6 DEF BackedInv
<1>7. ASSUME NEW k \in Creations, CreatorOf[k] = o, StripeKey,
             \/ creation'[k].stage = "allowed" /\ ~creation'[k].promo
             \/ campaign'[k] = "paid" /\ k \notin ByAdmin
      PROVE  Budget[k] <= RowsOf(o)'
  BY <1>2, <1>3, <1>7 DEF BackedInv
<1> QED
  BY <1>4, <1>5, <1>6, <1>7

(* Every step but the two commits leaves the rows as they are.             *)
LEMMA StepBacked == HookInv /\ BackedInv /\ [Next]_vars => BackedInv'
<1> SUFFICES ASSUME HookInv, HookInv', BackedInv, [Next]_vars PROVE BackedInv'
  BY StepHook
<1>0. \A o \in Orgs : RowsOf(o) \in Nat /\ balance[o] \in Nat /\ balance[o] <= RowsOf(o)
  BY RowsType DEF HookInv, TypeOK, BackedInv
<1>s. ASSUME UNCHANGED <<balance, credits, mocked>>
      PROVE  /\ \A o \in Orgs : RowsOf(o)' \in Nat /\ RowsOf(o) <= RowsOf(o)'
             /\ \A o \in Orgs : (balance')[o] <= RowsOf(o)'
  BY <1>0, <1>s, RowsUnchanged
<1>1. ASSUME UNCHANGED <<balance, credits, mocked, campaign, hook, topup, creation>> PROVE BackedInv'
  BY <1>1, <1>s, StillBacked
<1>2. ASSUME UNCHANGED <<balance, credits, mocked, campaign, topup, creation>>,
             \A d \in Deliveries : hook'[d].stage \in {"found", "told"} =>
                \/ hook'[d] = hook[d]
                \/ hook'[d].seen <= RowsOf(OrgOf[hook'[d].checkout])
      PROVE  BackedInv'
  BY <1>2, <1>s, StillBacked
<1>3. ASSUME UNCHANGED <<balance, credits, mocked, campaign, hook, creation>>,
             \A t \in Topups : topup'[t].stage = "read" =>
                topup'[t] = topup[t] \/ topup'[t].seen <= RowsOf(TopupOf[t])
      PROVE  BackedInv'
  BY <1>3, <1>s, StillBacked
<1>4. ASSUME UNCHANGED <<balance, credits, mocked, hook, topup>>,
             \A k \in Creations :
                /\ creation'[k].stage = "read" =>
                      creation'[k] = creation[k] \/ creation'[k].seen <= RowsOf(CreatorOf[k])
                /\ StripeKey /\ creation'[k].stage = "allowed" /\ ~creation'[k].promo =>
                      creation'[k] = creation[k] \/ Budget[k] <= RowsOf(CreatorOf[k])
                /\ StripeKey /\ campaign'[k] = "paid" /\ k \notin ByAdmin =>
                      campaign'[k] = campaign[k] \/ Budget[k] <= RowsOf(CreatorOf[k])
      PROVE  BackedInv'
  BY <1>4, <1>s, StillBacked
<1>5. ASSUME NEW d \in Deliveries, NEW s \in Checkouts, Send(d, s) PROVE BackedInv'
  BY <1>2, <1>5 DEF Send, HookInv, TypeOK, Free
<1>6. ASSUME NEW d \in Deliveries, Lose(d) PROVE BackedInv'
  BY <1>2, <1>6 DEF Lose, HookInv, TypeOK, Free
<1>7. ASSUME NEW d \in Deliveries, Look(d) PROVE BackedInv'
  BY <1>2, <1>7 DEF Look, HookInv, TypeOK, Free
<1>8. ASSUME NEW d \in Deliveries, ReadOrg(d) PROVE BackedInv'
  <2>1. OrgOf[hook[d].checkout] \in Orgs
    BY <1>8 DEF ReadOrg, HookInv, TypeOK, Busy
  <2>2. UNCHANGED <<campaign, creation>>
    BY <1>8 DEF ReadOrg
  <2> QED
    BY <1>0, <1>2, <1>8, <2>1, <2>2, ReadOrgIs
<1>9. ASSUME NEW d \in Deliveries, Commit(d) PROVE BackedInv'
  <2> DEFINE s == hook[d].checkout
  <2>1. s \in Checkouts /\ hook[d].stage \in {"found", "told"} /\ hook[d].seen \in Nat
    BY <1>9 DEF Commit, HookInv, TypeOK, Busy
  <2>2. /\ credits' = [credits EXCEPT ![s] = @ + 1]
        /\ balance' = [balance EXCEPT ![OrgOf[s]] = hook[d].seen + Amount[s]]
        /\ UNCHANGED <<mocked, campaign, topup, creation>>
    BY <1>9 DEF Commit, Deposit
  <2>3. \A o \in Orgs : RowsOf(o)' = IF OrgOf[s] = o THEN RowsOf(o) + Amount[s] ELSE RowsOf(o)
    BY <2>1, <2>2, RowsDeposit
  <2>4. Amount[s] \in Nat /\ OrgOf[s] \in Orgs /\ hook[d].seen <= RowsOf(OrgOf[s])
    BY <2>1 DEF BackedInv
  <2>5. \A o \in Orgs : RowsOf(o)' \in Nat /\ RowsOf(o) <= RowsOf(o)'
    BY <1>0, <2>3, <2>4
  <2>6. \A o \in Orgs : (balance')[o] <= RowsOf(o)'
    BY <1>0, <2>1, <2>2, <2>3, <2>4 DEF HookInv, TypeOK
  <2>7. \A c \in Deliveries : hook'[c].stage \in {"found", "told"} => hook'[c] = hook[c]
    BY <1>9 DEF Commit, HookInv, TypeOK, Free
  <2> QED
    BY <2>2, <2>5, <2>6, <2>7, StillBacked
<1>10. ASSUME NEW d \in Deliveries, Answer(d) PROVE BackedInv'
  <2>1. \A c \in Deliveries : hook'[c].stage \in {"found", "told"} =>
           \/ hook'[c] = hook[c]
           \/ /\ hook[c].stage = "found" /\ hook'[c].seen = hook[c].seen
              /\ hook'[c].checkout = hook[c].checkout
    BY <1>10 DEF Answer, HookInv, TypeOK, Free
  <2>2. UNCHANGED <<balance, credits, mocked, campaign, topup, creation>>
    BY <1>10 DEF Answer
  <2>3. \A c \in Deliveries : hook[c].stage = "found" =>
           OrgOf[hook[c].checkout] \in Orgs /\ hook[c].seen <= RowsOf(OrgOf[hook[c].checkout])
    BY DEF BackedInv, HookInv, TypeOK, Busy
  <2> QED
    BY <1>2, <2>1, <2>2, <2>3
<1>11. ASSUME NEW t \in Topups, OpenTopup(t) PROVE BackedInv'
  BY <1>0, <1>3, <1>11 DEF OpenTopup, HookInv, TypeOK
<1>12. ASSUME NEW t \in Topups, CommitTopup(t) PROVE BackedInv'
  <2>1. /\ topup[t].stage = "read" /\ topup[t].seen \in Nat
        /\ balance' = [balance EXCEPT ![TopupOf[t]] = topup[t].seen + TopupAmount[t]]
        /\ mocked' = mocked \cup {t} /\ t \notin mocked
        /\ UNCHANGED <<credits, campaign, hook, creation>>
    BY <1>12 DEF CommitTopup, HookInv, TypeOK
  <2>2. \A o \in Orgs :
           RowsOf(o)' = IF TopupOf[t] = o THEN RowsOf(o) + TopupAmount[t] ELSE RowsOf(o)
    BY <2>1, RowsTopup
  <2>3. TopupAmount[t] \in Nat /\ TopupOf[t] \in Orgs /\ topup[t].seen <= RowsOf(TopupOf[t])
    BY <2>1 DEF BackedInv
  <2>4. \A o \in Orgs : RowsOf(o)' \in Nat /\ RowsOf(o) <= RowsOf(o)'
    BY <1>0, <2>2, <2>3
  <2>5. \A o \in Orgs : (balance')[o] <= RowsOf(o)'
    BY <1>0, <2>1, <2>2, <2>3 DEF HookInv, TypeOK
  <2>6. \A u \in Topups : topup'[u].stage = "read" => topup'[u] = topup[u]
    BY <1>12 DEF CommitTopup, HookInv, TypeOK, Unread
  <2> QED
    BY <2>1, <2>4, <2>5, <2>6, StillBacked
<1>13. ASSUME NEW t \in Topups, LoseTopup(t) PROVE BackedInv'
  BY <1>3, <1>13 DEF LoseTopup, HookInv, TypeOK, Unread
<1>14. ASSUME NEW k \in Creations, Open(k) PROVE BackedInv'
  <2>1. /\ \A j \in Creations \ {k} : creation'[j] = creation[j]
        /\ creation'[k].stage = "read" /\ creation'[k].seen = balance[CreatorOf[k]]
        /\ UNCHANGED <<balance, credits, mocked, campaign, hook, topup>>
    BY <1>14 DEF Open, HookInv, TypeOK
  <2> QED
    BY <1>0, <1>4, <2>1
<1>15. ASSUME NEW k \in Creations, Count(k) PROVE BackedInv'
  <2> DEFINE promo == FreeTier(CreatorOf[k])
             passed == Launchable(k, promo)
             allowed == [creation[k] EXCEPT !.stage = "allowed", !.promo = promo]
  <2>1. /\ creation' = [creation EXCEPT ![k] = IF passed THEN allowed ELSE Uncounted("closed")]
        /\ UNCHANGED <<balance, credits, mocked, campaign, hook, topup>>
        /\ creation[k].stage = "read"
    BY <1>15 DEF Count, HookInv, TypeOK
  <2>2. creation \in [Creations -> Requested] /\ promo \in BOOLEAN
    BY DEF HookInv, TypeOK, Requested, FreeTier
  <2>3. StripeKey /\ passed /\ ~promo => creation[k].seen >= Budget[k]
    BY DEF Launchable
  <2>4. creation[k].seen <= RowsOf(CreatorOf[k]) /\ creation[k].seen \in Nat
    BY <2>1, <2>2 DEF BackedInv, Requested
  <2>5. StripeKey /\ passed /\ ~promo => Budget[k] <= RowsOf(CreatorOf[k])
    BY <1>0, <2>3, <2>4
  <2> HIDE DEF promo
  <2>6. allowed.stage = "allowed" /\ allowed.promo = promo
    BY <2>2 DEF Requested
  <2> HIDE DEF passed, allowed
  <2>7. /\ \A j \in Creations \ {k} : creation'[j] = creation[j]
        /\ creation'[k].stage # "read"
        /\ creation'[k].stage = "allowed" /\ ~creation'[k].promo => passed /\ ~promo
    BY <2>1, <2>2, <2>6 DEF Uncounted
  <2> QED
    BY <1>4, <2>1, <2>5, <2>7
<1>16. ASSUME NEW k \in Creations, NEW kind \in {"promo", "paid"}, Insertion(k, kind),
              \/ k \in ByAdmin
              \/ creation[k].stage = "allowed" /\ (kind = "promo" <=> creation[k].promo)
       PROVE  BackedInv'
  <2>1. kind = "paid" /\ k \notin ByAdmin /\ StripeKey => Budget[k] <= RowsOf(CreatorOf[k])
    BY <1>16 DEF BackedInv
  <2>2. /\ \A j \in Creations \ {k} : creation'[j] = creation[j] /\ campaign'[j] = campaign[j]
        /\ creation'[k].stage = "closed"
        /\ campaign'[k] = campaign[k] \/ campaign'[k] = kind
        /\ UNCHANGED <<balance, credits, mocked, hook, topup>>
    BY <1>16, InsertionIs
  <2> QED
    BY <1>4, <2>1, <2>2
<1>17. ASSUME NEW k \in Creations, Insert(k) PROVE BackedInv'
  <2>1. CASE creation[k].promo
    BY <1>16, <1>17, <2>1 DEF Insert
  <2>2. CASE ~creation[k].promo
    BY <1>16, <1>17, <2>2 DEF Insert
  <2> QED
    BY <2>1, <2>2
<1>18. ASSUME NEW k \in Creations, AdminCreate(k) PROVE BackedInv'
  BY <1>16, <1>18 DEF AdminCreate
<1> QED
  BY <1>1, <1>5, <1>6, <1>7, <1>8, <1>9, <1>10, <1>11, <1>12, <1>13, <1>14, <1>15, <1>17, <1>18
     DEF Next, Handle, Topup, Create, Complete, vars

LEMMA StepExact == HookInv /\ ExactInv /\ [Next]_vars => ExactInv'
<1> SUFFICES ASSUME HookInv, ExactInv, [Next]_vars PROVE ExactInv'
  OBVIOUS
<1> USE DEF Delivers, DepositOf, Busy
<1>1. ASSUME UNCHANGED <<balance, credits, mocked>>, contended \subseteq contended',
             \A d \in Deliveries : hook'[d].stage # "free" =>
                hook[d].stage # "free" /\ hook'[d].checkout = hook[d].checkout,
             \A d \in Deliveries : hook'[d].stage \in {"found", "told"} =>
                \/ hook[d].stage \in {"found", "told"} /\ hook'[d].seen = hook[d].seen
                \/ hook'[d].seen = balance[OrgOf[hook[d].checkout]],
             \A t \in Topups : topup'[t].stage = "read" => topup'[t] = topup[t]
      PROVE  ExactInv'
  BY <1>1, RowsUnchanged DEF ExactInv
<1>2. ASSUME NEW d \in Deliveries, NEW s \in Checkouts, Send(d, s) PROVE ExactInv'
  <2>1. /\ hook[d].stage = "free" /\ hook'[d].stage = "arrived" /\ hook'[d].checkout = s
        /\ \A c \in Deliveries \ {d} : hook'[c] = hook[c]
        /\ \A o \in Orgs : o \notin contended' => o \notin contended /\ (o = OrgOf[s] => ~OverlapsOrg(o))
        /\ UNCHANGED <<balance, credits, mocked, topup>>
    BY <1>2 DEF Send, Free, HookInv, TypeOK
  <2>2. \A o \in Orgs : RowsOf(o)' = RowsOf(o)
    BY <2>1, RowsUnchanged
  <2> QED
    BY <2>1, <2>2 DEF ExactInv, OverlapsOrg
<1>3. ASSUME NEW d \in Deliveries, Lose(d) PROVE ExactInv'
  BY <1>1, <1>3 DEF Lose, HookInv, TypeOK, Free
<1>4. ASSUME NEW d \in Deliveries, Look(d) PROVE ExactInv'
  BY <1>1, <1>4 DEF Look, HookInv, TypeOK, Free
<1>5. ASSUME NEW d \in Deliveries, ReadOrg(d) PROVE ExactInv'
  BY <1>1, <1>5, ReadOrgIs
<1>6. ASSUME NEW d \in Deliveries, Commit(d) PROVE ExactInv'
  <2> DEFINE s == hook[d].checkout
  <2>1. s \in Checkouts /\ hook[d].stage \in {"found", "told"} /\ hook[d].seen \in Nat
    BY <1>6 DEF Commit, HookInv, TypeOK
  <2>2. /\ credits' = [credits EXCEPT ![s] = @ + 1]
        /\ balance' = [balance EXCEPT ![OrgOf[s]] = hook[d].seen + Amount[s]]
        /\ UNCHANGED <<mocked, topup, contended>>
        /\ \A c \in Deliveries \ {d} : hook'[c] = hook[c]
        /\ hook'[d].stage \in {"answer", "free"}
        /\ hook'[d].stage = "answer" => hook'[d].checkout = s
    BY <1>6 DEF Commit, Deposit, HookInv, TypeOK, Free
  <2>3. \A o \in Orgs : RowsOf(o)' = IF OrgOf[s] = o THEN RowsOf(o) + Amount[s] ELSE RowsOf(o)
    BY <2>1, <2>2, RowsDeposit
  <2> SUFFICES ASSUME NEW o \in Orgs, o \notin contended
               PROVE  /\ (balance')[o] = RowsOf(o)'
                      /\ \A c, e \in Deliveries : Delivers(c, o)' /\ Delivers(e, o)' => c = e
                      /\ \A t, u \in Topups : DepositOf(t, o)' /\ DepositOf(u, o)' => t = u
                      /\ \A c \in Deliveries, t \in Topups : ~(Delivers(c, o)' /\ DepositOf(t, o)')
                      /\ \A c \in Deliveries : Delivers(c, o)' /\ hook'[c].stage \in {"found", "told"}
                            => hook'[c].seen = (balance')[o]
                      /\ \A t \in Topups : DepositOf(t, o)' => topup'[t].seen = (balance')[o]
    BY <2>2 DEF ExactInv
  <2>4. balance[o] = RowsOf(o) /\ (OrgOf[s] = o => hook[d].seen = balance[o])
    BY <2>1 DEF ExactInv
  <2>5. (balance')[o] = IF OrgOf[s] = o THEN hook[d].seen + Amount[s] ELSE balance[o]
    BY <2>1, <2>2 DEF HookInv, TypeOK
  <2>6. (balance')[o] = RowsOf(o)'
    BY <2>3, <2>4, <2>5
  <2>7. /\ \A c \in Deliveries : Delivers(c, o)' => Delivers(c, o)
        /\ \A t \in Topups : DepositOf(t, o)' <=> DepositOf(t, o)
    BY <2>1, <2>2
  <2>8. ASSUME NEW c \in Deliveries, Delivers(c, o)', hook'[c].stage \in {"found", "told"}
        PROVE  hook'[c].seen = (balance')[o]
    <3>1. c # d /\ hook'[c] = hook[c]
      BY <2>2, <2>8
    <3>2. OrgOf[s] # o
      BY <2>1, <2>7, <2>8, <3>1 DEF ExactInv
    <3> QED
      BY <2>5, <2>8, <3>1, <3>2 DEF ExactInv
  <2>9. ASSUME NEW t \in Topups, DepositOf(t, o)' PROVE topup'[t].seen = (balance')[o]
    <3>1. OrgOf[s] # o
      BY <2>1, <2>7, <2>9 DEF ExactInv
    <3> QED
      BY <2>2, <2>5, <2>9, <3>1 DEF ExactInv
  <2> QED
    BY <2>6, <2>7, <2>8, <2>9 DEF ExactInv
<1>7. ASSUME NEW d \in Deliveries, Answer(d) PROVE ExactInv'
  BY <1>1, <1>7 DEF Answer, HookInv, TypeOK, Free
<1>8. ASSUME NEW t \in Topups, OpenTopup(t) PROVE ExactInv'
  <2>1. /\ topup'[t].stage = "read" /\ topup'[t].seen = balance[TopupOf[t]] /\ TopupOf[t] \in Orgs
        /\ \A u \in Topups \ {t} : topup'[u] = topup[u]
        /\ \A o \in Orgs : o \notin contended' => o \notin contended /\ (o = TopupOf[t] => ~OverlapsOrg(o))
        /\ UNCHANGED <<balance, credits, mocked, hook>>
    BY <1>8 DEF OpenTopup, HookInv, TypeOK
  <2>2. \A o \in Orgs : RowsOf(o)' = RowsOf(o)
    BY <2>1, RowsUnchanged
  <2> QED
    BY <2>1, <2>2 DEF ExactInv, OverlapsOrg
<1>9. ASSUME NEW t \in Topups, CommitTopup(t) PROVE ExactInv'
  <2>1. /\ topup[t].stage = "read" /\ topup[t].seen \in Nat /\ topup'[t].stage = "closed"
        /\ \A u \in Topups \ {t} : topup'[u] = topup[u]
        /\ balance' = [balance EXCEPT ![TopupOf[t]] = topup[t].seen + TopupAmount[t]]
        /\ mocked' = mocked \cup {t} /\ t \notin mocked
        /\ UNCHANGED <<credits, hook, contended>>
    BY <1>9 DEF CommitTopup, Unread, HookInv, TypeOK
  <2>2. \A o \in Orgs :
           RowsOf(o)' = IF TopupOf[t] = o THEN RowsOf(o) + TopupAmount[t] ELSE RowsOf(o)
    BY <2>1, RowsTopup
  <2>3. \A o \in Orgs :
           (balance')[o] = IF TopupOf[t] = o THEN topup[t].seen + TopupAmount[t] ELSE balance[o]
    BY <2>1 DEF HookInv, TypeOK
  <2>4. \A o \in Orgs : o \notin contended' => (balance')[o] = RowsOf(o)'
    BY <2>1, <2>2, <2>3 DEF ExactInv
  <2> QED
    BY <2>1, <2>3, <2>4 DEF ExactInv
<1>10. ASSUME NEW t \in Topups, LoseTopup(t) PROVE ExactInv'
  BY <1>1, <1>10 DEF LoseTopup, Unread, HookInv, TypeOK
<1>11. ASSUME UNCHANGED <<balance, credits, mocked, hook, topup, contended>> PROVE ExactInv'
  BY <1>1, <1>11
<1> QED
  BY <1>2, <1>3, <1>4, <1>5, <1>6, <1>7, <1>8, <1>9, <1>10, <1>11
     DEF Next, Handle, Topup, Create, Complete, Open, Count, Insert, AdminCreate, Insertion, vars

LEMMA HookInvariance == Spec => []HookInv
  BY InitHook, StepHook, PTL DEF Spec

(* Balances, credits and the copies that webhook requests hold are natural *)
(* numbers, whatever overlaps and whatever is lost.                        *)
THEOREM AccountTypes == Spec => []TypeOK
<1>1. HookInv => TypeOK
  BY DEF HookInv
<1> QED
  BY <1>1, HookInvariance, PTL

(* Retries, losses and duplicates never credit a checkout twice: it takes  *)
(* two deliveries that run at the same time.                               *)
THEOREM DoubleNeedsOverlap == Spec => []DoubleCreditNeedsOverlap
<1>1. HookInv /\ CreditInv => DoubleCreditNeedsOverlap
  <2> SUFFICES ASSUME HookInv, CreditInv, NEW s \in Checkouts, credits[s] > 1, s \notin contended
               PROVE  FALSE
    BY DEF DoubleCreditNeedsOverlap
  <2>1. credits[s] \in Nat /\ credits[s] <= 1
    BY DEF HookInv, TypeOK, CreditInv
  <2> QED
    BY <2>1
<1> QED
  BY <1>1, InitAccount, HookInvariance, StepCredit, PTL DEF Spec

(* Where the session commits before the answer is sent, a payment that     *)
(* Stripe has an answer for is on the ledger.                              *)
THEOREM AcknowledgedCredited == Spec => []AcknowledgedIsCredited
<1>1. Init => AcknowledgedIsCredited
  BY DEF Init, AcknowledgedIsCredited
<1> QED
  BY <1>1, InitAccount, HookInvariance, StepAnswer, StepAcknowledged, PTL DEF Spec

(* An advertiser's first campaign is free, unless an operator made one for *)
(* it before; and only creations that were open at the same time are free  *)
(* both.                                                                   *)
THEOREM FreeTierOnce == Spec => []OneFreeCampaign
<1>1. FreeInv => OneFreeCampaign
  <2> SUFFICES ASSUME FreeInv, NEW o \in Orgs,
                      NEW free, free = {k \in CampaignsOf(o) : campaign[k] = "promo"}
               PROVE  /\ CampaignsOf(o) # {} => free # {} \/ CampaignsOf(o) \cap ByAdmin # {}
                      /\ \A j, k \in free : j # k => Overlapped(j, k)
    BY DEF OneFreeCampaign
  <2>1. ASSUME NEW k \in CampaignsOf(o) PROVE free # {} \/ CampaignsOf(o) \cap ByAdmin # {}
    <3>1. Started(campaign, o)
      BY <2>1 DEF FreeInv, CampaignsOf
    <3> QED
      BY <3>1 DEF Started, CampaignsOf
  <2>2. \A j, k \in free : j # k => Overlapped(j, k)
    BY DEF FreeInv, CampaignsOf, Met, Overlapped
  <2> QED
    BY <2>1, <2>2
<1> QED
  BY <1>1, InitAccount, HookInvariance, StepFree, PTL DEF Spec

(* No money is lost or invented in an organization whose deliveries and    *)
(* deposits never overlapped: its balance is what it began with and the    *)
(* sum of the rows that credit it.                                         *)
THEOREM BalanceIsRows == Spec => []BalanceIsRowsWithoutOverlap
<1>1. ExactInv => BalanceIsRowsWithoutOverlap
  BY DEF ExactInv, BalanceIsRowsWithoutOverlap
<1> QED
  BY <1>1, InitRows, HookInvariance, StepExact, PTL DEF Spec

(* However stale the balance that let it through, the budget of a paid     *)
(* campaign was covered by what its organization had paid in: checkouts    *)
(* that Stripe completed, each counted once, deposits and the balance it   *)
(* was created with.                                                       *)
THEOREM PaidFunded == Spec => []PaidIsFunded
<1>1. HookInv /\ CreditInv /\ PaidInv /\ BackedInv => PaidIsFunded
  <2> SUFFICES ASSUME HookInv, CreditInv, PaidInv, BackedInv, StripeKey,
                      NEW k \in Creations \ ByAdmin, campaign[k] = "paid",
                      ~CreditedTwice(CreatorOf[k])
               PROVE  Budget[k] <= PaidIn(CreatorOf[k])
    BY DEF PaidIsFunded
  <2> DEFINE o == CreatorOf[k]
  <2>1. Budget[k] <= RowsOf(o) /\ RowsOf(o) <= PaidIn(o)
    BY RowsArePaidIn DEF BackedInv
  <2>2. Budget[k] \in Nat /\ RowsOf(o) \in Nat /\ PaidIn(o) \in Int
    <3> DEFINE R == {s \in completed \ Delayed : OrgOf[s] = o /\ credits[s] > 0}
    <3>1. R \in SUBSET Checkouts /\ \A s \in R : Amount[s] \in Int
      BY DEF HookInv, TypeOK
    <3> HIDE DEF R
    <3>2. SumFunctionOnSet(Amount, R) \in Int
      BY <3>1, FS_Subset, SumType
    <3>3. Granted(o) \in Nat /\ RowsOf(o) \in Nat
      BY RowsType
    <3>4. PaidIn(o) = SumFunctionOnSet(Amount, R) + Granted(o)
      BY DEF PaidIn, R
    <3> QED
      BY <3>2, <3>3, <3>4
  <2> HIDE DEF o
  <2> QED
    BY <2>1, <2>2 DEF o
<1> QED
  BY <1>1, InitAccount, InitRows, HookInvariance, StepCredit, StepPaid, StepBacked, PTL DEF Spec
=============================================================================

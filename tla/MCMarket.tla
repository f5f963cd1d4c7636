------------------------------ MODULE MCMarket ------------------------------
(***************************************************************************)
(* Trading: two escrow accounts in which the same two parties have         *)
(* opposite roles, with a third caller who has none; the order book with   *)
(* one order and two competing offers, with an hour of three seconds, so   *)
(* that every remainder of the division occurs; the token ledger with two  *)
(* tasks, with a wallet each or a shared one; the token's escrows in other *)
(* hands than the ledger's; the agents that buy, sell and negotiate, and   *)
(* their budget; a provider's attestations and proofs; and the amounts all *)
(* of them pay in.  They share no variable; each behaviour moves one of    *)
(* them, `part`.                                                           *)
(***************************************************************************)
EXTENDS Marketplace, Attestation, Integers, Sequences, TLC

CONSTANTS Parts, job1, job2, alice, bob, carol, o1, f1, f2, h100, a100,
          n1, n2, v1, v2, c1, c2, c3, d1, d2,
          t1, t2, e1, e2,
          SharedWallet   \* whether both tasks pay from one wallet

VARIABLES part,
          balance, transactions, escrows, call, airdropped, escrow, funded,
          buyer, provider, negotiation, bought,
          tracker, disk, spends, saved,
          amount, exact, policy, reputation, records, up

ledger_vars == <<balance, transactions, escrows, call, airdropped>>
token_vars == <<escrow, funded>>
agent_vars == <<buyer, provider, negotiation, bought>>
budget_vars == <<tracker, disk, spends, saved>>
value_vars == <<amount, exact, policy, reputation, records, up>>

all_vars == <<part, vars, book_vars, ledger_vars, token_vars, agent_vars, budget_vars,
              attestation_vars, value_vars>>

MCEscrows  == {job1, job2}
MCParties  == {alice, bob, carol}
MCBuyer    == (job1 :> alice) @@ (job2 :> bob)
MCProvider == (job1 :> bob) @@ (job2 :> alice)

NoLimit == [interval |-> 0, cooldown |-> 0]
NoLimits == {NoLimit}

\* 30 is the least amount whose 5% fee is rounded; 60 of it lets both wallets pay.  The
\* greatest fee rate is all of the amount; the next is refused.
Ledger == INSTANCE MoltToken WITH
    Tasks <- {t1, t2}, Addresses <- {alice, bob, carol}, Marketplace <- carol,
    Wallet <- (t1 :> alice) @@ (t2 :> IF SharedWallet THEN alice ELSE bob),
    EscrowIds <- {e1, e2}, Amounts <- {30}, MaxSupply <- 60,
    MaxTransactions <- 1, Ids <- {e1, e2}, Rates <- {10000, 10001}

Job(r, p, d, rep) == [resources |-> r, price |-> p, duration |-> d, reputation |-> rep]
Offer(p, d, rep) == [price |-> p, duration |-> d, reputation |-> rep]
Bid(p, a, e, rep) == [price |-> p, available_at |-> a, expires_at |-> e, reputation |-> rep]

\* The owner of an agent does not lower its budget.
Budgets == {2}
DefaultBudget == 2
Amounts == {1, 2}
Hour == 2
MaxClock == 5

\* A buyer, a provider and a negotiation.
Buying == INSTANCE MoltAgents WITH
    Budget <- 4, MaxActiveJobs <- 1, Capacity <- 0, MaxJobs <- 0,
    Jobs <- {Job(1, 2, 600, 80), Job(2, 2, 3600, 50), Job(0, 1, 60, 90)},
    Offers <- {Offer(1, 60, 90), Offer(2, 60, 90), Offer(3, 60, 90), Offer(2, 60, 80), Offer(2, 600, 90)},
    Bids <- {}, MaxPrice <- 2, MinReputation <- 50, MaxPending <- 2, MaxEarnings <- 0,
    MaxTime <- 0, now <- clock

Providing == INSTANCE MoltAgents WITH
    Budget <- 0, MaxActiveJobs <- 1, Capacity <- 2, MaxJobs <- 2,
    Jobs <- {Job(1, 2, 600, 80), Job(2, 2, 3600, 50), Job(0, 1, 60, 90)}, Offers <- {},
    Bids <- {}, MaxPrice <- 2, MinReputation <- 50, MaxPending <- 0, MaxEarnings <- 4,
    MaxTime <- 0, now <- clock

Negotiation == INSTANCE MoltAgents WITH
    Budget <- 4, MaxActiveJobs <- 1, Capacity <- 2, MaxJobs <- 2, Jobs <- {}, Offers <- {},
    Bids <- {Bid(2, 0, 2, 80), Bid(2, 1, 2, 80), Bid(1, 1, 1, 50), Bid(3, 0, 2, 90), Bid(1, 2, 2, 50)},
    MaxPrice <- 2, MinReputation <- 50, MaxPending <- 0, MaxEarnings <- 4,
    MaxTime <- 1, now <- clock

\* A chain of attestations, apart from the challenges and checkpoints.
Chain == INSTANCE Attestation WITH
    Nodes <- {n1, n2}, Validity <- {0, 2},
    Limits <- {[interval |-> 1, cooldown |-> 2], NoLimit}, MaxEntries <- 3,
    Nonces <- {}, Verifiers <- {}, MaxAge <- 2, MaxAccepted <- 0, Data <- {}, MaxCheckpoints <- 0

\* Binary digits, two decimals, five bits.
Text(parts) == [negative |-> FALSE, parts |-> parts]
Values == INSTANCE MoltValues WITH
    Base <- 2, DECIMALS <- 2, MAX <- 31, Whole <- {0, 1, 8}, Limits <- {5}, MaxRecords <- 2,
    Texts <- {Text(<< <<1>> >>), Text(<< <<>>, <<0, 1>> >>), Text(<< <<1>>, <<>> >>),
              Text(<< <<1>>, <<1, 0, 1>> >>), Text(<< <<1, 1, 1, 1>> >>), Text(<< <<>> >>),
              Text(<< <<1>>, <<1>>, <<1>> >>), [negative |-> TRUE, parts |-> << <<1>> >>]}

-----------------------------------------------------------------------------
Trading == {"buying", "providing", "negotiation"}
Attesting == {"chain", "proofs"}
Clocked == Trading \cup Attesting \cup {"budget"}

\* The options a component starts with matter to that component only.
MarketInit == /\ part \in Parts
              /\ Init /\ BookInit /\ Ledger!LedgerInit /\ Ledger!TokenInit /\ Buying!AgentInit /\ Buying!BudgetInit
              /\ Chain!AttestInit /\ Values!Init
              /\ part # "escrow" => \A e \in Escrows : timeout[e] = 0
              /\ part # "chain" => limit = NoLimit
              /\ part # "values" => policy.max_spend_per_job = {}

Others == /\ IF part = "book" THEN TRUE ELSE UNCHANGED book_vars
          /\ IF part = "ledger" THEN TRUE ELSE UNCHANGED ledger_vars
          /\ IF part = "token_escrow" THEN TRUE ELSE UNCHANGED token_vars
          /\ IF part \in Trading THEN TRUE ELSE UNCHANGED agent_vars
          /\ IF part = "budget" THEN TRUE ELSE UNCHANGED budget_vars
          /\ IF part \in Attesting THEN TRUE ELSE UNCHANGED attested_vars
          /\ IF part = "values" THEN TRUE ELSE UNCHANGED value_vars
          /\ IF part \in Clocked THEN TRUE ELSE UNCHANGED clock
          /\ IF part = "escrow" THEN TRUE ELSE UNCHANGED vars

InEscrow(A) == part = "escrow" /\ A /\ Others /\ UNCHANGED part

Step == \/ part = "book" /\ BookNext
        \/ part = "ledger" /\ Ledger!LedgerNext
        \/ part = "token_escrow" /\ Ledger!TokenNext
        \/ part = "buying" /\ Buying!AgentNext
        \/ part = "providing" /\ Providing!AgentNext
        \/ part = "negotiation" /\ Negotiation!AgentNext
        \/ part = "budget" /\ Buying!BudgetNext
        \/ part = "chain" /\ Chain!AttestNext
        \/ part = "proofs" /\ AttestNext
        \/ part = "values" /\ Values!Next

MarketNext == InEscrow(Next) \/ (Step /\ Others /\ UNCHANGED part)

\* Time passes; nobody has to call a method.
MarketSpec == /\ MarketInit /\ [][MarketNext]_all_vars
              /\ WF_vars(InEscrow(Tick))

-----------------------------------------------------------------------------
\* No choice is beaten on every count: find_matches' score never ranks a dearer, less
\* reputable offer first (of prices its u32 holds), and a balanced negotiation takes no bid
\* that another one beats (score_bid).  A buyer takes no offer that another one beats in
\* more than price (select_best_offer): between offers at or above max_price, which the
\* policy's flexibility lets in, it may take the dearer.  More autonomy never declines what
\* less would accept.
ChoicesUndominated == /\ RankingMonotone
                      /\ part = "buying" => Buying!OfferUndominated
                      /\ part = "providing" => Providing!MoreAutonomyApprovesMore
                      /\ part = "negotiation" => Negotiation!SelectionUndominated

\* What was written is what is read: an amount from its text, and an agent's spending of
\* the hour from its file after a crash.
ReadsBack == /\ part = "values" => Values!TextRoundTrips
             /\ part = "budget" => Buying!BudgetSurvivesRestart

\* What the accounts hold is what the transactions and escrows say, between the check
\* and the debit of racing calls too; a call that has passed its balance check can
\* still be paid for; and an escrow's state tells which signature it has.
BooksBalance == /\ part = "ledger" => Ledger!BalancesMatchRecords /\ Ledger!CheckStillHolds
                /\ Ledger!StatesHaveSignatures

\* The marketplace's escrow, the token's and the ledger's use of it implement the
\* abstract one: they pay out at most once, to one party.
EscrowsPayOnce == KeepsPromise /\ Ledger!LedgerKeepsPromise /\ Ledger!TokenKeepsPromise

\* Past the timeout an account changes by expire() alone; the marketplace sees a token
\* escrow make only transitions it allows; and a trust score moves with the verdict
\* that was added.
StepsLegal ==
    [][/\ part = "escrow" => OverdueOnlyExpires
       /\ part = "ledger" => Ledger!MarketSeesLegalTransitions
       /\ part = "chain" => Chain!ScoreFollowsVerdicts]_all_vars

\* transfer and create_escrow refuse what the wallet cannot pay, as
\* test_transfer_insufficient_funds expects (client.rs:492): the debit takes the whole
\* amount out of the wallet, also when two tasks share it.
DebitsAreCovered == [][part = "ledger" => Ledger!DebitsAreCovered]_all_vars
=============================================================================

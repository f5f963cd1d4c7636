----------------------------- MODULE MoltValues -----------------------------
(***************************************************************************)
(* molt-core's values: an amount of MOLT in nano units with checked         *)
(* arithmetic and a decimal text form, the reputation counted from          *)
(* transactions, and the policy an agent acts under.  An account takes what *)
(* it earns and spends what its policy allows, is written out and read      *)
(* back.  A text is [negative, parts], parts being the digit sequences      *)
(* between the points; Base and DECIMALS scale the ten digits and the nine  *)
(* decimals of the code, MAX its largest u64.                               *)
(***************************************************************************)
EXTENDS Naturals, Sequences, FiniteSets, SequencesExt, FiniteSetsExt

CONSTANTS
    Base, DECIMALS, \* the digits of the text form and the decimals kept
    MAX,            \* the largest value of the integer an amount is kept in
    Texts,          \* texts that are offered to from_str
    Whole,          \* whole amounts that are given to from_molt
    Limits,         \* limits on the spending per job a policy may have
    MaxRecords      \* bound on the transactions recorded

VARIABLES
    amount,     \* the amount held
    exact,      \* history: the same amount in unbounded arithmetic, or MAX + 1 for more
    policy,     \* the Options a policy was built with
    reputation, \* [successful, failed]
    records,    \* history: the transactions in their order
    up          \* FALSE once an operation has panicked

vars == <<amount, exact, policy, reputation, records, up>>

NANO_PER_MOLT == Base ^ DECIMALS

checked(n) == IF n \in 0 .. MAX THEN {n} ELSE {}

-----------------------------------------------------------------------------
(* The text form. *)

\* The digits of n, as many as are asked for; digits is n without leading zeros.
padded(n, len) == [i \in 1 .. len |-> (n \div (Base ^ (len - i))) % Base]

digits(n) == padded(n, Min({len \in 1 .. n + 1 : n < Base ^ len}))

value(ds) == FoldLeft(LAMBDA v, d : v * Base + d, 0, ds)

without_zeros(ds) == SubSeq(ds, 1, SelectLastInSeq(ds, LAMBDA d : d # 0))

\* Variant: the fraction is not padded to the number of decimals.
serialize_unpadded(a) ==
    LET frac == a % NANO_PER_MOLT
    IN  [negative |-> FALSE,
         parts |-> <<digits(a \div NANO_PER_MOLT)>>
                   \o IF frac = 0 THEN <<>> ELSE <<without_zeros(digits(frac))>>]

serialize(a) ==
    LET frac == a % NANO_PER_MOLT
    IN  [negative |-> FALSE,
         parts |-> <<digits(a \div NANO_PER_MOLT)>>
                   \o IF frac = 0 THEN <<>> ELSE <<without_zeros(padded(frac, DECIMALS))>>]

\* A part that is too long for the integer does not parse.
parse(ds) == IF ds = <<>> THEN {} ELSE checked(value(ds))

from_str(text) ==
    LET whole == IF Len(text.parts) = 2 /\ text.parts[1] = <<>> THEN {0} ELSE parse(text.parts[1])
        nano == UNION {checked(w * NANO_PER_MOLT) : w \in whole}
        frac == text.parts[2]
    IN  IF text.negative \/ Len(text.parts) \notin 1 .. 2 THEN {}
        ELSE IF Len(text.parts) = 1 THEN nano
        ELSE IF Len(frac) > DECIMALS THEN {}
        ELSE UNION {checked(n + value(frac \o [i \in 1 .. DECIMALS - Len(frac) |-> 0])) : n \in nano}

-----------------------------------------------------------------------------
Init ==
    /\ amount = 0 /\ exact = 0 /\ up = TRUE
    /\ policy \in [max_spend_per_job : {{}} \cup {{l} : l \in Limits}]
    /\ reputation = [successful |-> 0, failed |-> 0] /\ records = <<>>

\* What was computed becomes the amount; what could not be leaves it.
Becomes(result, value_of) ==
    /\ amount' = IF result = {} THEN amount ELSE CHOOSE r \in result : TRUE
    /\ exact' = IF result = {} THEN exact ELSE Min({value_of, MAX + 1})
    /\ UNCHANGED <<policy, reputation, records, up>>

checked_add(a) == Becomes(checked(amount + a), exact + a)
checked_mul(n) == Becomes(checked(amount * n), exact * n)
checked_div(n) == Becomes(IF n = 0 THEN {} ELSE {amount \div n},
                          IF n = 0 THEN 0 ELSE exact \div n)

allows_spend(a) == \A max \in policy.max_spend_per_job : a <= max

checked_sub(a) ==
    /\ allows_spend(a)
    /\ Becomes(IF a > amount THEN {} ELSE {amount - a}, IF a > amount THEN exact ELSE exact - a)

\* Whole units are multiplied unchecked: a debug build panics on overflow and
\* a release build wraps.
from_molt(m) ==
    \/ Becomes({(m * NANO_PER_MOLT) % (MAX + 1)}, m * NANO_PER_MOLT)
    \/ /\ m * NANO_PER_MOLT > MAX
       /\ up' = FALSE
       /\ UNCHANGED <<amount, exact, policy, reputation, records>>

Save == Becomes(from_str(serialize(amount)), exact)

Read(text) == \E a \in from_str(text) : Becomes({a}, a)

record_success ==
    /\ Len(records) < MaxRecords
    /\ reputation' = [reputation EXCEPT !.successful = Min({@ + 1, MAX})]
    /\ records' = Append(records, TRUE)
    /\ UNCHANGED <<amount, exact, policy, up>>

record_failure ==
    /\ Len(records) < MaxRecords
    /\ reputation' = [reputation EXCEPT !.failed = Min({@ + 1, MAX})]
    /\ records' = Append(records, FALSE)
    /\ UNCHANGED <<amount, exact, policy, up>>

Next ==
    /\ up
    /\ \/ \E a \in 0 .. MAX : checked_add(a) \/ checked_sub(a)
       \/ \E n \in 0 .. 3 : checked_mul(n) \/ checked_div(n)
       \/ \E m \in Whole : from_molt(m)
       \/ \E t \in Texts : Read(t)
       \/ Save \/ record_success \/ record_failure

Spec == Init /\ [][Next]_vars

-----------------------------------------------------------------------------
\* The score is numerator over denominator: the counts with a prior of one
\* success and one failure.
score(r) == <<r.successful + 1, r.successful + r.failed + 2>>

TypeOK ==
    /\ amount \in 0 .. MAX /\ up \in BOOLEAN
    /\ \A f \in DOMAIN reputation : reputation[f] \in 0 .. MAX

(***************************************************************************)
(* "All arithmetic operations are overflow-safe" (amount.rs): the amount is *)
(* the one unbounded arithmetic gives, whatever was added, subtracted,      *)
(* multiplied, divided, written out, read back or refused before.           *)
(***************************************************************************)
AmountIsExact == amount = exact

(***************************************************************************)
(* An amount survives its text (Serialize, FromStr): what from_str makes of *)
(* the text serialize writes is the amount, for every amount, whatever its  *)
(* zeros; and a text that is read means the number it spells.               *)
(***************************************************************************)
TextRoundTrips ==
    /\ from_str(serialize(amount)) = {amount}
    /\ \A t \in Texts : \A a \in from_str(t) :
           LET frac == IF Len(t.parts) = 2 THEN t.parts[2] ELSE <<>>
           IN  a * Base ^ Len(frac) = value(t.parts[1] \o frac) * NANO_PER_MOLT

(***************************************************************************)
(* "with more recent transactions weighted more heavily" (reputation.rs):   *)
(* of two histories with the same outcomes the one that ends with a success *)
(* scores higher than the one that ends with a failure.                     *)
(***************************************************************************)
ScoreOf(h) == LET ok == Len(SelectSeq(h, LAMBDA x : x))
              IN  score([successful |-> ok, failed |-> Len(h) - ok])
RecentWeighsMore ==
    (Len(records) > 1 /\ Head(records) # Last(records) /\ Last(records)) =>
        LET r == ScoreOf(Reverse(records))
        IN  ScoreOf(records)[1] * r[2] > r[1] * ScoreOf(records)[2]
=============================================================================

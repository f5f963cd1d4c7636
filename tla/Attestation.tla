----------------------------- MODULE Attestation ----------------------------
(***************************************************************************)
(* What a MOLT provider proves about itself and how a verifier checks it,  *)
(* crates/molt-attestation/src: the chain of hardware attestations of a    *)
(* node with its rate limit and trust score, the challenges a verifier     *)
(* hands out with the cache of the nonces it has seen, and the checkpoints *)
(* of a job's execution.  Hashes are collision free: a hash is what was    *)
(* hashed.  The verdict on an attestation is the caller's.                 *)
(***************************************************************************)
EXTENDS Integers, Sequences, FiniteSets, FiniteSetsExt, Functions

CONSTANTS Nodes, Node,             \* node ids; the one the chain belongs to
          Validity,                \* lifetimes of an attestation
          Limits,                  \* RateLimitConfig: [interval, cooldown]
          MaxEntries,              \* bound on the chain
          Nonces, Verifiers, Verifier,
          MaxAge, MaxSize,         \* ChallengeConfig
          MaxAccepted,             \* bound on the accepted challenges
          Data, MaxCheckpoints,    \* data of the checkpoints; bound on their number
          MaxAttestTime            \* bound on the clock

\* A cache without room would not return from NonceCache::insert.
ASSUME CacheAssumption == MaxSize \in Nat \ {0}

VARIABLES entries, limit, last_failed,    \* AttestationChain
          challenges, nonces, order,      \* issued challenges; NonceCache
          accepted,                       \* history: accepted nonces, oldest first
          checkpoints, recorded,          \* CheckpointChain; history: its data
          clock

attested_vars == <<entries, limit, last_failed, challenges, nonces, order, accepted,
                   checkpoints, recorded>>

attestation_vars == <<attested_vars, clock>>

AttestTypeOK == /\ Len(entries) <= MaxEntries /\ limit \in Limits
                /\ last_failed \subseteq 0..MaxAttestTime /\ Cardinality(last_failed) <= 1
                /\ challenges \subseteq [nonce : Nonces, issued_at : 0..MaxAttestTime,
                                          verifier_id : Verifiers]
                /\ nonces = Range(order) /\ IsInjective(order) /\ Len(order) <= MaxSize
                /\ Len(checkpoints) <= MaxCheckpoints /\ clock \in 0..MaxAttestTime

AttestInit == /\ entries = <<>> /\ limit \in Limits /\ last_failed = {}
              /\ challenges = {} /\ nonces = {} /\ order = <<>> /\ accepted = <<>>
              /\ checkpoints = <<>> /\ recorded = <<>>
              /\ clock = 0

-----------------------------------------------------------------------------
(* hardware.rs *)

\* AttestationEntry::compute_hash: validity and GPUs are under the signature.
compute_hash(e) == <<e.attestation, e.previous_hash, e.verified_at, e.verification_passed>>

latest(s) == s[Len(s)]

\* Variant: the hash of the genesis entry in place of the last one.
first_hash == IF entries = <<>> THEN {} ELSE {compute_hash(Head(entries))}

latest_hash == IF entries = <<>> THEN {} ELSE {compute_hash(latest(entries))}

\* check_rate_limit: the cooldown after a failure, then the interval.
check_rate_limit == /\ \A f \in last_failed : clock - f >= limit.cooldown
                    /\ entries # <<>> => clock - latest(entries).verified_at >= limit.interval

\* add_attestation_unchecked, with the verdict that the caller comes to; an attestation of
\* another node is refused.
add_attestation_unchecked(a, verification_passed) ==
    /\ Len(entries) < MaxEntries
    /\ a.node_id = Node
    /\ entries' = Append(entries, [attestation |-> a, previous_hash |-> latest_hash, verified_at |-> clock,
                                   verification_passed |-> verification_passed])
    /\ last_failed' = IF verification_passed THEN last_failed ELSE {clock}
    /\ UNCHANGED <<limit, challenges, nonces, order, accepted, checkpoints, recorded, clock>>

add_attestation(a, verification_passed) ==
    check_rate_limit /\ add_attestation_unchecked(a, verification_passed)

set_rate_limit_config(l) == /\ limit' = l
                            /\ UNCHANGED <<entries, last_failed, challenges, nonces, order,
                                           accepted, checkpoints, recorded, clock>>

clear_cooldown == /\ last_failed' = {}
                  /\ UNCHANGED <<entries, limit, challenges, nonces, order, accepted,
                                 checkpoints, recorded, clock>>

verify_integrity(es) ==
    \A i \in 1..Len(es) :
        /\ es[i].attestation.node_id = Node
        /\ es[i].previous_hash = IF i = 1 THEN {} ELSE {compute_hash(es[i - 1])}

\* The weights of the entries that passed and of all, times their number.
passed(es) == {i \in 1..Len(es) : es[i].verification_passed}

weight(is) == FoldSet(+, 0, is)

\* Variant: the weights of the passed entries are not divided by their number.
trust_score_unscaled(es) ==
    LET n == Len(es)
    IN  IF es = <<>> THEN [n |-> 0, d |-> 1]
        ELSE [n |-> Cardinality(passed(es)) * weight(1..n) + weight(passed(es)) * n * n,
              d |-> 2 * n * weight(1..n)]

\* trust_score as a fraction: midpoint of the success ratio and the recency score.
trust_score(es) ==
    LET n == Len(es)
    IN  IF es = <<>> THEN [n |-> 0, d |-> 1]
        ELSE [n |-> Cardinality(passed(es)) * weight(1..n) + weight(passed(es)) * n,
              d |-> 2 * n * weight(1..n)]

-----------------------------------------------------------------------------
(* challenge.rs *)

\* AttestationChallenge::new.
new_challenge(n, v) ==
    /\ \A c \in challenges : c.nonce # n
    /\ challenges' = challenges \cup {[nonce |-> n, issued_at |-> clock, verifier_id |-> v]}
    /\ UNCHANGED <<entries, limit, last_failed, nonces, order, accepted, checkpoints, recorded,
                   clock>>

age_secs(c) == clock - c.issued_at

\* Variant: a full cache forgets the newest nonce.
evicted_newest == IF Len(order) >= MaxSize THEN SubSeq(order, 1, Len(order) - 1) ELSE order

\* NonceCache::insert evicts from the front while the cache is full.
evicted == IF Len(order) >= MaxSize THEN Tail(order) ELSE order

\* verify_challenge at the verifier Verifier.
verify_challenge(c) ==
    /\ c.verifier_id = Verifier /\ age_secs(c) <= MaxAge /\ c.nonce \notin nonces
    /\ Len(accepted) < MaxAccepted
    /\ order' = Append(evicted, c.nonce) /\ nonces' = Range(evicted) \cup {c.nonce}
    /\ accepted' = Append(accepted, c.nonce)
    /\ UNCHANGED <<entries, limit, last_failed, challenges, checkpoints, recorded, clock>>

-----------------------------------------------------------------------------
(* execution.rs and verification.rs *)

\* CheckpointChain::new and add_checkpoint: Checkpoint::new, Checkpoint::chain_from.
add_checkpoint(d) ==
    /\ Len(checkpoints) < MaxCheckpoints
    /\ checkpoints' = Append(checkpoints,
          [sequence |-> Len(checkpoints),
           hash |-> IF checkpoints = <<>> THEN <<d>> ELSE Append(latest(checkpoints).hash, d)])
    /\ recorded' = Append(recorded, d)
    /\ UNCHANGED <<entries, limit, last_failed, challenges, nonces, order, accepted, clock>>

\* Checkpoint::verify_chain.
verify_chain(c, previous, d) == /\ c.sequence = previous.sequence + 1
                                /\ c.hash = Append(previous.hash, d)

\* verify_execution_attestation (create_and_sign asks the same of the sequence,
\* and at least one checkpoint).
verify_execution(cs) == cs # <<>> /\ \A i \in 1..Len(cs) : cs[i].sequence = i - 1

\* Variant: the data of the first checkpoint is not compared.
verify_execution_with_later(cs, ds) ==
    /\ verify_execution(cs) /\ Len(ds) = Len(cs)
    /\ \A i \in 2..Len(cs) : verify_chain(cs[i], cs[i - 1], ds[i])

verify_execution_with_data(cs, ds) ==
    /\ verify_execution(cs) /\ Len(ds) = Len(cs)
    /\ cs[1].hash = <<ds[1]>>
    /\ \A i \in 2..Len(cs) : verify_chain(cs[i], cs[i - 1], ds[i])

tick == /\ clock < MaxAttestTime /\ clock' = clock + 1
        /\ UNCHANGED <<entries, limit, last_failed, challenges, nonces, order, accepted,
                       checkpoints, recorded>>

AttestNext == \/ \E n \in Nodes, made \in 0..clock, v \in Validity, passes \in BOOLEAN :
                   LET a == [node_id |-> n, timestamp |-> made, expires_at |-> made + v]
                   IN  add_attestation(a, passes) \/ add_attestation_unchecked(a, passes)
              \/ \E l \in Limits : set_rate_limit_config(l)
              \/ clear_cooldown
              \/ \E n \in Nonces, v \in Verifiers : new_challenge(n, v)
              \/ \E c \in challenges : verify_challenge(c)
              \/ \E d \in Data : add_checkpoint(d)
              \/ tick

AttestSpec == AttestInit /\ [][AttestNext]_attestation_vars

-----------------------------------------------------------------------------
\* The chain a node builds passes its own integrity check, however checked and
\* unchecked additions, failures and changes of the limits are mixed.
ChainVerifies == verify_integrity(entries)

\* A failed verification never raises the trust score, a passed one never lowers
\* it, and the score never exceeds 1 (trust_score).
ScoreFollowsVerdicts ==
    entries' # entries =>
        LET s == trust_score(entries)  t == trust_score(entries')
        IN  /\ t.n <= t.d
            /\ IF latest(entries').verification_passed
               THEN s.n * t.d <= t.n * s.d ELSE s.n * t.d >= t.n * s.d

\* "Returns `AttestationError::NonceReplay` if the nonce has been used before.":
\* a challenge is accepted once.  More exactly, once per cache: it is accepted
\* again only when MaxSize others were accepted in between.
AcceptedOncePerCache ==
    \A i, j \in 1..Len(accepted) : (i < j /\ accepted[i] = accepted[j]) => j - i > MaxSize

\* A job's proof fits the data its checkpoints were made of and no other.
ProofFitsRun ==
    checkpoints # <<>> =>
      \A ds \in UNION {[1 .. n -> Data] : n \in 0 .. MaxCheckpoints} :
          verify_execution_with_data(checkpoints, ds) <=> ds = recorded

\* What a provider proves about itself stands up to the verifiers' checks.
AttestationHolds == ChainVerifies /\ AcceptedOncePerCache /\ ProofFitsRun
=============================================================================

--------------------------- MODULE HumanAuthority ---------------------------
(***************************************************************************)
(* Human confirmation (authority/service.py and authority/repository.py):  *)
(* a credential is enrolled, a challenge is issued for one exact intent,   *)
(* and completing it yields an attestation.  Digests are injective, so a   *)
(* challenge is represented by the intent it commits to and its position   *)
(* in the table (its nonce).                                               *)
(*                                                                         *)
(* complete_confirmation is three steps that other processes may           *)
(* interleave with: it reads the credential, it consumes the challenge in  *)
(* a transaction of its own, and it stamps the attestation.  One API       *)
(* process runs its handlers one at a time, and the CLI completes only the *)
(* challenge it has issued itself, so no two of them consume the same one  *)
(* at once.                                                                *)
(***************************************************************************)
EXTENDS Naturals, Sequences

CONSTANTS
    Subjects,       \* what a human may confirm
    Credentials,    \* the credential ids
    Deciders,       \* the processes that confirm: the API and CLI commands
    Ttl,            \* CHALLENGE_TTL
    MaxChallenges,  \* bound: how many challenges are issued
    MaxTime         \* bound: how long the clock runs

ASSUME AuthorityBounds ==
    Ttl \in Nat /\ MaxChallenges \in Nat /\ MaxTime \in Nat

VARIABLES
    now,           \* the wall clock; every stamp is a reading of its own
    credential,    \* human_credentials: the status of each id
    revokedAt,     \* when a credential was revoked (0: never)
    challenges,    \* human_challenges, in the order of issue
    confirming,    \* the complete_confirmation each process is in
    attestations   \* the attestations made, in order

authorityVars == <<credential, revokedAt, challenges, confirming, attestations>>

ChallengeRow == [owner : Deciders, subject : Subjects, credential : Credentials,
                 expiresAt : 0..(MaxTime + Ttl), consumedAt : 0..MaxTime]

Confirmation == [stage : {"checked", "consumed"}, subject : Subjects,
                 credential : Credentials, challenge : 1..MaxChallenges]

Attestation == [subject : Subjects, credential : Credentials,
                challenge : 1..MaxChallenges, at : 1..MaxTime, signed : BOOLEAN]

NoConfirmation == [stage |-> "idle"]

AuthorityTypeOK ==
    /\ now \in 1..MaxTime
    /\ credential \in [Credentials -> {"absent", "active", "revoked"}]
    /\ revokedAt \in [Credentials -> 0..MaxTime]
    /\ challenges \in Seq(ChallengeRow)
    /\ confirming \in [Deciders -> {NoConfirmation} \cup Confirmation]
    /\ attestations \in Seq(Attestation)

AuthorityInit ==
    /\ now = 1
    /\ credential = [c \in Credentials |-> "absent"]
    /\ revokedAt = [c \in Credentials |-> 0]
    /\ challenges = <<>>
    /\ confirming = [p \in Deciders |-> NoConfirmation]
    /\ attestations = <<>>

Stamp ==
    /\ now < MaxTime
    /\ now' = now + 1

Enroll(c) ==
    /\ credential[c] = "absent"
    /\ credential' = [credential EXCEPT ![c] = "active"]
    /\ UNCHANGED <<now, revokedAt, challenges, confirming, attestations>>

Revoke(c) ==
    /\ credential[c] = "active"
    /\ Stamp
    /\ credential' = [credential EXCEPT ![c] = "revoked"]
    /\ revokedAt' = [revokedAt EXCEPT ![c] = now]
    /\ UNCHANGED <<challenges, confirming, attestations>>

(* begin_confirmation and issue_challenge. *)
BeginConfirmation(p, s, c) ==
    /\ Len(challenges) < MaxChallenges
    /\ credential[c] = "active"
    /\ challenges' = Append(challenges, [owner |-> p, subject |-> s, credential |-> c,
                                         expiresAt |-> now + Ttl, consumedAt |-> 0])
    /\ UNCHANGED <<now, credential, revokedAt, confirming, attestations>>

-----------------------------------------------------------------------------
(* Faulty variants: the credential is not read again; the challenge is not *)
(* compared with the subject.                                              *)
MatchesRevoked(s, c, i) ==
    challenges[i].subject = s /\ challenges[i].credential = c

MatchesAnySubject(s, c, i) ==
    credential[c] = "active" /\ challenges[i].credential = c

(* complete_confirmation: the credential is active and the challenge       *)
(* re-derives from this subject and this credential.                       *)
Matches(s, c, i) ==
    /\ credential[c] = "active"
    /\ challenges[i].subject = s
    /\ challenges[i].credential = c

CheckConfirmation(p, s, c, i) ==
    /\ confirming[p] = NoConfirmation
    /\ i \in DOMAIN challenges
    /\ challenges[i].owner = p
    /\ Matches(s, c, i)
    /\ confirming' = [confirming EXCEPT ![p] =
          [stage |-> "checked", subject |-> s, credential |-> c, challenge |-> i]]
    /\ UNCHANGED <<now, credential, revokedAt, challenges, attestations>>

(* Faulty variant: a consumed challenge may be consumed again. *)
ConsumableAgain(i) == challenges[i].expiresAt >= now

Consumable(i) == challenges[i].consumedAt = 0 /\ challenges[i].expiresAt >= now

(* consume_challenge; a refusal ends the confirmation. *)
ConsumeChallenge(p) ==
    /\ confirming[p].stage = "checked"
    /\ LET i == confirming[p].challenge IN
         \/ /\ Consumable(i)
            /\ Stamp
            /\ challenges' = [challenges EXCEPT ![i].consumedAt = now]
            /\ confirming' = [confirming EXCEPT ![p].stage = "consumed"]
         \/ /\ ~Consumable(i)
            /\ confirming' = [confirming EXCEPT ![p] = NoConfirmation]
            /\ UNCHANGED <<now, challenges>>
    /\ UNCHANGED <<credential, revokedAt, attestations>>

(* The rest of complete_confirmation.  Whether the assertion it stores is  *)
(* signed by the credential is checked only when the decision is stored.   *)
Attest(p, signed) ==
    /\ confirming[p].stage = "consumed"
    /\ Stamp
    /\ attestations' = Append(attestations,
          [subject |-> confirming[p].subject, credential |-> confirming[p].credential,
           challenge |-> confirming[p].challenge, at |-> now, signed |-> signed])
    /\ confirming' = [confirming EXCEPT ![p] = NoConfirmation]
    /\ UNCHANGED <<credential, revokedAt, challenges>>

-----------------------------------------------------------------------------
(* complete_confirmation: a challenge is spent by at most one attestation, *)
(* for the subject and the credential it was issued for, and it had not    *)
(* expired when it was spent.                                              *)
AttestedOnceInTime ==
    /\ \A i, j \in DOMAIN attestations :
          attestations[i].challenge = attestations[j].challenge => i = j
    /\ \A i \in DOMAIN attestations :
          LET a == attestations[i]
              ch == challenges[a.challenge]
          IN /\ ch.subject = a.subject /\ ch.credential = a.credential
             /\ ch.consumedAt # 0 /\ ch.consumedAt <= ch.expiresAt
             /\ ch.consumedAt < a.at
=============================================================================

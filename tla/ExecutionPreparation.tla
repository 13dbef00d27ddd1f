------------------------ MODULE ExecutionPreparation ------------------------
(***************************************************************************)
(* Preparing a registered Study for execution (runs/preparation.py): seal  *)
(* and compile it, decide from the human decisions whether the set of      *)
(* revisions is verified, store one RunSpec and one trust record per       *)
(* compiled specification, then the review target of the whole matrix.     *)
(*                                                                         *)
(* The API, the CLI and the demo thread prepare the same Study at the same *)
(* time, and people decide about its revisions meanwhile.  Every           *)
(* repository call is a read followed by a write of its own transaction;   *)
(* the unique digests make the second of two equal writes fail.            *)
(*                                                                         *)
(* The sealed revisions are 1..NumRevisions in canonical order and the     *)
(* compiled specifications 1..NumSpecs; both follow from immutable rows,   *)
(* so sealing and compiling are not steps of their own.  A trust record is *)
(* [spec, bound]: bound has one decision per revision, or none for the     *)
(* unverified kind.                                                        *)
(***************************************************************************)
EXTENDS Naturals, Sequences, FiniteSets

CONSTANTS
    Procs,
    NumRevisions,
    NumSpecs,
    MaxStops        \* bound: preparations that stop half way

VARIABLES
    decisions,      \* per revision, its decisions in the order of decided_at
    specs,          \* run_specs
    records,        \* execution_trust_records
    target,         \* the review target of the Study is stored
    ops,            \* where each preparation stands
    stops

vars == <<decisions, specs, records, target, ops, stops>>

ASSUME SizesAssumption ==
    /\ NumRevisions \in Nat \ {0}
    /\ NumSpecs \in Nat \ {0}
    /\ MaxStops \in Nat

Revisions == 1..NumRevisions
Specs == 1..NumSpecs

(* A person accepts or rejects, a repository fixture only accepts, and an  *)
(* acceptance may be superseded; every other change is refused, so a       *)
(* revision has at most two decisions.                                     *)
Firsts == {"accepted", "rejected", "fixture"}

Histories == {<<>>} \cup {<<d>> : d \in Firsts}
             \cup {<<d, "superseded">> : d \in Firsts \ {"rejected"}}

Bindings == UNION {[1..n -> 1..2] : n \in {0, NumRevisions}}

Idle == [at |-> "idle", spec |-> 1, bound |-> <<>>]

Stages == {"idle", "cover", "spec", "storeSpec", "record", "storeRecord",
           "target", "storeTarget"}

(* The types; bound is complete once the coverage was read. *)
TypeOK ==
    /\ decisions \in [Revisions -> Histories]
    /\ specs \subseteq Specs
    /\ records \subseteq [spec : Specs, bound : Bindings]
    /\ target \in BOOLEAN
    /\ stops \in 0..MaxStops
    /\ \A p \in Procs :
          /\ ops[p].at \in Stages
          /\ ops[p].spec \in Specs
          /\ ops[p].at \notin {"idle", "cover"} => ops[p].bound \in Bindings

Init ==
    /\ decisions = [r \in Revisions |-> <<>>]
    /\ specs = {}
    /\ records = {}
    /\ target = FALSE
    /\ ops = [p \in Procs |-> Idle]
    /\ stops = 0

Goto(p, op) == ops' = [ops EXCEPT ![p] = op]

(* prepare raises; what it stored remains. *)
Fails(p) == Goto(p, Idle)

-----------------------------------------------------------------------------
(* A decision about a registered revision (ContractRegistry says how). *)
Decide(r, d) ==
    /\ Append(decisions[r], d) \in Histories
    /\ decisions' = [decisions EXCEPT ![r] = Append(@, d)]
    /\ UNCHANGED <<specs, records, target, ops, stops>>

(* prepare: seal and compile. *)
Begin(p) ==
    /\ ops[p].at = "idle"
    /\ Goto(p, [Idle EXCEPT !.at = "cover"])
    /\ UNCHANGED <<decisions, specs, records, target, stops>>

Latest(r) == Len(decisions[r])

(* A faulty variant: whoever accepted. *)
AcceptedByAnyone(d) == d \in {"accepted", "fixture"}

(* decision == "accepted" and authority.kind == "verified_human". *)
AcceptedByPerson(d) == d = "accepted"

Covers(r) == Latest(r) > 0 /\ AcceptedByPerson(decisions[r][Latest(r)])

(* verified_decisions_for: the latest decision of one revision at a time;  *)
(* one that is missing or not an acceptance by a person leaves the whole   *)
(* set unverified.                                                         *)
Cover(p) ==
    LET op == ops[p]
        r  == Len(op.bound) + 1
    IN  /\ op.at = "cover"
        /\ Goto(p, CASE ~Covers(r)       -> [op EXCEPT !.at = "spec", !.bound = <<>>]
                     [] r < NumRevisions -> [op EXCEPT !.bound = Append(@, Latest(r))]
                     [] OTHER            -> [op EXCEPT !.at = "spec",
                                                       !.bound = Append(@, Latest(r))])
        /\ UNCHANGED <<decisions, specs, records, target, stops>>

-----------------------------------------------------------------------------
(* A faulty variant: a stored RunSpec is an error. *)
SpecReadStrict(p) ==
    /\ ops[p].at = "spec"
    /\ IF ops[p].spec \in specs
         THEN Fails(p)
         ELSE Goto(p, [ops[p] EXCEPT !.at = "storeSpec"])
    /\ UNCHANGED <<decisions, specs, records, target, stops>>

(* A faulty variant: a stored RunSpec means the package is prepared. *)
SpecReadTrusting(p) ==
    /\ ops[p].at = "spec"
    /\ Goto(p, [ops[p] EXCEPT !.at = IF ops[p].spec \in specs THEN "storeTarget"
                                                              ELSE "storeSpec"])
    /\ UNCHANGED <<decisions, specs, records, target, stops>>

(* save_run_spec: an existing row is returned. *)
SpecRead(p) ==
    /\ ops[p].at = "spec"
    /\ Goto(p, [ops[p] EXCEPT !.at = IF ops[p].spec \in specs THEN "record" ELSE "storeSpec"])
    /\ UNCHANGED <<decisions, specs, records, target, stops>>

SpecWrite(p) ==
    /\ ops[p].at = "storeSpec"
    /\ IF ops[p].spec \in specs
         THEN Fails(p) /\ UNCHANGED specs
         ELSE /\ specs' = specs \cup {ops[p].spec}
              /\ Goto(p, [ops[p] EXCEPT !.at = "record"])
    /\ UNCHANGED <<decisions, records, target, stops>>

(* The record of this preparation; its semantic digest leaves out the id   *)
(* and the time.                                                           *)
Candidate(p) == [spec |-> ops[p].spec, bound |-> ops[p].bound]

(* The bindings cover every revision or none, and each names a stored      *)
(* decision by which a person accepted the revision (ExecutionTrustRecord, *)
(* validate_verified_trust, _validate_bound_decisions).                    *)
Valid(record) ==
    /\ DOMAIN record.bound \in {{}, Revisions}
    /\ \A r \in DOMAIN record.bound :
          /\ record.bound[r] \in DOMAIN decisions[r]
          /\ AcceptedByPerson(decisions[r][record.bound[r]])

(* The next specification, or the target after the last one. *)
Prepared(op) ==
    IF op.spec < NumSpecs THEN [op EXCEPT !.at = "spec", !.spec = @ + 1]
                          ELSE [op EXCEPT !.at = "target"]

(* save_record: an existing record is validated and returned. *)
RecordRead(p) ==
    /\ ops[p].at = "record"
    /\ IF ops[p].spec \in specs /\ Valid(Candidate(p))
         THEN /\ Goto(p, IF Candidate(p) \in records
                           THEN Prepared(ops[p])
                           ELSE [ops[p] EXCEPT !.at = "storeRecord"])
         ELSE Fails(p)
    /\ UNCHANGED <<decisions, specs, records, target, stops>>

RecordWrite(p) ==
    /\ ops[p].at = "storeRecord"
    /\ IF Candidate(p) \in records
         THEN Fails(p) /\ UNCHANGED records
         ELSE /\ records' = records \cup {Candidate(p)}
              /\ Goto(p, Prepared(ops[p]))
    /\ UNCHANGED <<decisions, specs, target, stops>>

(* validate_review_target_lineage: the stored specifications are the       *)
(* compiled ones and the trust records cover exactly these.                *)
Lineage == specs = Specs /\ {record.spec : record \in records} = Specs

(* save_review_target. *)
TargetRead(p) ==
    /\ ops[p].at = "target"
    /\ IF target \/ (Lineage /\ \A record \in records : Valid(record))
         THEN /\ Goto(p, IF target THEN Idle ELSE [ops[p] EXCEPT !.at = "storeTarget"])
         ELSE Fails(p)
    /\ UNCHANGED <<decisions, specs, records, target, stops>>

TargetWrite(p) ==
    /\ ops[p].at = "storeTarget"
    /\ target' = TRUE      \* or the digest is taken and the call fails
    /\ Goto(p, Idle)
    /\ UNCHANGED <<decisions, specs, records, stops>>

-----------------------------------------------------------------------------
(* The process stops; what it stored remains. *)
Stop(p) ==
    /\ ops[p].at # "idle"
    /\ stops < MaxStops
    /\ stops' = stops + 1
    /\ Goto(p, Idle)
    /\ UNCHANGED <<decisions, specs, records, target>>

Step(p) ==
    \/ Cover(p)
    \/ SpecRead(p) \/ SpecWrite(p)
    \/ RecordRead(p) \/ RecordWrite(p)
    \/ TargetRead(p) \/ TargetWrite(p)

Next ==
    \/ \E r \in Revisions, d \in Firsts \cup {"superseded"} : Decide(r, d)
    \/ \E p \in Procs : Begin(p) \/ Step(p) \/ Stop(p)

(* A preparation that began runs on, and one that failed is asked for      *)
(* again by whoever wants the package; nobody need ever decide.            *)
Fairness == \A p \in Procs : WF_vars(Step(p)) /\ WF_vars(Begin(p))

Spec == Init /\ [][Next]_vars /\ Fairness

-----------------------------------------------------------------------------
(* A stored review target stands for a complete package, also after stops  *)
(* and races: every RunSpec is stored and has a trust record.              *)
TargetIsComplete == TypeOK /\ (target => Lineage)

(* A verified record binds, for every revision of the set, a decision by   *)
(* which a person accepted it.                                             *)
VerifiedByPeople ==
    \A record \in records : record.bound # <<>> =>
        \A r \in Revisions : decisions[r][record.bound[r]] = "accepted"

(* Whatever stopped or failed before, repeating the preparation completes  *)
(* the package.                                                            *)
PackageGetsPrepared == <>target
=============================================================================

-------------------------- MODULE ContractRegistry --------------------------
(***************************************************************************)
(* Contract revisions and the decisions about them                         *)
(* (infrastructure/database/registry.py).  Registration runs inside BEGIN  *)
(* IMMEDIATE and is one step.  A decision is not: it is stamped when the   *)
(* human confirms, then the previous decision is read, then the new one is *)
(* written, and the API, the CLI and the thread that imports the legacy    *)
(* package each do so on their own.                                        *)
(***************************************************************************)
EXTENDS HumanAuthority, FiniteSets

CONSTANTS
    Ids,          \* logical ids
    Contents,     \* document contents (their digests)
    MaxRevision,  \* bound: revision numbers
    Cli,          \* the decider that only accepts (authority accept)
    Importer,     \* the thread of bootstrap_demo
    Legacy        \* the revisions of the legacy package

ASSUME RegistryBounds == MaxRevision \in Nat \ {0} /\ Cli \in Deciders

VARIABLES
    rows,       \* contract_revisions by logical id and number
    decisions,  \* contract_decisions in the order of insertion
    deciding,   \* what each process has under way
    overlapped  \* whether a confirmation, a revocation or an import has ever
                \* begun while another one was under way

registryVars == <<rows, decisions, deciding, overlapped>>

vars == <<now, authorityVars, registryVars>>

Revisions == Ids \X (1..MaxRevision)

Decisions == {"accepted", "rejected", "superseded"}

AbsentRow == [content |-> "absent", status |-> "absent"]

RevisionRow == [content : Contents, status : {"draft", "proposed"} \cup Decisions]

DecisionRow == [revision : Revisions, content : Contents, decision : Decisions,
                actor : {"verified_human", "repository_fixture"}, at : 1..MaxTime,
                attestation : 0..MaxChallenges]

Processes == Deciders \cup {Importer}

Idle == [stage |-> "idle"]

TypeOK ==
    /\ AuthorityTypeOK
    /\ rows \in [Revisions -> RevisionRow \cup {AbsentRow}]
    /\ decisions \in Seq(DecisionRow)
    /\ deciding \in [Processes -> {Idle} \cup
                        [stage : {"register", "read", "write"}, row : DecisionRow]]
    /\ overlapped \in BOOLEAN

Init ==
    /\ AuthorityInit
    /\ rows = [r \in Revisions |-> AbsentRow]
    /\ decisions = <<>>
    /\ deciding = [p \in Processes |-> Idle]
    /\ overlapped = FALSE

-----------------------------------------------------------------------------
Registered(id) == {n \in 1..MaxRevision : rows[<<id, n>>] # AbsentRow}

(* A faulty variant: any unused number will do. *)
RegisteredAnyNumber(r, content, status) ==
    CASE rows[r] = AbsentRow -> [content |-> content, status |-> status]
      [] rows[r].content = content /\ rows[r].status = "draft"
                             -> [rows[r] EXCEPT !.status = status]
      [] OTHER               -> rows[r]

(* The number is one more than the highest registered. *)
NextNumber(r) ==
    /\ \A n \in Registered(r[1]) : n < r[2]
    /\ r[2] = 1 \/ r[2] - 1 \in Registered(r[1])

(* save_contract_revision: the row that results.  An existing revision     *)
(* only moves from draft to proposed, and only for the same content; a new *)
(* one must carry the next number.                                         *)
RegisteredRow(r, content, status) ==
    CASE rows[r] = AbsentRow /\ NextNumber(r)
                             -> [content |-> content, status |-> status]
      [] rows[r] # AbsentRow /\ rows[r].content = content /\ rows[r].status = "draft"
                             -> [rows[r] EXCEPT !.status = status]
      [] OTHER               -> rows[r]

Register(r, content, status) ==
    /\ rows' = [rows EXCEPT ![r] = RegisteredRow(r, content, status)]
    /\ UNCHANGED <<now, authorityVars, decisions, deciding, overlapped>>

-----------------------------------------------------------------------------
Quiet ==
    /\ \A p \in Processes : deciding[p] = Idle
    /\ \A p \in Deciders : confirming[p] = NoConfirmation

Began == overlapped' = (overlapped \/ ~Quiet)

(* The API or the CLI confirms and builds the decision, stamped with the   *)
(* time of the attestation.                                                *)
Confirm(p, s, c, i) ==
    /\ deciding[p] = Idle
    /\ CheckConfirmation(p, s, c, i)
    /\ Began
    /\ UNCHANGED <<rows, decisions, deciding>>

Confirmed(p, signed) ==
    /\ Attest(p, signed)
    /\ LET s == confirming[p].subject IN
         deciding' = [deciding EXCEPT ![p] =
          [stage |-> "read",
           row |-> [revision |-> s.revision, content |-> s.content,
                    decision |-> s.decision, actor |-> "verified_human",
                    at |-> now, attestation |-> Len(attestations) + 1]]]
    /\ UNCHANGED <<rows, decisions, overlapped>>

(* import_legacy_contract_package: acceptance_decisions stamps the          *)
(* decisions before the revisions are registered.                          *)
StartImport(r, content) ==
    /\ deciding[Importer] = Idle
    /\ Began
    /\ Stamp
    /\ deciding' = [deciding EXCEPT ![Importer] =
          [stage |-> "register",
           row |-> [revision |-> r, content |-> content, decision |-> "accepted",
                    actor |-> "repository_fixture", at |-> now, attestation |-> 0]]]
    /\ UNCHANGED <<authorityVars, rows, decisions>>

(* A content that differs from the registered one ends the import. *)
ImportRegisters ==
    /\ deciding[Importer].stage = "register"
    /\ LET d == deciding[Importer].row IN
         /\ rows' = [rows EXCEPT ![d.revision] = RegisteredRow(d.revision, d.content, "draft")]
         /\ deciding' = [deciding EXCEPT ![Importer] =
              IF rows'[d.revision].content = d.content
                THEN [@ EXCEPT !.stage = "read"] ELSE Idle]
    /\ UNCHANGED <<now, authorityVars, decisions, overlapped>>

Of(r) == {i \in DOMAIN decisions : decisions[i].revision = r}

(* The latest decision by decided_at, whatever the order of insertion. *)
Latest(r) == {i \in Of(r) : \A j \in Of(r) : decisions[j].at <= decisions[i].at}

(* A faulty variant: superseding does not ask for an acceptance. *)
NewDecisionAnyFirst(d) ==
    \A i \in Latest(d.revision) :
        \/ decisions[i].decision = "accepted" /\ d.decision = "superseded"
        \/ /\ decisions[i].decision = d.decision /\ d.decision = "accepted"
           /\ decisions[i].actor = "repository_fixture" /\ d.actor = "verified_human"

(* The decision adds a row: it is the first and no supersession, or it     *)
(* supersedes an acceptance, or a human accepts what a fixture accepted.   *)
(* Otherwise it is refused or answered with the previous row.              *)
NewDecision(d) ==
    /\ Latest(d.revision) = {} => d.decision # "superseded"
    /\ \A i \in Latest(d.revision) :
        \/ decisions[i].decision = "accepted" /\ d.decision = "superseded"
        \/ /\ decisions[i].decision = d.decision /\ d.decision = "accepted"
           /\ decisions[i].actor = "repository_fixture" /\ d.actor = "verified_human"

(* _authorize_decision: the assertion verifies, or the decision is one of  *)
(* the package that is being imported.                                     *)
Authorized(d) == d.actor = "verified_human" => attestations[d.attestation].signed

(* _persist_contract_decision up to its write. *)
DecideReads(p) ==
    /\ deciding[p].stage = "read"
    /\ LET d == deciding[p].row IN
         deciding' = [deciding EXCEPT ![p] =
            IF rows[d.revision].content = d.content /\ Authorized(d) /\ NewDecision(d)
              THEN [@ EXCEPT !.stage = "write"] ELSE Idle]
    /\ UNCHANGED <<now, authorityVars, rows, decisions, overlapped>>

DecideWrites(p) ==
    /\ deciding[p].stage = "write"
    /\ LET d == deciding[p].row IN
         /\ decisions' = Append(decisions, d)
         /\ rows' = [rows EXCEPT ![d.revision].status = d.decision]
    /\ deciding' = [deciding EXCEPT ![p] = Idle]
    /\ UNCHANGED <<now, authorityVars, overlapped>>

(* A process stops between any two steps; a challenge it has consumed      *)
(* stays consumed.                                                         *)
Stop(p) ==
    /\ deciding[p] # Idle \/ (p \in Deciders /\ confirming[p] # NoConfirmation)
    /\ deciding' = [deciding EXCEPT ![p] = Idle]
    /\ confirming' = [q \in Deciders |-> IF q = p THEN NoConfirmation ELSE confirming[q]]
    /\ UNCHANGED <<now, credential, revokedAt, challenges, attestations, rows, decisions,
                   overlapped>>

Authority ==
    /\ \/ \E c \in Credentials : Enroll(c) /\ UNCHANGED overlapped
       \/ \E c \in Credentials : Revoke(c) /\ Began
       \/ \E p \in Deciders, s \in Subjects, c \in Credentials :
             (p = Cli => s.decision = "accepted") /\ BeginConfirmation(p, s, c)
                /\ UNCHANGED overlapped
       \/ \E p \in Deciders : ConsumeChallenge(p) /\ UNCHANGED overlapped
    /\ UNCHANGED <<rows, decisions, deciding>>

Next ==
    \/ Authority
    \/ \E r \in Revisions, content \in Contents, status \in {"draft", "proposed"} :
          Register(r, content, status)
    \/ \E p \in Deciders, s \in Subjects, c \in Credentials, i \in 1..MaxChallenges :
          Confirm(p, s, c, i)
    \/ \E p \in Deciders, signed \in BOOLEAN : Confirmed(p, signed)
    \/ \E d \in Legacy : StartImport(d.revision, d.content)
    \/ ImportRegisters
    \/ \E p \in Processes : DecideReads(p) \/ DecideWrites(p) \/ Stop(p)

Spec == Init /\ [][Next]_vars
-----------------------------------------------------------------------------
(* save_contract_revision: the revisions of a logical id are numbered from *)
(* one without a gap, whoever registers them and in whatever order.        *)
NumberedWithoutGaps ==
    /\ TypeOK
    /\ \A id \in Ids : \A n \in Registered(id) : 1..n \subseteq Registered(id)

(* The authority rule of the registry: every human decision stored is what *)
(* a human confirmed, about the content the revision still has, and no     *)
(* confirmation is stored twice; a fixture only ever accepts revisions of  *)
(* the legacy package.                                                     *)
DecisionsAreConfirmed ==
    /\ \A i \in DOMAIN decisions :
        LET d == decisions[i] IN
        /\ rows[d.revision].content = d.content
        /\ IF d.actor = "verified_human"
             THEN LET a == attestations[d.attestation] IN
                  /\ challenges[a.challenge].subject =
                       [revision |-> d.revision, content |-> d.content, decision |-> d.decision]
                  /\ a.signed /\ d.at = a.at
             ELSE /\ d.decision = "accepted"
                  /\ [revision |-> d.revision, content |-> d.content] \in Legacy
    /\ \A i, j \in DOMAIN decisions :
        decisions[i].attestation = decisions[j].attestation
            /\ decisions[i].actor = "verified_human" => i = j

(* contract_registry replays the stored decisions by decided_at through    *)
(* InMemoryContractRegistry.decide, which refuses a first supersession and *)
(* every change but accepted to superseded: as long as no two operations   *)
(* overlapped the replay never fails, and the status column that the read  *)
(* model lists is the decision it ends with, which execution trust uses.   *)
RegistryRebuilds ==
    ~overlapped => \A r \in Revisions : \A i \in Of(r) :
        LET before == {j \in Of(r) : decisions[j].at < decisions[i].at}
            d == decisions[i].decision
        IN /\ before = {} => d # "superseded"
           /\ \A j \in before :
                (\A k \in before : decisions[k].at <= decisions[j].at) =>
                    \/ decisions[j].decision = d
                    \/ decisions[j].decision = "accepted" /\ d = "superseded"
           /\ i \in Latest(r) => rows[r].status = d

(* revoke_credential: as long as no two operations overlapped, nothing is  *)
(* attested with a credential after it was revoked, although challenges    *)
(* issued for it are still open.                                           *)
RevokedAttestsNothing ==
    ~overlapped => \A i \in DOMAIN attestations :
        LET a == attestations[i] IN
        revokedAt[a.credential] # 0 => a.at < revokedAt[a.credential]
=============================================================================

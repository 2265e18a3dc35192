----------------------------- MODULE CorpusPropose -----------------------------
(***************************************************************************)
(* Bare /propose_draft and /propose_tweet: the subject is the newest of    *)
(* the corpus that no row of the operator has used, and the build runs     *)
(* like any other.  The rows are read when the command arrives; a row that *)
(* is building is not among the used ones.                                 *)
(***************************************************************************)
EXTENDS Naturals, Sequences, SequencesExt, FiniteSets

CONSTANTS Chunks,          \* what the corpus may hold: [column, line, usable]
          Subjects,        \* subject lines normalize_subject_line lets through
          Topic,           \* the tokens of topic_fingerprint, of every subject
          Strong,          \* STRONG_TOPIC_SINGLE and the tokens with an underscore
          CandidateLimit,  \* CANDIDATE_LIMIT
          UsedLimit,       \* USED_SUBJECT_LIMIT
          MaxChunks,       \* bound: chunks ingested
          MaxRows          \* bound: proposals

Surfaces == {"Draft", "Tweet"}
UsedStatuses == {"open", "accepted", "published"}
NoSubject == "what we know"

ASSUME CorpusProposeAssumption ==
    /\ \A c \in Chunks : c.column \in Subjects \cup {NoSubject} /\ c.line \in Subjects \cup {NoSubject}
    /\ NoSubject \notin Subjects
    /\ DOMAIN Topic = Subjects
    /\ {CandidateLimit, UsedLimit, MaxChunks, MaxRows} \subseteq Nat

VARIABLES cpCorpus,  \* the chunks, the newest first
          cpRows,    \* drafts and tweets: [surface, subject, status, beside]
          cpRecent,  \* the rows, the one updated last first
          cpRefused  \* the last answer of the command, when it is a refusal

proposeVars == <<cpCorpus, cpRows, cpRecent, cpRefused>>

ProposeInit == cpCorpus = <<>> /\ cpRows = <<>> /\ cpRecent = <<>> /\ cpRefused = "no"

-------------------------------------------------------------------------------
\* angle_subject: the column, or else the first line of the text.
AngleSubject(c) ==
    CASE c.column \in Subjects -> c.column
      [] c.column \notin Subjects /\ c.line \in Subjects -> c.line
      [] OTHER -> NoSubject

\* topic_fingerprints_overlap
Overlap(a, b) ==
    LET shared == a \cap b
    IN Cardinality(shared) >= 3 \/ shared \cap Strong # {}

\* used_propose_subjects and used_propose_topic_subjects: the rows updated last.
UsedRows ==
    LET used == {k \in DOMAIN cpRecent : cpRows[cpRecent[k]].status \in UsedStatuses}
    IN {cpRecent[k] : k \in {n \in used : Cardinality({m \in used : m < n}) < UsedLimit}}

UsedSubjects == {cpRows[r].subject : r \in UsedRows}
UsedTopics(surface) == {Topic[cpRows[r].subject] : r \in {u \in UsedRows : cpRows[u].surface = surface}}

Fresh(c, surface) ==
    /\ c.usable
    /\ AngleSubject(c) \notin UsedSubjects
    /\ \A used \in UsedTopics(surface) : ~Overlap(Topic[AngleSubject(c)], used)

Candidates == SubSeq(cpCorpus, 1, IF Len(cpCorpus) < CandidateLimit THEN Len(cpCorpus) ELSE CandidateLimit)

\* Mutant: only the rows of the same surface count as used.
PickAngleOfSurface(surface) ==
    LET reached == SelectInSeq(Candidates, LAMBDA c :
            AngleSubject(c) = NoSubject
            \/ (c.usable /\ \A used \in UsedTopics(surface) : ~Overlap(Topic[AngleSubject(c)], used)))
    IN IF reached = 0 THEN NoSubject ELSE AngleSubject(Candidates[reached])

\* pick_corpus_angle: the walk ends at the first fresh chunk, and at the first one
\* that has no subject.
PickAngle(surface) ==
    LET reached == SelectInSeq(Candidates, LAMBDA c : AngleSubject(c) = NoSubject \/ Fresh(c, surface))
    IN IF reached = 0 THEN NoSubject ELSE AngleSubject(Candidates[reached])

-------------------------------------------------------------------------------
Building == {r \in DOMAIN cpRows : cpRows[r].status = "building"}
Touch(r) == cpRecent' = <<r>> \o RemoveFirst(cpRecent, r)

Ingest(c) ==
    /\ Len(cpCorpus) < MaxChunks
    /\ cpCorpus' = <<c>> \o cpCorpus
    /\ UNCHANGED <<cpRows, cpRecent, cpRefused>>

\* corpus_propose_*_reply up to the stub of the row.
Propose(surface) ==
    LET subject == PickAngle(surface)
    IN /\ Len(cpRows) < MaxRows
       /\ IF subject = NoSubject
          THEN /\ cpRefused' = IF cpCorpus = <<>> THEN "empty" ELSE IF UsedRows = {} THEN "no angle" ELSE "all used"
               /\ UNCHANGED <<cpRows, cpRecent>>
          ELSE /\ cpRows' = Append(cpRows, [surface |-> surface, subject |-> subject, status |-> "building",
                                            beside |-> Building])
               /\ cpRecent' = <<Len(cpRows) + 1>> \o cpRecent
               /\ cpRefused' = "no"
       /\ UNCHANGED cpCorpus

\* The build: saved open; off its subject, its row deleted; failed, its row marked.
EndBuild(r, status) ==
    /\ r \in Building
    /\ cpRows' = [cpRows EXCEPT ![r].status = status]
    /\ Touch(r)
    /\ UNCHANGED <<cpCorpus, cpRefused>>

ProposalSaved(r) == EndBuild(r, "open")
ProposalAbandoned(r) == EndBuild(r, "deleted")
ProposalFailed(r) == EndBuild(r, "failed")

\* The operator takes the row through the gate.
Advance(r) ==
    /\ cpRows[r].status \in {"open", "accepted"}
    /\ cpRows' = [cpRows EXCEPT ![r].status = IF @ = "open" THEN "accepted" ELSE "published"]
    /\ Touch(r)
    /\ UNCHANGED <<cpCorpus, cpRefused>>

ProposeNext ==
    \/ \E c \in Chunks : Ingest(c)
    \/ \E surface \in Surfaces : Propose(surface)
    \/ \E r \in DOMAIN cpRows : ProposalSaved(r) \/ ProposalAbandoned(r) \/ ProposalFailed(r) \/ Advance(r)

ProposeSpec == ProposeInit /\ [][ProposeNext]_proposeVars

-------------------------------------------------------------------------------
Kept(r) == cpRows[r].status \in UsedStatuses

\* Two rows tell the same story only when the first was still building as the second
\* was proposed; of the other surface the subject line is what counts, of the same
\* surface its tokens too (resolve_corpus_propose_brief).  While the rows fit USED_SUBJECT_LIMIT.
StoriesDiffer ==
    Len(cpRows) <= UsedLimit =>
        \A i, j \in DOMAIN cpRows : (i < j /\ Kept(i) /\ Kept(j) /\ i \notin cpRows[j].beside) =>
            /\ cpRows[i].subject # cpRows[j].subject
            /\ cpRows[i].surface = cpRows[j].surface => ~Overlap(Topic[cpRows[i].subject], Topic[cpRows[j].subject])

\* The comment of resolve_corpus_propose_brief, "already appear on an in-flight or
\* shipped row so bare propose does not re-open the same story".
NoStoryTwice ==
    \A i, j \in DOMAIN cpRows : (i # j /\ Kept(i) /\ Kept(j)) => cpRows[i].subject # cpRows[j].subject

\* The same comment: it refuses when the corpus has no usable chunk, or when every
\* angle is covered.  As a step: a refusal means that no chunk was fresh.
RefusedMeansCovered ==
    [][\A surface \in Surfaces : (Propose(surface) /\ cpRefused' # "no") =>
            \A i \in DOMAIN Candidates :
                AngleSubject(Candidates[i]) # NoSubject => ~Fresh(Candidates[i], surface)]_proposeVars
================================================================================
